--------------------------- MODULE WaitlistProofs ---------------------------
(***************************************************************************)
(* Theorems about Waitlist, for every queue, any number of cascades at     *)
(* once and any number of failures.                                        *)
(*                                                                         *)
(* MarkNotified writes by id and asks nothing again, so what a cascade     *)
(* found must still hold when it writes: nobody ahead of the entry it      *)
(* carries can have started to wait, for entries join in order and none    *)
(* waits twice.                                                            *)
(***************************************************************************)
EXTENDS Waitlist, TLAPS

Joined(e) == entry[e].status # "none"
Passed(e) == Joined(e) /\ \A f \in Entry : f < e => Joined(f) /\ entry[f].status # "waiting"

JoinsInOrder == \A e, f \in Entry : f < e /\ Joined(e) => Joined(f)

Carries == \A c \in Cascade :
  /\ At(c, "mark") => cascade[c].who \in Entry /\ Passed(cascade[c].who)
  /\ At(c, "enqueue") => cascade[c].who \in Entry

IInv ==
  /\ TypeOK
  /\ JoinsInOrder
  /\ NobodyOvertaken
  /\ Carries

LEMMA Parameters ==
  /\ Entry \subseteq Nat \ {0} /\ Sweeper \in Cascade /\ Handler \subseteq Cascade
  /\ Window \in Nat \ {0} /\ MaxFreed \in Nat /\ MaxFaults \in Nat
BY WaitlistParameters DEF WaitlistParameters, Cascade

LEMMA InitOK == Init => IInv
<1> SUFFICES ASSUME Init PROVE IInv
  OBVIOUS
<1>1. TypeOK
  BY Parameters DEF Init, TypeOK, Row, Steps
<1>2. JoinsInOrder /\ NobodyOvertaken /\ Carries
  BY DEF Init, JoinsInOrder, Joined, NobodyOvertaken, Carries, At
<1> QED
  BY <1>1, <1>2 DEF IInv

-----------------------------------------------------------------------------
(* The steps that change no entry.                                         *)

\* A cascade that moves on without carrying anything new keeps the invariant.
LEMMA GoesOK ==
  ASSUME IInv, NEW c \in Cascade, NEW step \in Steps, NEW who \in Entry \cup {Nobody},
         step \in {"mark", "enqueue"} => who \in Entry,
         step = "mark" => Passed(who),
         Goes(c, step, who), UNCHANGED entry
  PROVE  /\ cascade' \in [Cascade -> [step : Steps, who : Entry \cup {Nobody}]]
         /\ JoinsInOrder' /\ NobodyOvertaken' /\ Carries'
<1>1. cascade \in [Cascade -> [step : Steps, who : Entry \cup {Nobody}]]
  BY DEF IInv, TypeOK
<1>2. cascade' = [cascade EXCEPT ![c] = [step |-> step, who |-> who]]
  BY DEF Goes
<1>3. cascade' \in [Cascade -> [step : Steps, who : Entry \cup {Nobody}]]
  BY <1>1, <1>2
<1>4. JoinsInOrder' /\ NobodyOvertaken'
  BY DEF IInv, JoinsInOrder, Joined, NobodyOvertaken
<1>5. Carries'
  <2> SUFFICES ASSUME NEW d \in Cascade
               PROVE  /\ cascade'[d].step = "mark" =>
                           cascade'[d].who \in Entry /\ Passed(cascade'[d].who)
                      /\ cascade'[d].step = "enqueue" => cascade'[d].who \in Entry
    BY DEF Carries, At, Passed, Joined
  <2>1. CASE d = c
    BY <2>1, <1>1, <1>2
  <2>2. CASE d # c
    <3>1. cascade'[d] = cascade[d]
      BY <2>2, <1>1, <1>2
    <3> QED
      BY <3>1 DEF IInv, Carries, At
  <2> QED
    BY <2>1, <2>2
<1> QED
  BY <1>3, <1>4, <1>5

LEMMA SlotFreedOK ==
  ASSUME IInv, NEW h \in Handler, SlotFreed(h)
  PROVE  IInv'
<1>1. freed' \in 0..MaxFreed
  BY Parameters DEF SlotFreed, IInv, TypeOK
<1>2. h \in Cascade /\ Goes(h, "expire", Nobody) /\ UNCHANGED <<entry, faults, told>>
  BY Parameters DEF SlotFreed
<1>3. /\ cascade' \in [Cascade -> [step : Steps, who : Entry \cup {Nobody}]]
      /\ JoinsInOrder' /\ NobodyOvertaken' /\ Carries'
  BY <1>2, GoesOK DEF Steps
<1> QED
  BY <1>1, <1>2, <1>3 DEF IInv, TypeOK

LEMMA SweepOK ==
  ASSUME IInv, SweepFindsQueue
  PROVE  IInv'
<1>1. Sweeper \in Cascade /\ Goes(Sweeper, "expire", Nobody)
      /\ UNCHANGED <<entry, freed, faults, told>>
  BY Parameters DEF SweepFindsQueue
<1>2. /\ cascade' \in [Cascade -> [step : Steps, who : Entry \cup {Nobody}]]
      /\ JoinsInOrder' /\ NobodyOvertaken' /\ Carries'
  BY <1>1, GoesOK DEF Steps
<1> QED
  BY <1>1, <1>2 DEF IInv, TypeOK

LEMMA FindNextOK ==
  ASSUME IInv, NEW c \in Cascade, FindNext(c)
  PROVE  IInv'
<1>1. UNCHANGED <<entry, freed, faults, told>>
  BY DEF FindNext
<1>2. CASE Goes(c, "idle", Nobody)
  <2>1. /\ cascade' \in [Cascade -> [step : Steps, who : Entry \cup {Nobody}]]
        /\ JoinsInOrder' /\ NobodyOvertaken' /\ Carries'
    BY <1>1, <1>2, GoesOK DEF Steps
  <2> QED
    BY <1>1, <2>1 DEF IInv, TypeOK
<1>3. ASSUME NEW e \in Entry, Oldest(e), Goes(c, "mark", e) PROVE IInv'
  <2>1. Passed(e)
    <3>1. Joined(e)
      BY <1>3 DEF Oldest, InLine, Joined
    <3>2. ASSUME NEW f \in Entry, f < e PROVE Joined(f) /\ entry[f].status # "waiting"
      <4>1. Joined(f)
        BY <3>1, <3>2 DEF IInv, JoinsInOrder
      <4>2. ~(e <= f)
        BY <3>2, Parameters
      <4> QED
        BY <4>1, <4>2, <1>3 DEF Oldest, InLine
    <3> QED
      BY <3>1, <3>2 DEF Passed
  <2>2. /\ cascade' \in [Cascade -> [step : Steps, who : Entry \cup {Nobody}]]
        /\ JoinsInOrder' /\ NobodyOvertaken' /\ Carries'
    BY <1>1, <1>3, <2>1, GoesOK DEF Steps
  <2> QED
    BY <1>1, <2>2 DEF IInv, TypeOK
<1> QED
  BY <1>2, <1>3 DEF FindNext

LEMMA EnqueueOK ==
  ASSUME IInv, NEW c \in Cascade, Enqueue(c)
  PROVE  IInv'
<1>2. told' \subseteq Entry
  BY DEF Enqueue, IInv, TypeOK, Carries
<1>3. Goes(c, "idle", Nobody) /\ UNCHANGED <<entry, freed, faults>>
  BY DEF Enqueue
<1>4. /\ cascade' \in [Cascade -> [step : Steps, who : Entry \cup {Nobody}]]
      /\ JoinsInOrder' /\ NobodyOvertaken' /\ Carries'
  BY <1>3, GoesOK DEF Steps
<1> QED
  BY <1>2, <1>3, <1>4 DEF IInv, TypeOK

LEMMA FailsOK ==
  ASSUME IInv, NEW c \in Cascade, Fails(c)
  PROVE  IInv'
<1>1. faults' \in 0..MaxFaults
  BY Parameters DEF Fails, IInv, TypeOK
<1>2. Goes(c, "idle", Nobody) /\ UNCHANGED <<entry, freed, told>>
  BY DEF Fails
<1>3. /\ cascade' \in [Cascade -> [step : Steps, who : Entry \cup {Nobody}]]
      /\ JoinsInOrder' /\ NobodyOvertaken' /\ Carries'
  BY <1>2, GoesOK DEF Steps
<1> QED
  BY <1>1, <1>2, <1>3 DEF IInv, TypeOK

-----------------------------------------------------------------------------
(* The steps that change entries.                                          *)

\* Entries that join nothing and do not start to wait keep the order; the
\* cascades that carry one keep it too.
LEMMA StatusOK ==
  ASSUME IInv,
         \A e \in Entry : /\ Joined(e)' <=> Joined(e)
                          /\ entry'[e].status = "waiting" => entry[e].status = "waiting",
         \A c \in Cascade : At(c, "mark")' => At(c, "mark") /\ cascade'[c].who = cascade[c].who,
         \A c \in Cascade : At(c, "enqueue")' => cascade'[c].who \in Entry
  PROVE  JoinsInOrder' /\ Carries'
<1>1. JoinsInOrder'
  BY DEF IInv, JoinsInOrder
<1>2. ASSUME NEW e \in Entry, Passed(e) PROVE Passed(e)'
  BY <1>2 DEF Passed
<1>3. ASSUME NEW c \in Cascade, At(c, "mark")'
      PROVE  cascade'[c].who \in Entry /\ Passed(cascade[c].who)'
  BY <1>2, <1>3 DEF IInv, Carries
<1> QED
  BY <1>1, <1>3 DEF Carries

LEMMA JoinOK ==
  ASSUME IInv, NEW e \in Entry, JoinWaitlist(e)
  PROVE  IInv'
<1>1. /\ entry \in [Entry -> Row] /\ entry[e].status = "none"
      /\ entry' = [entry EXCEPT ![e] = [entry[e] EXCEPT !.status = "waiting"]]
      /\ \A f \in Entry : f < e => Joined(f)
      /\ UNCHANGED <<cascade, freed, faults, told>>
  BY DEF JoinWaitlist, IInv, TypeOK, Joined
<1>2. TypeOK'
  BY <1>1 DEF IInv, TypeOK, Row
<1>3. entry'[e].status = "waiting" /\ \A f \in Entry : f # e => entry'[f] = entry[f]
  BY <1>1 DEF Row
<1>4. \A f \in Entry : Joined(f) => ~(e < f) /\ f # e
  BY <1>1 DEF IInv, JoinsInOrder, Joined
<1>5. JoinsInOrder'
  <2>1. \A f \in Entry : Joined(f)' <=> Joined(f) \/ f = e
    BY <1>3 DEF Joined
  <2>2. ASSUME NEW d \in Entry, NEW f \in Entry, f < d, Joined(d)' PROVE Joined(f)'
    BY <2>1, <2>2, <1>1 DEF IInv, JoinsInOrder
  <2> QED
    BY <2>2 DEF JoinsInOrder
<1>6. NobodyOvertaken'
  BY <1>1, <1>3, <1>4 DEF IInv, NobodyOvertaken, Joined
<1>7. ASSUME NEW c \in Cascade
      PROVE  /\ At(c, "mark") =>
                  /\ cascade[c].who \in Entry /\ entry'[cascade[c].who].status # "none"
                  /\ \A f \in Entry : f < cascade[c].who =>
                       entry'[f].status # "none" /\ entry'[f].status # "waiting"
             /\ At(c, "enqueue") => cascade[c].who \in Entry
  BY <1>3, <1>4 DEF IInv, Carries, Passed, Joined
<1>8. Carries'
  BY <1>1, <1>7 DEF Carries, Passed, Joined, At
<1> QED
  BY <1>1, <1>2, <1>5, <1>6, <1>8 DEF IInv

LEMMA ExpireOK ==
  ASSUME IInv, NEW c \in Cascade, ExpireStale(c)
  PROVE  IInv'
<1>1. /\ entry \in [Entry -> Row]
      /\ cascade \in [Cascade -> [step : Steps, who : Entry \cup {Nobody}]]
      /\ cascade' = [cascade EXCEPT ![c] = [step |-> "find", who |-> Nobody]]
      /\ UNCHANGED <<freed, faults, told>>
  BY DEF ExpireStale, Goes, IInv, TypeOK
<1>2. ASSUME NEW e \in Entry
      PROVE  /\ entry'[e] \in Row
             /\ Joined(e)' <=> Joined(e)
             /\ entry'[e].status = "waiting" <=> entry[e].status = "waiting"
             /\ entry'[e].status \in {"notified", "expired"} <=>
                  entry[e].status \in {"notified", "expired"}
  BY <1>1 DEF ExpireStale, Stale, Row, Joined
<1>3. \A d \in Cascade : d # c => cascade'[d] = cascade[d]
  BY <1>1
<1>4. cascade'[c].step = "find"
  BY <1>1
<1>5. TypeOK'
  <2>1. entry' \in [Entry -> Row]
    BY <1>2 DEF ExpireStale
  <2>2. cascade' \in [Cascade -> [step : Steps, who : Entry \cup {Nobody}]]
    BY <1>1 DEF Steps
  <2> QED
    BY <1>1, <2>1, <2>2 DEF IInv, TypeOK
<1>6. NobodyOvertaken'
  BY <1>2 DEF IInv, NobodyOvertaken
<1>7. JoinsInOrder' /\ Carries'
  <2>1. \A d \in Cascade : At(d, "mark")' => At(d, "mark") /\ cascade'[d].who = cascade[d].who
    BY <1>3, <1>4 DEF At
  <2>2. \A d \in Cascade : At(d, "enqueue")' => cascade'[d].who \in Entry
    BY <1>3, <1>4 DEF At, IInv, Carries
  <2> QED
    BY <1>2, <2>1, <2>2, StatusOK
<1> QED
  BY <1>1, <1>5, <1>6, <1>7 DEF IInv

LEMMA MarkOK ==
  ASSUME IInv, NEW c \in Cascade, MarkNotified(c)
  PROVE  IInv'
<1> DEFINE e == cascade[c].who
<1>1. /\ entry \in [Entry -> Row]
      /\ cascade \in [Cascade -> [step : Steps, who : Entry \cup {Nobody}]]
      /\ entry' = [entry EXCEPT ![e] = [status |-> "notified", left |-> Window]]
      /\ cascade' = [cascade EXCEPT ![c] = [step |-> "enqueue", who |-> e]]
      /\ UNCHANGED <<freed, faults, told>>
  BY DEF MarkNotified, Goes, IInv, TypeOK
<1>2. e \in Entry /\ Passed(e)
  BY DEF MarkNotified, IInv, Carries
<1>3. entry'[e].status = "notified" /\ \A f \in Entry : f # e => entry'[f] = entry[f]
  BY <1>1, <1>2
<1>4. /\ \A d \in Cascade : d # c => cascade'[d] = cascade[d]
      /\ cascade'[c].step = "enqueue" /\ cascade'[c].who = e
  BY <1>1
<1>5. TypeOK'
  <2>1. entry' \in [Entry -> Row]
    BY <1>1, <1>2, Parameters DEF Row
  <2>2. cascade' \in [Cascade -> [step : Steps, who : Entry \cup {Nobody}]]
    BY <1>1, <1>2 DEF Steps
  <2> QED
    BY <1>1, <2>1, <2>2 DEF IInv, TypeOK
<1>6. NobodyOvertaken'
  <2> SUFFICES ASSUME NEW d \in Entry, NEW f \in Entry, d < f,
                      entry'[f].status \in {"notified", "expired"}
               PROVE  entry'[d].status # "waiting"
    BY DEF NobodyOvertaken
  <2>1. CASE d = e
    BY <2>1, <1>3
  <2>2. CASE d # e /\ f = e
    BY <2>2, <1>2, <1>3 DEF Passed
  <2>3. CASE d # e /\ f # e
    BY <2>3, <1>3 DEF IInv, NobodyOvertaken
  <2> QED
    BY <2>1, <2>2, <2>3
<1>7. JoinsInOrder' /\ Carries'
  <2>1. \A f \in Entry : /\ Joined(f)' <=> Joined(f)
                         /\ entry'[f].status = "waiting" => entry[f].status = "waiting"
    BY <1>2, <1>3 DEF Joined, Passed
  <2>2. \A d \in Cascade : At(d, "mark")' => At(d, "mark") /\ cascade'[d].who = cascade[d].who
    BY <1>4 DEF At
  <2>3. \A d \in Cascade : At(d, "enqueue")' => cascade'[d].who \in Entry
    BY <1>2, <1>4 DEF At, IInv, Carries
  <2> QED
    BY <2>1, <2>2, <2>3, StatusOK
<1> QED
  BY <1>1, <1>5, <1>6, <1>7 DEF IInv

LEMMA TickOK ==
  ASSUME IInv, Tick
  PROVE  IInv'
<1>1. entry \in [Entry -> Row] /\ UNCHANGED <<cascade, freed, faults, told>>
  BY DEF Tick, IInv, TypeOK
<1>2. \A e \in Entry : entry'[e] \in Row /\ entry'[e].status = entry[e].status
  BY <1>1, Parameters DEF Tick, Row
<1>3. entry' \in [Entry -> Row]
  BY <1>2 DEF Tick
<1>4. NobodyOvertaken'
  BY <1>2 DEF IInv, NobodyOvertaken
<1>5. JoinsInOrder' /\ Carries'
  BY <1>1, <1>2, StatusOK DEF Joined, At, IInv, Carries
<1> QED
  BY <1>1, <1>3, <1>4, <1>5 DEF IInv, TypeOK

-----------------------------------------------------------------------------
(* The theorems.                                                           *)

LEMMA NextOK ==
  ASSUME IInv, [Next]_vars
  PROVE  IInv'
<1>1. ASSUME NEW e \in Entry, JoinWaitlist(e) PROVE IInv'
  BY <1>1, JoinOK
<1>2. ASSUME NEW h \in Handler, SlotFreed(h) PROVE IInv'
  BY <1>2, SlotFreedOK
<1>3. CASE SweepFindsQueue
  BY <1>3, SweepOK
<1>4. ASSUME NEW c \in Cascade, Runs(c) \/ Fails(c) PROVE IInv'
  BY <1>4, ExpireOK, FindNextOK, MarkOK, EnqueueOK, FailsOK DEF Runs
<1>5. CASE Tick
  BY <1>5, TickOK
<1>6. CASE UNCHANGED vars
  BY <1>6 DEF vars, IInv, TypeOK, JoinsInOrder, Joined, NobodyOvertaken, Carries, Passed, At
<1> QED
  BY <1>1, <1>2, <1>3, <1>4, <1>5, <1>6 DEF Next

LEMMA Invariant == Spec => []IInv
BY InitOK, NextOK, PTL DEF Spec

\* The entries and the cascades keep their types.
THEOREM TypeCorrect == Spec => []TypeOK
<1>1. IInv => TypeOK
  BY DEF IInv
<1> QED
  BY <1>1, Invariant, PTL

\* Nobody is offered a slot before somebody who joined earlier, however many
\* cascades run at once on stale reads and wherever they stop.
THEOREM FirstComeFirstTold == Spec => []NobodyOvertaken
<1>1. IInv => NobodyOvertaken
  BY DEF IInv
<1> QED
  BY <1>1, Invariant, PTL
=============================================================================
