------------------------------ MODULE Waitlist ------------------------------
(***************************************************************************)
(* One waitlist queue: the customers waiting for the same artist, store,   *)
(* service and date, and the cascades that tell the next of them that a    *)
(* slot opened (internal/booking).                                         *)
(*                                                                         *)
(* A cascade is four SQL statements with no transaction around them, run   *)
(* by whichever request freed the slot or by the sweep that unstalls the   *)
(* queue.  Cascades interleave, and any of them can fail between two       *)
(* statements.  Time is relative: an entry keeps what is left of its       *)
(* confirm window.                                                         *)
(***************************************************************************)
EXTENDS Integers

CONSTANTS
  Entry,     \* waitlist_entries ids, numbered in order of created_at
  Handler,   \* the requests and expiry sweeps that free slots
  Sweeper,   \* the WaitlistWorker
  Window,    \* waitlistConfirmWindow
  MaxFreed,  \* bound on the slots that open
  MaxFaults  \* bound on the cascades that fail

Cascade == Handler \cup {Sweeper}

ASSUME WaitlistParameters ==
  /\ Entry \subseteq Nat \ {0}
  /\ Sweeper \notin Handler
  /\ {Window, MaxFreed, MaxFaults} \subseteq Nat
  /\ Window > 0

VARIABLES
  entry,    \* the table
  cascade,  \* where each cascade is in NotifyNextWaitlistEntry
  freed,    \* how many slots have opened
  faults,   \* how many cascades have failed
  told      \* history: the entries a waitlist_slot_open message was queued for

vars == <<entry, cascade, freed, faults, told>>

-----------------------------------------------------------------------------

\* Nothing ever sets the fourth status, cancelled.
Row == [status : {"none", "waiting", "notified", "expired"}, left : 0..Window]

Nobody == 0
Steps == {"idle", "expire", "find", "mark", "enqueue"}
At(c, step) == cascade[c].step = step
Goes(c, step, who) == cascade' = [cascade EXCEPT ![c] = [step |-> step, who |-> who]]

Init ==
  /\ entry = [e \in Entry |-> [status |-> "none", left |-> 0]]
  /\ cascade = [c \in Cascade |-> [step |-> "idle", who |-> Nobody]]
  /\ freed = 0 /\ faults = 0 /\ told = {}

JoinWaitlist(e) ==
  /\ entry[e].status = "none"
  /\ \A f \in Entry : f < e => entry[f].status # "none"
  /\ entry' = [entry EXCEPT ![e].status = "waiting"]
  /\ UNCHANGED <<cascade, freed, faults, told>>

\* A booking is cancelled, expires, ends early or is a no-show.
SlotFreed(h) ==
  /\ At(h, "idle")
  /\ freed < MaxFreed
  /\ freed' = freed + 1
  /\ Goes(h, "expire", Nobody)
  /\ UNCHANGED <<entry, faults, told>>

\* Mutant: only the windows of those who have somebody behind them.
StaleAndQueued(e) ==
  /\ entry[e].status = "notified" /\ entry[e].left = 0
  /\ \E f \in Entry : f > e /\ entry[f].status = "waiting"

Stale(e) == entry[e].status = "notified" /\ entry[e].left = 0

\* FindStaleWaitlistGroups looks at the notified entries alone.
SweepFindsQueue ==
  /\ At(Sweeper, "idle")
  /\ \E e \in Entry : Stale(e)
  /\ Goes(Sweeper, "expire", Nobody)
  /\ UNCHANGED <<entry, freed, faults, told>>

-----------------------------------------------------------------------------
(* NotifyNextWaitlistEntry, statement by statement.                        *)

\* Mutant: expires the stale entry and leaves the queue there.
ExpireOnly(c) ==
  /\ At(c, "expire")
  /\ entry' = [e \in Entry |->
       IF Stale(e) THEN [entry[e] EXCEPT !.status = "expired"] ELSE entry[e]]
  /\ Goes(c, IF \E e \in Entry : Stale(e) THEN "idle" ELSE "find", Nobody)
  /\ UNCHANGED <<freed, faults, told>>

ExpireStale(c) ==
  /\ At(c, "expire")
  /\ entry' = [e \in Entry |->
       IF Stale(e) THEN [entry[e] EXCEPT !.status = "expired"] ELSE entry[e]]
  /\ Goes(c, "find", Nobody)
  /\ UNCHANGED <<freed, faults, told>>

InLine == {e \in Entry : entry[e].status = "waiting"}

\* Mutant: ORDER BY created_at DESC.
Newest(e) == e \in InLine /\ \A f \in InLine : f <= e

Oldest(e) == e \in InLine /\ \A f \in InLine : e <= f

FindNext(c) ==
  /\ At(c, "find")
  /\ IF InLine = {} THEN Goes(c, "idle", Nobody)
     ELSE \E e \in Entry : Oldest(e) /\ Goes(c, "mark", e)
  /\ UNCHANGED <<entry, freed, faults, told>>

\* Mutant: the window is rounded up by one unit.
MarkedLonger(c) ==
  /\ At(c, "mark")
  /\ entry' = [entry EXCEPT ![cascade[c].who] = [status |-> "notified", left |-> Window + 1]]
  /\ Goes(c, "enqueue", cascade[c].who)
  /\ UNCHANGED <<freed, faults, told>>

\* The UPDATE names the entry by its id and does not ask its status again.
MarkNotified(c) ==
  /\ At(c, "mark")
  /\ entry' = [entry EXCEPT ![cascade[c].who] = [status |-> "notified", left |-> Window]]
  /\ Goes(c, "enqueue", cascade[c].who)
  /\ UNCHANGED <<freed, faults, told>>

Enqueue(c) ==
  /\ At(c, "enqueue")
  /\ told' = told \cup {cascade[c].who}
  /\ Goes(c, "idle", Nobody)
  /\ UNCHANGED <<entry, freed, faults>>

\* A statement fails or the process dies: the error is logged and the cascade
\* given up where it is.
Fails(c) ==
  /\ ~At(c, "idle")
  /\ faults < MaxFaults
  /\ faults' = faults + 1
  /\ Goes(c, "idle", Nobody)
  /\ UNCHANGED <<entry, freed, told>>

Runs(c) == ExpireStale(c) \/ FindNext(c) \/ MarkNotified(c) \/ Enqueue(c)

Tick ==
  /\ \E e \in Entry : entry[e].left > 0
  /\ entry' = [e \in Entry |->
       [entry[e] EXCEPT !.left = IF @ > 0 THEN @ - 1 ELSE 0]]
  /\ UNCHANGED <<cascade, freed, faults, told>>

Next ==
  \/ \E e \in Entry : JoinWaitlist(e)
  \/ \E h \in Handler : SlotFreed(h)
  \/ SweepFindsQueue
  \/ \E c \in Cascade : Runs(c) \/ Fails(c)
  \/ Tick

Spec == Init /\ [][Next]_vars

\* The worker sweeps every five minutes and is restarted when it fails, and a
\* cascade that does not fail goes on to its next statement.
FairSpec ==
  /\ Spec
  /\ WF_vars(Tick) /\ WF_vars(SweepFindsQueue)
  /\ \A c \in Cascade : WF_vars(Runs(c))

-----------------------------------------------------------------------------

TypeOK ==
  /\ entry \in [Entry -> Row]
  /\ cascade \in [Cascade -> [step : Steps, who : Entry \cup {Nobody}]]
  /\ freed \in 0..MaxFreed /\ faults \in 0..MaxFaults
  /\ told \subseteq Entry

\* The queue is first come, first told: nobody has been offered a slot while
\* somebody who joined earlier still waits, though two cascades can pick the
\* same person and any of them can stop half way.
NobodyOvertaken ==
  \A e, f \in Entry :
    e < f /\ entry[f].status \in {"notified", "expired"} => entry[e].status # "waiting"

\* An offer runs out, even if no other slot ever opens for that queue.
OffersEnd ==
  \A e \in Entry : entry[e].status = "notified" ~> entry[e].status = "expired"

\* Nobody waits for ever behind an offer that was not taken up.  Does not hold:
\* after a cascade that failed no sweep finds the queue.
QueueMoves ==
  \A e, f \in Entry :
    entry[e].status = "waiting" /\ f < e /\ entry[f].status = "notified"
      ~> entry[e].status # "waiting"

\* Only a failed cascade can stop a queue that has an offer at its head.
QueueMovesUnlessFailed ==
  \A e, f \in Entry :
    entry[e].status = "waiting" /\ f < e /\ entry[f].status = "notified"
      ~> entry[e].status # "waiting" \/ faults > 0

=============================================================================
