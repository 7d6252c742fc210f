------------------------------- MODULE FanOut -------------------------------
(***************************************************************************)
(* What a DispatchGroup promises when an operation starts a task for each  *)
(* of some items: a task ends or is lost (its callback never leaves the    *)
(* group), and the group notifies once, when every task has ended.         *)
(***************************************************************************)
CONSTANT Items

VARIABLES
  started,   \* the tasks have entered the group
  open,      \* tasks that have entered the group and not left it
  lost,      \* open tasks that will never leave
  notified   \* the group's notification has run

vars == <<started, open, lost, notified>>

\* Seen before its tasks start, or from then on.
Init ==
  /\ started \in BOOLEAN
  /\ open = IF started THEN Items ELSE {}
  /\ lost = {} /\ notified = FALSE

Start ==
  /\ ~started /\ started' = TRUE
  /\ open' \in SUBSET Items
  /\ UNCHANGED <<lost, notified>>

End(i) ==
  /\ i \in open \ lost
  /\ open' = open \ {i}
  /\ UNCHANGED <<started, lost, notified>>

Lose(i) ==
  /\ i \in open \ lost
  /\ lost' = lost \cup {i}
  /\ UNCHANGED <<started, open, notified>>

Notify ==
  /\ started /\ open = {} /\ ~notified
  /\ notified' = TRUE
  /\ UNCHANGED <<started, open, lost>>

Next == Start \/ Notify \/ \E i \in Items : End(i) \/ Lose(i)

Spec == Init /\ [][Next]_vars
=============================================================================
