----------------------------- MODULE DurableMap -----------------------------
(***************************************************************************)
(* What a HuskStore promises its caller: a map with one value per key, of  *)
(* which a restart may forget the latest updates, but always back to one   *)
(* point of its past as a whole, and never behind what was saved there.    *)
(***************************************************************************)
CONSTANTS
  Keys,
  Values,
  NoValue  \* the value of a key that was never put, or was deleted

VARIABLES
  live,    \* what get answers
  saved    \* what it would answer after a restart

vars == <<live, saved>>

Init ==
  /\ live = [k \in Keys |-> NoValue]
  /\ saved = live

\* put and delete; the update may fill the memtable and save everything.
Update(k, v) ==
  /\ live' = [live EXCEPT ![k] = v]
  /\ saved' \in {saved, live'}

Save ==
  /\ saved' = live
  /\ UNCHANGED live

Restart ==
  /\ live' = saved
  /\ UNCHANGED saved

Next ==
  \/ \E k \in Keys, v \in Values \cup {NoValue} : Update(k, v)
  \/ Save
  \/ Restart

Spec == Init /\ [][Next]_vars

=============================================================================
