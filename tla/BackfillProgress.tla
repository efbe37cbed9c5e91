------------------------- MODULE BackfillProgress -------------------------
(***************************************************************************)
(* What the backfill promises, whatever threads and queues carry it out:   *)
(* each date range is settled once, for good, and the service goes on to   *)
(* its real-time updates only when all of them are completed.              *)
(***************************************************************************)
CONSTANT Ranges

VARIABLES
  status,     \* what has become of each range
  announced   \* "Backfill complete!": the real-time updates have started

Init ==
  /\ status = [r \in Ranges |-> "pending"]
  /\ announced = FALSE

Settle(r) ==
  /\ status[r] = "pending"
  /\ \E s \in {"completed", "deadLettered"} : status' = [status EXCEPT ![r] = s]
  /\ UNCHANGED announced

Announce ==
  /\ \A r \in Ranges : status[r] = "completed"
  /\ announced' = TRUE
  /\ UNCHANGED status

Next == (\E r \in Ranges : Settle(r)) \/ Announce

Spec == Init /\ [][Next]_<<status, announced>>
============================================================================
