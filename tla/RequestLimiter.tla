--------------------------- MODULE RequestLimiter ---------------------------
(***************************************************************************)
(* What sampling by request promises: of the requests decided in a minute, *)
(* the first Limit are sampled and the rest are not; decisions never fall  *)
(* back into an earlier minute.  The minute the process started in has one *)
(* grant less, because mo_ctrl_ctor opens it with request_num = 0 and      *)
(* only the requests that follow a reset see that number.                  *)
(***************************************************************************)
EXTENDS Integers

CONSTANTS Limit, StartMinute, MaxMinute

VARIABLES seen, granted

Minutes == StartMinute .. MaxMinute

Quota(m) == IF m = StartMinute THEN Limit - 1 ELSE Limit

Init ==
  /\ seen = [m \in Minutes |-> 0]
  /\ granted = [m \in Minutes |-> 0]

Decide(m) ==
  /\ \A k \in Minutes : k > m => seen[k] = 0
  /\ seen' = [seen EXCEPT ![m] = @ + 1]
  /\ granted' = [granted EXCEPT ![m] = IF seen[m] < Quota(m) THEN @ + 1
                                                             ELSE @]

Next == \E m \in Minutes : Decide(m)

Spec == Init /\ [][Next]_<<seen, granted>>
=============================================================================
