----------------------------- MODULE LoadBalance -----------------------------
(***************************************************************************)
(* The smooth weighted round robin of common/load_balance.c, as operators: *)
(* a list of servers is a sequence of records, and one call of             *)
(* getNextServerIndex is an index and the list it leaves behind.           *)
(***************************************************************************)
EXTENDS Integers, Sequences

DEFAULT_WEIGHT == 50

initServers(weights) ==
  [i \in DOMAIN weights |-> [weight |-> weights[i], cur_weight |-> 0]]

initDefaultServers(names) ==
  initServers([i \in DOMAIN names |-> DEFAULT_WEIGHT])

Weights(ss) == [i \in DOMAIN ss |-> ss[i].weight]
CurWeights(ss) == [i \in DOMAIN ss |-> ss[i].cur_weight]

(* What the loop has added up when it has seen 0, 1, 2... of the numbers. *)
Sums(numbers) ==
  LET sum[n \in 0 .. Len(numbers)] ==
        IF n = 0 THEN 0 ELSE sum[n - 1] + numbers[n]
  IN  sum

AddedUp(numbers) == Sums(numbers)[Len(numbers)]
Total(ss) == AddedUp(Weights(ss))

(* The loop raises every server by its weight... *)
Raised(ss) ==
  [i \in DOMAIN ss |-> [ss[i] EXCEPT !.cur_weight = @ + ss[i].weight]]

(* ... and remembers the first of the highest: a later one replaces it only *)
(* when it is strictly higher.                                              *)
getNextServerIndex(ss) ==
  CHOOSE i \in DOMAIN ss :
    \A j \in DOMAIN ss : LET r == Raised(ss) IN
      /\ r[j].cur_weight <= r[i].cur_weight
      /\ j < i => r[j].cur_weight < r[i].cur_weight

(* What is left in the array after the call. *)
AfterNextKept(ss) == Raised(ss)

AfterNext(ss) ==
  [Raised(ss) EXCEPT ![getNextServerIndex(ss)].cur_weight = @ - Total(ss)]
-----------------------------------------------------------------------------
(* The lists after 0, 1, 2... calls on fresh servers of these weights. *)
Calls(weights, n) ==
  LET after[k \in 0 .. n] ==
        IF k = 0 THEN initServers(weights) ELSE AfterNext(after[k - 1])
  IN  after
=============================================================================
