------------------------------- MODULE Bucket -------------------------------
(***************************************************************************)
(* What RateLimiter.check promises the handler, without a clock: a bucket  *)
(* of whole tokens per key, one for each request let through.  RateLimiter *)
(* implements it, Service uses it.                                         *)
(***************************************************************************)
EXTENDS Naturals

CONSTANT Keys

VARIABLES capacity,  \* rate_limit.requests
          whole      \* the tokens a key has now

Init ==
  /\ capacity \in Nat
  /\ whole = [k \in Keys |-> capacity]

(* The request is let through.                                             *)
Take(k) ==
  /\ whole[k] > 0
  /\ whole' = [whole EXCEPT ![k] = @ - 1]

(* The request is refused only then.                                       *)
Empty(k) == whole[k] = 0

(* Time passes: nobody loses a token, and nobody gets more than fit.       *)
Refill ==
  /\ whole' \in [Keys -> 0..capacity]
  /\ \A k \in Keys : whole'[k] >= whole[k]

Next ==
  /\ Refill \/ \E k \in Keys : Take(k)
  /\ UNCHANGED capacity

Spec == Init /\ [][Next]_<<capacity, whole>>
=============================================================================
