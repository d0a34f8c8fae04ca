---------------------------- MODULE RateLimiter ----------------------------
(***************************************************************************)
(* ratelimit.py, and the 429 gate of main.py: one token bucket per         *)
(* (endpoint, client) key, in one process.                                 *)
(*                                                                         *)
(* The code counts tokens and seconds in floating point; here a token is   *)
(* Window units and a tick of the clock refills Capacity of them, which    *)
(* makes capacity / window_seconds exact.                                  *)
(***************************************************************************)
EXTENDS Integers, Sequences

CONSTANTS Keys,       \* "<endpoint>:<client ip>"
          Capacity,   \* rate_limit.requests
          Window,     \* rate_limit.window_seconds, in ticks of the clock
          Second,     \* ticks in a second: Retry-After is in whole seconds
          MaxTime     \* bound on the clock

ASSUME RateLimiterAssumption ==
  /\ Capacity \in Nat \ {0}
  /\ Window \in Nat \ {0}
  /\ Second \in Nat \ {0}
  /\ MaxTime \in Nat

VARIABLES now,      \* time.monotonic()
          known,    \* the keys of _buckets
          tokens,   \* _Bucket.tokens
          updated,  \* _Bucket.updated
          granted,  \* history: when each key's requests were let through
          promise   \* when Retry-After last told the key to come back, or
                    \* 0 when a request was let through since

vars == <<now, known, tokens, updated, granted, promise>>

Full == Capacity * Window

Init ==
  /\ now = 0
  /\ known = {}
  /\ tokens = [k \in Keys |-> 0]
  /\ updated = [k \in Keys |-> 0]
  /\ granted = [k \in Keys |-> <<>>]
  /\ promise = [k \in Keys |-> 0]

Larger(a, b) == IF a >= b THEN a ELSE b

Smaller(a, b) == IF a <= b THEN a ELSE b

(* Mutation: the refill is not cut off at the capacity.                    *)
Refilled_uncapped(k) == tokens[k] + Larger(0, now - updated[k]) * Capacity

(* bucket.tokens after the refill                                          *)
Refilled(k) == Smaller(Full, tokens[k] + Larger(0, now - updated[k]) * Capacity)

(* Mutation: rounded down instead of up.                                   *)
RetryAfter_floor(k) == Second * Larger(1, (Window - Refilled(k)) \div (Capacity * Second))

(* max(1, math.ceil(deficit / refill_rate)) seconds, in ticks              *)
RetryAfter(k) ==
  Second * Larger(1, (Window - Refilled(k) + Capacity * Second - 1) \div (Capacity * Second))

LetThrough(k) ==
  /\ granted' = [granted EXCEPT ![k] = Append(@, now)]
  /\ promise' = [promise EXCEPT ![k] = 0]

(* The first request of a key finds a full bucket.                         *)
CheckFirst(k) ==
  /\ k \notin known
  /\ known' = known \cup {k}
  /\ tokens' = [tokens EXCEPT ![k] = Full - Window]
  /\ updated' = [updated EXCEPT ![k] = now]
  /\ LetThrough(k)
  /\ UNCHANGED now

(* Mutation: the time of the refill is not recorded when one is granted.   *)
CheckAllows_unstamped(k) ==
  /\ k \in known
  /\ Refilled(k) >= Window
  /\ tokens' = [tokens EXCEPT ![k] = Refilled(k) - Window]
  /\ LetThrough(k)
  /\ UNCHANGED <<now, known, updated>>

(* Mutation: a fraction of a token is enough.                              *)
CheckAllows_fraction(k) ==
  /\ k \in known
  /\ Refilled(k) > 0
  /\ tokens' = [tokens EXCEPT ![k] = Larger(0, Refilled(k) - Window)]
  /\ updated' = [updated EXCEPT ![k] = now]
  /\ LetThrough(k)
  /\ UNCHANGED <<now, known>>

CheckAllows(k) ==
  /\ k \in known
  /\ Refilled(k) >= Window
  /\ tokens' = [tokens EXCEPT ![k] = Refilled(k) - Window]
  /\ updated' = [updated EXCEPT ![k] = now]
  /\ LetThrough(k)
  /\ UNCHANGED <<now, known>>

CheckDenies(k) ==
  /\ k \in known
  /\ Refilled(k) < Window
  /\ tokens' = [tokens EXCEPT ![k] = Refilled(k)]
  /\ updated' = [updated EXCEPT ![k] = now]
  /\ promise' = [promise EXCEPT ![k] = now + RetryAfter(k)]
  /\ UNCHANGED <<now, known, granted>>

Tick ==
  /\ now < MaxTime
  /\ now' = now + 1
  /\ UNCHANGED <<known, tokens, updated, granted, promise>>

Next ==
  \/ \E k \in Keys : CheckFirst(k) \/ CheckAllows(k) \/ CheckDenies(k)
  \/ Tick

Spec == Init /\ [][Next]_vars

-----------------------------------------------------------------------------
(* Types; a bucket never holds more than its capacity, nor a time to come. *)
TypeOK ==
  /\ now \in 0..MaxTime
  /\ known \subseteq Keys
  /\ tokens \in [Keys -> 0..Full]
  /\ updated \in [Keys -> 0..now]
  /\ granted \in [Keys -> Seq(0..now)]
  /\ promise \in [Keys -> Nat]

(* Over every stretch of time, a key gets through at most its capacity     *)
(* plus what the stretch refills: the sustained rate and the burst that    *)
(* config.py promises, however requests, denials and pauses alternate.     *)
RateBound ==
  \A k \in Keys : \A i, j \in DOMAIN granted[k] : i <= j =>
    (j - i + 1) * Window <= Full + (granted[k][j] - granted[k][i]) * Capacity

(* Retry-After is honest: who was told to come back at some time, and      *)
(* comes then or later, is not sent away again, unless another request of  *)
(* the same key got through first.                                         *)
HonestRetry ==
  [][\A k \in Keys :
       promise'[k] # promise[k] /\ promise'[k] # 0 =>
         promise[k] = 0 \/ now < promise[k]]_vars

(* Seen from the handler the limiter is a Bucket of whole tokens, although *)
(* it keeps fractions and refills nothing before the next request: the     *)
(* mapping asks what a request would find now.                             *)
Whole ==
  INSTANCE Bucket
    WITH capacity <- Capacity,
         whole    <- [k \in Keys |-> IF k \in known THEN Refilled(k) \div Window ELSE Capacity]

(* Every request let through takes one whole token, nothing else does, and *)
(* a refused one, which is told to come back, has found none.              *)
ImplementsBucket ==
  /\ Whole!Spec
  /\ [][\A k \in Keys :
          /\ granted'[k] # granted[k] => Whole!Take(k)
          /\ promise'[k] \notin {0, promise[k]} => Whole!Empty(k)]_vars
=============================================================================
