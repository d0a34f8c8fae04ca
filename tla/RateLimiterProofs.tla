------------------------- MODULE RateLimiterProofs -------------------------
(***************************************************************************)
(* The rate bound and the honesty of Retry-After for every capacity,       *)
(* window, clock resolution and set of keys.                               *)
(***************************************************************************)
EXTENDS RateLimiter, SequenceTheorems, TLAPS

-----------------------------------------------------------------------------
(* Arithmetic.                                                             *)

LEMMA Products == \A x, y \in Int : x * y \in Int
  OBVIOUS

LEMMA Distributes ==
  ASSUME NEW a \in Int, NEW b \in Int, NEW c \in Int
  PROVE  (a + b) * c = a * c + b * c
  OBVIOUS

LEMMA TimesMonotone ==
  ASSUME NEW a \in Int, NEW b \in Int, NEW c \in Nat, a <= b
  PROVE  a * c <= b * c
  OBVIOUS

LEMMA ProductPositive ==
  ASSUME NEW a \in Nat \ {0}, NEW b \in Nat \ {0}
  PROVE  a * b \in Nat \ {0} /\ b <= a * b
  OBVIOUS

LEMMA RoundedUp ==
  ASSUME NEW x \in Int, NEW m \in Nat \ {0}
  PROVE  /\ (x + m - 1) \div m \in Int
         /\ x <= ((x + m - 1) \div m) * m
  OBVIOUS

LEMMA Associates ==
  ASSUME NEW a \in Int, NEW b \in Int, NEW c \in Int
  PROVE  (a * b) * c = b * (c * a)
  OBVIOUS
-----------------------------------------------------------------------------
LEMMA Constants ==
  /\ Full \in Nat \ {0}
  /\ Window <= Full
  /\ Capacity * Second \in Nat \ {0}
  BY RateLimiterAssumption, ProductPositive DEF Full

(* What a refill makes of a bucket.                                        *)
LEMMA RefillFacts ==
  ASSUME TypeOK, NEW k \in Keys
  PROVE  /\ Refilled(k) \in 0..Full
         /\ Refilled(k) <= tokens[k] + (now - updated[k]) * Capacity
         /\ \/ Refilled(k) = Full
            \/ Refilled(k) = tokens[k] + (now - updated[k]) * Capacity
<1>1. /\ tokens[k] \in 0..Full
      /\ updated[k] \in 0..now
      /\ now \in Nat
      /\ Full \in Nat
  BY RateLimiterAssumption, Constants DEF TypeOK
<1>2. now - updated[k] \in Nat /\ Larger(0, now - updated[k]) = now - updated[k]
  BY <1>1 DEF Larger
<1>3. (now - updated[k]) * Capacity \in Nat
  BY <1>2, RateLimiterAssumption
<1>4. QED
  BY <1>1, <1>2, <1>3 DEF Refilled, Smaller

(* The wait announced to a denied client covers what its bucket lacks.     *)
LEMMA RetryAfterCovers ==
  ASSUME TypeOK, NEW k \in Keys
  PROVE  /\ RetryAfter(k) \in Nat \ {0}
         /\ Window <= Refilled(k) + RetryAfter(k) * Capacity
<1> DEFINE m    == Capacity * Second
           lack == Window - Refilled(k)
           up   == (lack + m - 1) \div m
           secs == Larger(1, up)
<1>1. lack \in Int /\ m \in Nat \ {0}
  BY Constants, RefillFacts, RateLimiterAssumption
<1>2. up \in Int /\ lack <= up * m
  BY <1>1, RoundedUp
<1>3. secs \in Nat \ {0} /\ up <= secs
  BY <1>2 DEF Larger
<1> HIDE DEF secs, up, lack, m
<1>4. up * m <= secs * m
  BY <1>1, <1>2, <1>3, TimesMonotone
<1>5. RetryAfter(k) = Second * secs
  BY DEF RetryAfter, secs, up, lack, m
<1>6. RetryAfter(k) \in Nat \ {0}
  BY <1>3, <1>5, ProductPositive, RateLimiterAssumption
<1>7. RetryAfter(k) * Capacity = secs * m
  BY <1>3, <1>5, Associates, RateLimiterAssumption DEF m
<1>8. secs * m \in Int /\ up * m \in Int
  BY <1>1, <1>2, <1>3
<1>9. lack <= RetryAfter(k) * Capacity
  BY <1>1, <1>2, <1>4, <1>7, <1>8
<1>10. QED
  BY <1>1, <1>6, <1>7, <1>8, <1>9, RefillFacts, RateLimiterAssumption DEF lack

(* Every variable keeps its type.                                          *)
THEOREM TypeCorrect == Spec => []TypeOK
<1>1. Init => TypeOK
  BY Constants, RateLimiterAssumption DEF Init, TypeOK
<1>2. TypeOK /\ [Next]_vars => TypeOK'
  <2> SUFFICES ASSUME TypeOK, [Next]_vars PROVE TypeOK'
    OBVIOUS
  <2> USE RateLimiterAssumption, Constants
  <2>1. ASSUME NEW k \in Keys, CheckFirst(k) PROVE TypeOK'
    <3>1. now \in 0..now /\ Full - Window \in 0..Full
      BY DEF TypeOK
    <3>2. Append(granted[k], now) \in Seq(0..now)
      BY <3>1 DEF TypeOK
    <3>3. QED
      BY <2>1, <3>1, <3>2 DEF CheckFirst, LetThrough, TypeOK
  <2>2. ASSUME NEW k \in Keys, CheckAllows(k) PROVE TypeOK'
    <3>1. now \in 0..now /\ Refilled(k) - Window \in 0..Full
      BY <2>2, RefillFacts DEF TypeOK, CheckAllows
    <3>2. Append(granted[k], now) \in Seq(0..now)
      BY <3>1 DEF TypeOK
    <3>3. QED
      BY <2>2, <3>1, <3>2 DEF CheckAllows, LetThrough, TypeOK
  <2>3. ASSUME NEW k \in Keys, CheckDenies(k) PROVE TypeOK'
    <3>1. now \in Nat /\ now \in 0..now
      BY DEF TypeOK
    <3>2. Refilled(k) \in 0..Full
      BY RefillFacts
    <3>3. RetryAfter(k) \in Nat
      BY RetryAfterCovers
    <3>4. now + RetryAfter(k) \in Nat
      BY <3>1, <3>3
    <3>5. QED
      BY <2>3, <3>1, <3>2, <3>4 DEF CheckDenies, TypeOK
  <2>4. CASE \E k \in Keys : CheckFirst(k) \/ CheckAllows(k) \/ CheckDenies(k)
    BY <2>1, <2>2, <2>3, <2>4
  <2>5. CASE Tick
    <3>1. now' \in 0..MaxTime /\ 0..now \subseteq 0..now'
      BY <2>5 DEF Tick, TypeOK
    <3>2. \A k \in Keys : granted[k] \in Seq(0..now')
      BY <3>1, SeqMonotonic DEF TypeOK
    <3>3. QED
      BY <2>5, <3>1, <3>2 DEF Tick, TypeOK
  <2>6. CASE UNCHANGED vars
    BY <2>6 DEF vars, TypeOK
  <2>7. QED
    BY <2>4, <2>5, <2>6 DEF Next
<1>3. QED
  BY <1>1, <1>2, PTL DEF Spec
-----------------------------------------------------------------------------
(* The bound on what a key gets through.                                   *)

(* Counted from any grant of the past, the requests let through since and  *)
(* what the bucket holds never exceed a full bucket and its refills.       *)
Budget ==
  \A k \in Keys : \A i \in DOMAIN granted[k] :
    (Len(granted[k]) - i + 1) * Window + tokens[k]
      <= Full + (updated[k] - granted[k][i]) * Capacity

(* Nothing has been let through for a key without a bucket, and nothing    *)
(* after its bucket's last refill.                                         *)
InThePast ==
  \A k \in Keys :
    /\ k \notin known => granted[k] = <<>>
    /\ \A i \in DOMAIN granted[k] : granted[k][i] <= updated[k]

BoundInv == Budget /\ InThePast /\ RateBound

(* The refill itself keeps the budget.                                     *)
LEMMA RefillKeepsBudget ==
  ASSUME TypeOK, Budget, NEW k \in Keys, NEW i \in DOMAIN granted[k]
  PROVE  /\ granted[k][i] \in Int
         /\ (Len(granted[k]) - i + 1) * Window \in Int
         /\ (now - granted[k][i]) * Capacity \in Int
         /\ (Len(granted[k]) - i + 1) * Window + Refilled(k)
              <= Full + (now - granted[k][i]) * Capacity
<1> DEFINE t == granted[k][i]
           n == (Len(granted[k]) - i + 1) * Window
           a == updated[k] - t
           e == now - updated[k]
<1>1. /\ t \in Int /\ i \in 1..Len(granted[k]) /\ Len(granted[k]) \in Nat
      /\ tokens[k] \in Nat /\ updated[k] \in Nat /\ now \in Nat
      /\ Capacity \in Nat /\ Window \in Nat
  <2>1. granted[k] \in Seq(0..now) /\ now \in Nat
    BY RateLimiterAssumption DEF TypeOK
  <2>2. i \in 1..Len(granted[k]) /\ t \in 0..now
    BY <2>1
  <2>3. QED
    BY <2>1, <2>2, RateLimiterAssumption, Constants DEF TypeOK
<1>2. n \in Int /\ a \in Int /\ e \in Int
  BY <1>1
<1>3. now - t = a + e
  BY <1>1
<1>4. n + tokens[k] <= Full + a * Capacity
  BY DEF Budget
<1>5. Refilled(k) <= tokens[k] + e * Capacity /\ Refilled(k) \in Int
  BY RefillFacts, Constants
<1>6. (now - t) * Capacity = a * Capacity + e * Capacity
  BY <1>1, <1>2, <1>3, Distributes
<1>7. a * Capacity \in Int /\ e * Capacity \in Int /\ Full \in Int
  <2> HIDE DEF n, a, e, t
  <2>1. QED
    BY <1>1, <1>2, Constants, Products
<1> HIDE DEF n, a, e, t
<1>8. n + Refilled(k) <= Full + (now - t) * Capacity
  <2> DEFINE x == a * Capacity
             y == e * Capacity
             m == tokens[k]
             p == Refilled(k)
  <2>1. /\ n \in Int /\ m \in Int /\ p \in Int /\ x \in Int /\ y \in Int
        /\ Full \in Int /\ n + m <= Full + x /\ p <= m + y
    BY <1>1, <1>2, <1>4, <1>5, <1>7 DEF x, y, m, p
  <2> HIDE DEF x, y, m, p
  <2>2. n + p <= Full + (x + y)
    BY <2>1
  <2>3. QED
    BY <2>2, <1>6 DEF x, y, p
<1>9. QED
  BY <1>1, <1>2, <1>6, <1>7, <1>8 DEF n, t

(* The three parts, for one key.                                           *)
BoundInvOf(k) ==
  /\ \A i \in DOMAIN granted[k] :
       (Len(granted[k]) - i + 1) * Window + tokens[k]
         <= Full + (updated[k] - granted[k][i]) * Capacity
  /\ k \notin known => granted[k] = <<>>
  /\ \A i \in DOMAIN granted[k] : granted[k][i] <= updated[k]
  /\ \A i, j \in DOMAIN granted[k] : i <= j =>
       (j - i + 1) * Window <= Full + (granted[k][j] - granted[k][i]) * Capacity

LEMMA BoundInvByKey == BoundInv <=> \A k \in Keys : BoundInvOf(k)
  BY DEF BoundInv, BoundInvOf, Budget, InThePast, RateBound

LEMMA OneMoreWindow ==
  ASSUME NEW n \in Int PROVE (n + 1) * Window = n * Window + Window
  BY Distributes, RateLimiterAssumption

LEMMA AllowsKeepsBound ==
  ASSUME TypeOK, BoundInv, NEW k \in Keys, CheckAllows(k)
  PROVE  BoundInvOf(k)'
<1> DEFINE g == granted[k]
           h == Append(g, now)
           R == Refilled(k)
<1>1. /\ g \in Seq(0..now) /\ now \in Nat /\ Window \in Nat /\ Capacity \in Nat
      /\ Full \in Nat /\ Window <= Full
  BY Constants, RateLimiterAssumption DEF TypeOK
<1>2. /\ granted'[k] = h /\ tokens'[k] = R - Window /\ updated'[k] = now /\ k \in known'
      /\ R \in 0..Full /\ R >= Window
  BY RefillFacts DEF CheckAllows, LetThrough, TypeOK
<1>3. /\ Len(h) = Len(g) + 1 /\ Len(g) \in Nat
      /\ DOMAIN g = 1..Len(g) /\ DOMAIN h = 1..(Len(g) + 1)
      /\ h[Len(g) + 1] = now
      /\ \A i \in DOMAIN g : h[i] = g[i]
  BY <1>1
<1>4. \A i \in DOMAIN g :
        /\ g[i] \in Int /\ (Len(g) - i + 1) * Window \in Int
        /\ (now - g[i]) * Capacity \in Int
        /\ (Len(g) - i + 1) * Window + R <= Full + (now - g[i]) * Capacity
  BY RefillKeepsBudget DEF BoundInv
<1>5. \A i \in DOMAIN g : (Len(h) - i + 1) * Window = (Len(g) - i + 1) * Window + Window
  <2> SUFFICES ASSUME NEW i \in DOMAIN g
               PROVE  (Len(h) - i + 1) * Window = (Len(g) - i + 1) * Window + Window
    OBVIOUS
  <2>1. Len(g) - i + 1 \in Int /\ Len(h) - i + 1 = (Len(g) - i + 1) + 1
    BY <1>3
  <2>2. QED
    BY <2>1, OneMoreWindow
<1>6. /\ (now - now) * Capacity = 0
      /\ (Len(h) - (Len(g) + 1) + 1) * Window = Window
  <2>1. now - now = 0 /\ Len(h) - (Len(g) + 1) + 1 = 1
    BY <1>1, <1>3
  <2>2. 0 * Capacity = 0 /\ 1 * Window = Window
    BY <1>1
  <2>3. QED
    BY <2>1, <2>2
<1> HIDE DEF g, h, R
<1>7. \A i \in DOMAIN h :
        (Len(h) - i + 1) * Window + (R - Window) <= Full + (now - h[i]) * Capacity
  <2> SUFFICES ASSUME NEW i \in DOMAIN h
               PROVE  (Len(h) - i + 1) * Window + (R - Window)
                        <= Full + (now - h[i]) * Capacity
    OBVIOUS
  <2>1. CASE i \in DOMAIN g
    BY <1>1, <1>2, <1>3, <1>4, <1>5, <2>1
  <2>2. CASE i = Len(g) + 1
    BY <1>1, <1>2, <1>3, <1>6, <2>2
  <2>3. QED
    BY <1>3, <2>1, <2>2
<1>8. \A i \in DOMAIN h : h[i] <= now
  BY <1>1, <1>3
<1>9. \A i, j \in DOMAIN h : i <= j =>
        (j - i + 1) * Window <= Full + (h[j] - h[i]) * Capacity
  <2> SUFFICES ASSUME NEW i \in DOMAIN h, NEW j \in DOMAIN h, i <= j
               PROVE  (j - i + 1) * Window <= Full + (h[j] - h[i]) * Capacity
    OBVIOUS
  <2>1. CASE j \in DOMAIN g
    <3>1. i \in DOMAIN g
      BY <1>3, <2>1
    <3>2. (j - i + 1) * Window <= Full + (g[j] - g[i]) * Capacity
      BY <2>1, <3>1 DEF BoundInv, RateBound, g
    <3>3. QED
      BY <1>3, <2>1, <3>1, <3>2
  <2>2. CASE j = Len(g) + 1 /\ i \in DOMAIN g
    <3>1. j = Len(h) /\ h[j] = now /\ h[i] = g[i]
      BY <1>3, <2>2
    <3>2. (Len(h) - i + 1) * Window <= Full + (now - g[i]) * Capacity
      BY <1>1, <1>2, <1>4, <1>5, <2>2, SMTT(30)
    <3>3. QED
      BY <3>1, <3>2
  <2>3. CASE j = Len(g) + 1 /\ i = Len(g) + 1
    BY <1>1, <1>3, <1>6, <2>3
  <2>4. QED
    BY <1>3, <2>1, <2>2, <2>3
<1>10. QED
  BY <1>2, <1>7, <1>8, <1>9 DEF BoundInvOf

LEMMA FirstKeepsBound ==
  ASSUME TypeOK, BoundInv, NEW k \in Keys, CheckFirst(k)
  PROVE  BoundInvOf(k)'
<1>1. /\ granted[k] = <<>> /\ now \in Nat /\ Window \in Nat /\ Capacity \in Nat
      /\ Full \in Nat /\ Window <= Full
  BY Constants, RateLimiterAssumption DEF TypeOK, BoundInv, InThePast, CheckFirst
<1>2. /\ granted'[k] = Append(<<>>, now) /\ tokens'[k] = Full - Window
      /\ updated'[k] = now /\ k \in known'
  BY <1>1 DEF CheckFirst, LetThrough, TypeOK
<1>3. /\ Len(granted'[k]) = 1 /\ DOMAIN granted'[k] = {1} /\ granted'[k][1] = now
  BY <1>1, <1>2
<1>4. (1 - 1 + 1) * Window = Window /\ (now - now) * Capacity = 0
  <2>1. 1 - 1 + 1 = 1 /\ now - now = 0
    BY <1>1
  <2>2. 1 * Window = Window /\ 0 * Capacity = 0
    BY <1>1
  <2>3. QED
    BY <2>1, <2>2
<1>5. (1 - 1 + 1) * Window + (Full - Window) <= Full + (now - now) * Capacity
  BY <1>1, <1>4
<1>6. (1 - 1 + 1) * Window <= Full + (now - now) * Capacity
  BY <1>1, <1>4
<1>7. now <= now
  BY <1>1
<1>8. QED
  BY <1>2, <1>3, <1>5, <1>6, <1>7 DEF BoundInvOf

LEMMA DeniesKeepsBound ==
  ASSUME TypeOK, BoundInv, NEW k \in Keys, CheckDenies(k)
  PROVE  BoundInvOf(k)'
<1>1. /\ UNCHANGED <<granted, known>>
      /\ tokens'[k] = Refilled(k) /\ updated'[k] = now
  BY DEF CheckDenies, TypeOK
<1>2. \A i \in DOMAIN granted[k] : granted[k][i] <= now
  <2> SUFFICES ASSUME NEW i \in DOMAIN granted[k] PROVE granted[k][i] <= now
    OBVIOUS
  <2>1. granted[k] \in Seq(0..now) /\ now \in Nat
    BY RateLimiterAssumption DEF TypeOK
  <2>2. QED
    BY <2>1
<1>3. \A i \in DOMAIN granted[k] :
        (Len(granted[k]) - i + 1) * Window + Refilled(k)
          <= Full + (now - granted[k][i]) * Capacity
  BY RefillKeepsBudget DEF BoundInv
<1>4. QED
  BY <1>1, <1>2, <1>3 DEF BoundInv, BoundInvOf, InThePast, RateBound

(* The invariant behind the bound.                                         *)
THEOREM BoundInvHolds == Spec => []BoundInv
<1>1. Init => BoundInv
  BY DEF Init, BoundInv, Budget, InThePast, RateBound
<1>2. TypeOK /\ BoundInv /\ [Next]_vars => BoundInv'
  <2> SUFFICES ASSUME TypeOK, BoundInv, [Next]_vars, NEW s \in Keys
               PROVE  BoundInvOf(s)'
    BY BoundInvByKey DEF BoundInv, BoundInvOf, Budget, InThePast, RateBound
  <2>1. BoundInvOf(s)
    BY BoundInvByKey
  <2>2. ASSUME NEW k \in Keys, CheckFirst(k) \/ CheckAllows(k) \/ CheckDenies(k), k # s
        PROVE  BoundInvOf(s)'
    <3>1. /\ granted'[s] = granted[s] /\ tokens'[s] = tokens[s] /\ updated'[s] = updated[s]
          /\ s \in known' <=> s \in known
      BY <2>2 DEF CheckFirst, CheckAllows, CheckDenies, LetThrough, TypeOK
    <3>2. QED
      BY <2>1, <3>1 DEF BoundInvOf
  <2>3. CASE CheckFirst(s) \/ CheckAllows(s) \/ CheckDenies(s)
    BY <2>3, FirstKeepsBound, AllowsKeepsBound, DeniesKeepsBound
  <2>4. CASE Tick \/ UNCHANGED vars
    BY <2>1, <2>4 DEF Tick, vars, BoundInvOf
  <2>5. QED
    BY <2>2, <2>3, <2>4 DEF Next
<1>3. QED
  BY <1>1, <1>2, TypeCorrect, PTL DEF Spec

(* Over every stretch of time a key gets through at most a full bucket and *)
(* what the stretch refills.                                               *)
THEOREM RateBounded == Spec => []RateBound
<1>1. BoundInv => RateBound
  BY DEF BoundInv
<1>2. QED
  BY <1>1, BoundInvHolds, PTL

-----------------------------------------------------------------------------
(* Retry-After.                                                            *)

(* At the promised time the bucket holds a token.                          *)
PromiseKept ==
  \A k \in Keys : promise[k] # 0 =>
    /\ k \in known
    /\ updated[k] <= promise[k]
    /\ Window <= tokens[k] + (promise[k] - updated[k]) * Capacity

(* A request that comes at or after the promised time finds its token.     *)
LEMMA PromisedToken ==
  ASSUME TypeOK, PromiseKept, NEW k \in Keys, promise[k] # 0, promise[k] <= now
  PROVE  Window <= Refilled(k)
<1>1. /\ promise[k] \in Int /\ updated[k] \in Int /\ now \in Int
      /\ tokens[k] \in Int /\ Window \in Int /\ Capacity \in Nat /\ Window <= Full
  BY Constants, RateLimiterAssumption DEF TypeOK
<1> DEFINE p == promise[k] - updated[k]
           e == now - updated[k]
<1>2. p \in Int /\ e \in Int /\ p <= e
  BY <1>1
<1>3. Window <= tokens[k] + p * Capacity
  BY DEF PromiseKept
<1> HIDE DEF p
<1>4. p * Capacity <= e * Capacity /\ p * Capacity \in Int /\ e * Capacity \in Int
  BY <1>1, <1>2, TimesMonotone
<1>5. Window <= tokens[k] + e * Capacity
  BY <1>1, <1>3, <1>4
<1>6. QED
  BY <1>1, <1>5, RefillFacts

(* The invariant behind Retry-After.                                       *)
THEOREM PromisesKept == Spec => []PromiseKept
<1>1. Init => PromiseKept
  BY DEF Init, PromiseKept
<1>2. TypeOK /\ PromiseKept /\ [Next]_vars => PromiseKept'
  <2> SUFFICES ASSUME TypeOK, PromiseKept, [Next]_vars PROVE PromiseKept'
    OBVIOUS
  <2>1. ASSUME NEW k \in Keys, CheckFirst(k) PROVE PromiseKept'
    BY <2>1 DEF CheckFirst, LetThrough, PromiseKept, TypeOK
  <2>2. ASSUME NEW k \in Keys, CheckAllows(k) PROVE PromiseKept'
    BY <2>2 DEF CheckAllows, LetThrough, PromiseKept, TypeOK
  <2>3. ASSUME NEW k \in Keys, CheckDenies(k) PROVE PromiseKept'
    <3>1. now \in Nat /\ (now + RetryAfter(k)) - now = RetryAfter(k)
      BY RetryAfterCovers, RateLimiterAssumption DEF TypeOK
    <3>2. Window <= Refilled(k) + ((now + RetryAfter(k)) - now) * Capacity
      BY <3>1, RetryAfterCovers
    <3>3. now <= now + RetryAfter(k)
      BY <3>1, RetryAfterCovers
    <3> HIDE DEF RetryAfter, Refilled
    <3>4. QED
      BY <2>3, <3>2, <3>3 DEF CheckDenies, PromiseKept, TypeOK
  <2>4. CASE Tick \/ UNCHANGED vars
    BY <2>4 DEF Tick, vars, PromiseKept
  <2>5. QED
    BY <2>1, <2>2, <2>3, <2>4 DEF Next
<1>3. QED
  BY <1>1, <1>2, TypeCorrect, PTL DEF Spec

(* Who comes back when Retry-After said is not sent away again.            *)
THEOREM RetryIsHonest == Spec => HonestRetry
<1> DEFINE Honest == \A k \in Keys :
             promise'[k] # promise[k] /\ promise'[k] # 0 =>
               promise[k] = 0 \/ now < promise[k]
<1>1. TypeOK /\ PromiseKept /\ [Next]_vars => [Honest]_vars
  <2> SUFFICES ASSUME TypeOK, PromiseKept, Next, NEW s \in Keys,
                      promise'[s] # promise[s], promise'[s] # 0, promise[s] # 0
               PROVE  now < promise[s]
    OBVIOUS
  <2>1. PICK k \in Keys : CheckFirst(k) \/ CheckAllows(k) \/ CheckDenies(k)
    BY DEF Next, Tick
  <2>2. CheckDenies(s)
    BY <2>1 DEF CheckFirst, CheckAllows, CheckDenies, LetThrough, TypeOK
  <2>3. Refilled(s) < Window
    BY <2>2 DEF CheckDenies
  <2>4. promise[s] \in Int /\ now \in Int /\ Refilled(s) \in Int /\ Window \in Int
    BY RefillFacts, Constants, RateLimiterAssumption DEF TypeOK
  <2>5. QED
    BY <2>3, <2>4, PromisedToken
<1>2. QED
  BY <1>1, TypeCorrect, PromisesKept, PTL DEF Spec, HonestRetry
-----------------------------------------------------------------------------
(* The limiter as the handler sees it.                                     *)

(* Whole tokens in x units of w to a token.                                *)
LEMMA DivBounds ==
  ASSUME NEW x \in Nat, NEW w \in Nat \ {0}
  PROVE  /\ x \div w \in Nat
         /\ (x \div w) * w <= x
         /\ x < (x \div w) * w + w
  OBVIOUS

LEMMA DivIs ==
  ASSUME NEW x \in Nat, NEW w \in Nat \ {0}, NEW q \in Nat, q * w <= x, x < q * w + w
  PROVE  x \div w = q
  OBVIOUS

LEMMA DivMonotone ==
  ASSUME NEW x \in Nat, NEW y \in Nat, NEW w \in Nat \ {0}, x <= y
  PROVE  x \div w <= y \div w
<1> DEFINE p == x \div w
           q == y \div w
<1>1. /\ p \in Nat /\ p * w <= x /\ x < p * w + w
      /\ q \in Nat /\ q * w <= y /\ y < q * w + w
  BY DivBounds
<1> HIDE DEF p, q
<1>2. p * w < q * w + w
  BY <1>1
<1>3. q * w + w = (q + 1) * w
  BY <1>1
<1>4. p < q + 1
  <2>1. SUFFICES ASSUME q + 1 <= p PROVE FALSE
    BY <1>1
  <2>2. (q + 1) * w <= p * w
    BY <1>1, <2>1, TimesMonotone
  <2>3. QED
    BY <1>1, <1>2, <1>3, <2>2
<1>5. QED
  BY <1>1, <1>4 DEF p, q

(* A token less is a token less.                                           *)
LEMMA DivMinus ==
  ASSUME NEW x \in Nat, NEW w \in Nat \ {0}, w <= x
  PROVE  /\ x \div w > 0
         /\ (x - w) \div w = x \div w - 1
<1> DEFINE q == x \div w
<1>1. q \in Nat /\ q * w <= x /\ x < q * w + w
  BY DivBounds
<1> HIDE DEF q
<1>2. q # 0
  BY <1>1
<1>3. q - 1 \in Nat /\ (q - 1) * w = q * w - w
  BY <1>1, <1>2
<1>4. x - w \in Nat /\ (q - 1) * w <= x - w /\ x - w < (q - 1) * w + w
  BY <1>1, <1>3
<1>5. (x - w) \div w = q - 1
  BY <1>3, <1>4, DivIs
<1>6. QED
  BY <1>1, <1>2, <1>5 DEF q

LEMMA FullTokens ==
  /\ Full \div Window = Capacity
  /\ (Full - Window) \div Window = Capacity - 1
  /\ \A x \in 0..Full : x \div Window \in 0..Capacity
<1>1. Full \in Nat /\ Window \in Nat \ {0} /\ Capacity \in Nat
  BY Constants, RateLimiterAssumption
<1>2. Full \div Window = Capacity
  BY <1>1, DivIs DEF Full
<1>3. (Full - Window) \div Window = Capacity - 1
  BY <1>1, <1>2, Constants, DivMinus
<1>4. ASSUME NEW x \in 0..Full PROVE x \div Window \in 0..Capacity
  <2>1. x \div Window <= Capacity
    BY <1>1, <1>2, DivMonotone
  <2>2. QED
    BY <1>1, <2>1, DivBounds
<1>5. QED
  BY <1>2, <1>3, <1>4

(* The whole tokens that a request of the key would find.                  *)
Found(k) == IF k \in known THEN Refilled(k) \div Window ELSE Capacity

(* Right after a check a key finds what the check has left.                *)
LEMMA FoundAfter ==
  ASSUME TypeOK', NEW k \in Keys, k \in known', updated'[k] = now'
  PROVE  Found(k)' = tokens'[k] \div Window
<1>1. tokens'[k] \in 0..Full /\ now' \in Int /\ Full \in Nat
  BY Constants, RateLimiterAssumption DEF TypeOK
<1>2. Larger(0, now' - updated'[k]) = 0
  BY <1>1 DEF Larger
<1>3. Refilled(k)' = Smaller(Full, tokens'[k] + Larger(0, now' - updated'[k]) * Capacity)
  BY Zenon DEF Refilled
<1>4. 0 * Capacity = 0
  BY RateLimiterAssumption
<1>5. Refilled(k)' = Smaller(Full, tokens'[k] + 0)
  BY <1>2, <1>3, <1>4, Zenon
<1>6. Refilled(k)' = tokens'[k]
  BY <1>1, <1>5 DEF Smaller
<1>7. QED
  BY <1>6 DEF Found

(* A check of one key changes nothing for another.                         *)
LEMMA FoundBefore ==
  ASSUME NEW k \in Keys, (k \in known) = (k \in known'), now' = now,
         tokens'[k] = tokens[k], updated'[k] = updated[k]
  PROVE  Found(k)' = Found(k)
  BY DEF Found, Refilled, Larger, Smaller

(* A check that lets the request through takes a token.                    *)
LEMMA GrantTakes ==
  ASSUME TypeOK, TypeOK', NEW k \in Keys, CheckFirst(k) \/ CheckAllows(k)
  PROVE  /\ Found(k) > 0
         /\ Found(k)' = Found(k) - 1
         /\ \A j \in Keys \ {k} : Found(j)' = Found(j)
<1>1. k \in known' /\ updated'[k] = now'
  BY DEF CheckFirst, CheckAllows, TypeOK
<1>2. Found(k) > 0 /\ tokens'[k] \div Window = Found(k) - 1
  <2>1. CASE CheckFirst(k)
    BY <2>1, FullTokens, RateLimiterAssumption DEF CheckFirst, Found, TypeOK
  <2>2. CASE CheckAllows(k)
    <3>1. /\ k \in known /\ Refilled(k) >= Window
          /\ tokens'[k] = Refilled(k) - Window
      BY <2>2 DEF CheckAllows, TypeOK
    <3>2. Refilled(k) \in Nat /\ Window \in Nat \ {0}
      BY RefillFacts, Constants, RateLimiterAssumption
    <3>3. QED
      BY <3>1, <3>2, DivMinus DEF Found
  <2>3. QED
    BY <2>1, <2>2
<1>3. ASSUME NEW j \in Keys \ {k} PROVE Found(j)' = Found(j)
  <2>1. /\ (j \in known) = (j \in known') /\ now' = now
        /\ tokens'[j] = tokens[j] /\ updated'[j] = updated[j]
    BY DEF CheckFirst, CheckAllows, TypeOK
  <2>2. QED
    BY <2>1, FoundBefore
<1>4. QED
  BY <1>1, <1>2, <1>3, FoundAfter

(* A check that refuses finds no token and takes none.                     *)
LEMMA DenialFinds ==
  ASSUME TypeOK, TypeOK', NEW k \in Keys, CheckDenies(k)
  PROVE  /\ Found(k) = 0
         /\ \A j \in Keys : Found(j)' = Found(j)
<1>1. /\ k \in known /\ k \in known' /\ updated'[k] = now'
      /\ Refilled(k) < Window /\ tokens'[k] = Refilled(k)
  BY DEF CheckDenies, TypeOK
<1>2. Refilled(k) \in Nat /\ Window \in Nat \ {0}
  BY RefillFacts, Constants, RateLimiterAssumption
<1>3. Refilled(k) \div Window = 0
  BY <1>1, <1>2, DivIs
<1>4. Found(k)' = Found(k)
  BY <1>1, FoundAfter DEF Found
<1>5. ASSUME NEW j \in Keys \ {k} PROVE Found(j)' = Found(j)
  <2>1. /\ (j \in known) = (j \in known') /\ now' = now
        /\ tokens'[j] = tokens[j] /\ updated'[j] = updated[j]
    BY DEF CheckDenies, TypeOK
  <2>2. QED
    BY <2>1, FoundBefore
<1>6. QED
  BY <1>1, <1>3, <1>4, <1>5 DEF Found

(* Time takes nothing away, and fills no bucket beyond its capacity.       *)
LEMMA TickRefills ==
  ASSUME TypeOK, TypeOK', Tick, NEW k \in Keys
  PROVE  Found(k)' \in 0..Capacity /\ Found(k)' >= Found(k)
<1>1. CASE k \notin known
  BY <1>1, RateLimiterAssumption DEF Tick, Found
<1>2. CASE k \in known
  <2> DEFINE e == now - updated[k]
             f == now' - updated[k]
  <2>1. /\ now \in Nat /\ now' = now + 1 /\ updated[k] \in 0..now
        /\ tokens[k] \in 0..Full /\ Full \in Nat /\ Capacity \in Nat /\ Window \in Nat \ {0}
        /\ known' = known /\ tokens' = tokens /\ updated' = updated
    BY Constants, RateLimiterAssumption DEF TypeOK, Tick
  <2>2. e \in Nat /\ f \in Nat /\ e <= f
    BY <2>1
  <2>3. /\ Refilled(k) = Smaller(Full, tokens[k] + e * Capacity)
        /\ Refilled(k)' = Smaller(Full, tokens[k] + f * Capacity)
    BY <2>1, <2>2 DEF Refilled, Larger
  <2> HIDE DEF e, f
  <2>4. e * Capacity <= f * Capacity /\ e * Capacity \in Nat /\ f * Capacity \in Nat
    BY <2>1, <2>2, TimesMonotone
  <2>5. /\ Refilled(k) \in Nat /\ Refilled(k)' \in Nat
        /\ Refilled(k) <= Refilled(k)' /\ Refilled(k)' <= Full
    BY <2>1, <2>3, <2>4 DEF Smaller
  <2>6. Refilled(k) \div Window <= Refilled(k)' \div Window
        /\ Refilled(k)' \div Window <= Full \div Window
    BY <2>1, <2>5, DivMonotone
  <2>7. QED
    BY <1>2, <2>1, <2>5, <2>6, DivBounds, FullTokens DEF Found
<1>3. QED
  BY <1>1, <1>2

(* The limiter is a Bucket, for every capacity, window and set of keys:    *)
(* what the handler's model assumes of it.                                 *)
THEOREM IsBucket == Spec => ImplementsBucket
<1> DEFINE Tokens == [k \in Keys |-> IF k \in known THEN Refilled(k) \div Window ELSE Capacity]
           Told   == \A k \in Keys :
                       /\ granted'[k] # granted[k] => Whole!Take(k)
                       /\ promise'[k] \notin {0, promise[k]} => Whole!Empty(k)
<1>1. Tokens = [k \in Keys |-> Found(k)] /\ Tokens' = [k \in Keys |-> Found(k)']
  BY DEF Found
<1> HIDE DEF Tokens
<1>2. Init => Whole!Init
  BY RateLimiterAssumption DEF Init, Whole!Init
<1>3. ASSUME TypeOK, TypeOK', NEW k \in Keys, CheckFirst(k) \/ CheckAllows(k)
      PROVE  Whole!Take(k)
  <2>1. Tokens[k] > 0 /\ Tokens' = [Tokens EXCEPT ![k] = @ - 1]
    BY <1>1, <1>3, GrantTakes
  <2>2. QED
    BY <2>1 DEF Whole!Take, Tokens
<1>4. TypeOK /\ TypeOK' /\ [Next]_vars => [Whole!Next]_<<Capacity, Tokens>>
  <2> SUFFICES ASSUME TypeOK, TypeOK', [Next]_vars, Tokens' # Tokens PROVE Whole!Next
    BY DEF Tokens
  <2>1. CASE \E k \in Keys : CheckFirst(k) \/ CheckAllows(k)
    BY <1>3, <2>1 DEF Whole!Next
  <2>2. ASSUME NEW k \in Keys, CheckDenies(k) PROVE FALSE
    BY <1>1, <2>2, DenialFinds
  <2>3. CASE Tick
    <3>1. Tokens' \in [Keys -> 0..Capacity]
      BY <1>1, <2>3, TickRefills
    <3>2. \A k \in Keys : Tokens'[k] >= Tokens[k]
      BY <1>1, <2>3, TickRefills
    <3>3. Whole!Refill
      BY <3>1, <3>2 DEF Whole!Refill, Tokens
    <3>4. QED
      BY <3>3 DEF Whole!Next
  <2>4. CASE UNCHANGED vars
    BY <2>4 DEF vars, Tokens, Refilled, Larger, Smaller
  <2>5. QED
    BY <2>1, <2>2, <2>3, <2>4 DEF Next
<1>5. TypeOK /\ TypeOK' /\ [Next]_vars => [Told]_vars
  <2> SUFFICES ASSUME TypeOK, TypeOK', Next, NEW s \in Keys
               PROVE  /\ granted'[s] # granted[s] => Whole!Take(s)
                      /\ promise'[s] \notin {0, promise[s]} => Whole!Empty(s)
    OBVIOUS
  <2>1. ASSUME NEW k \in Keys, CheckFirst(k) \/ CheckAllows(k)
        PROVE  /\ granted'[s] # granted[s] => s = k
               /\ promise'[s] \in {0, promise[s]}
    BY <2>1 DEF CheckFirst, CheckAllows, LetThrough, TypeOK
  <2>2. ASSUME NEW k \in Keys, CheckDenies(k)
        PROVE  /\ granted' = granted
               /\ promise'[s] # promise[s] => s = k /\ Found(k) = 0
    BY <2>2, DenialFinds DEF CheckDenies, TypeOK
  <2>3. CASE Tick
    BY <2>3 DEF Tick
  <2>4. Found(s) = 0 => Whole!Empty(s)
    BY DEF Found, Whole!Empty
  <2>5. QED
    BY <1>3, <2>1, <2>2, <2>3, <2>4 DEF Next
<1>6. QED
  BY <1>2, <1>4, <1>5, TypeCorrect, PTL DEF Spec, ImplementsBucket, Whole!Spec, Tokens
=============================================================================
