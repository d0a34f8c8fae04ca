--------------------------- MODULE ServiceProofs ---------------------------
(***************************************************************************)
(* What holds of Service for any number of requests, any limits and any    *)
(* bounds of the histogram.                                                *)
(***************************************************************************)
EXTENDS Service, Induction

-----------------------------------------------------------------------------
(* Both modules mean the same outcomes, each with a status of its own.     *)
LEMMA SameNames ==
  /\ Exec!Outcomes = Outcomes /\ Exec!Refusals = Refusals
  /\ Exec!Removing = Removing /\ Exec!Spilling = Spilling /\ Exec!Keeping = Keeping
  BY DEF Exec!Outcomes, Outcomes, Exec!StatusOf, StatusOf, Exec!Refusals, Refusals,
         Exec!Removing, Removing, Exec!Spilling, Spilling, Exec!Keeping, Keeping

LEMMA OutcomesKnown ==
  /\ Refusals \cup Removing \cup Spilling \cup Keeping \subseteq Outcomes
  /\ {"new", "running"} \cap Outcomes = {}
  /\ "ok" \notin Refusals
  /\ {200, 400, 413, 429, 500} \subseteq Statuses /\ 0 \notin Statuses
  /\ {"ok", "cancelled"} \subseteq Outcomes
  /\ \A outcome \in Outcomes : StatusOf[outcome] \in Statuses
  BY DEF Refusals, Removing, Spilling, Keeping, Outcomes, StatusOf, Statuses

(* What Execution's steps may do to its two variables.                     *)
LEMMA ExecTyped ==
  ASSUME TypeOK, NEW r \in Requests,
         \/ Exec!Accept(r)
         \/ Exec!Produce(r)
         \/ \E outcome \in Outcomes : Exec!Refuse(r, outcome) \/ Exec!End(r, outcome)
  PROVE  /\ state' \in [Requests -> {"new", "running"} \cup Outcomes]
         /\ kept' \in [Requests -> SUBSET Outputs]
<1> USE DEF TypeOK
<1>1. CASE Exec!Accept(r)
  BY <1>1 DEF Exec!Accept
<1>2. CASE Exec!Produce(r)
  BY <1>2 DEF Exec!Produce
<1>3. ASSUME NEW outcome \in Outcomes, Exec!Refuse(r, outcome)
      PROVE  /\ state' \in [Requests -> {"new", "running"} \cup Outcomes]
             /\ kept' \in [Requests -> SUBSET Outputs]
  BY <1>3 DEF Exec!Refuse
<1>4. ASSUME NEW outcome \in Outcomes, Exec!End(r, outcome)
      PROVE  /\ state' \in [Requests -> {"new", "running"} \cup Outcomes]
             /\ kept' \in [Requests -> SUBSET Outputs]
  <2>1. state' = [state EXCEPT ![r] = outcome]
    BY <1>4 DEF Exec!End
  <2>2. PICK left \in SUBSET kept[r] : kept' = [kept EXCEPT ![r] = left]
    BY <1>4 DEF Exec!End, Exec!Leftovers
  <2>3. QED
    BY <2>1, <2>2
<1>5. QED
  BY <1>1, <1>2, <1>3, <1>4

LEMMA LimitsTyped ==
  ASSUME TypeOK
  PROVE  /\ Effective(config).size \in Nat
         /\ Effective(config).rate \in Nat
  BY ServiceAssumption DEF TypeOK, Effective, Limits

LEMMA CountTyped ==
  ASSUME TypeOK, NEW r \in Requests, NEW status \in Statuses, NEW change \in Int,
         Count(r, status, change)
  PROVE  /\ counted' \in [Requests -> Statuses \cup {0}]
         /\ inflight' \in Int
         /\ requests' \in [Statuses -> Nat]
  BY DEF TypeOK, Count

LEMMA TakeTyped ==
  ASSUME TypeOK, IF Limited THEN Limiter!Take(Client) ELSE UNCHANGED tokens
  PROVE  tokens' \in [{Client} -> 0..Effective(config).rate]
  BY LimitsTyped DEF TypeOK, Limiter!Take

LEMMA AdmitTyped ==
  ASSUME TypeOK, Admit PROVE admitted' \in Lengths
  BY DEF TypeOK, Admit

LEMMA ObserveTyped ==
  ASSUME TypeOK, NEW ms \in Times
  PROVE  Observe(durations, ms) \in [buckets : [1..Len(Bounds) -> Nat], sum : Nat, count : Nat]
  BY ServiceAssumption DEF TypeOK, Observe

(* A handler that counts its request and leaves.                           *)
LEMMA AnswerTyped ==
  ASSUME TypeOK, NEW r \in Requests, NEW status \in Statuses, NEW change \in Int,
         Count(r, status, change), Leave(r)
  PROVE  /\ stage' \in [Requests -> Stages]
         /\ counted' \in [Requests -> Statuses \cup {0}]
         /\ inflight' \in Int
         /\ requests' \in [Statuses -> Nat]
  BY CountTyped DEF Leave, TypeOK, Stages

(* Every variable keeps its type; in particular the limiter never holds    *)
(* more tokens than its capacity.                                          *)
THEOREM TypeCorrect == Spec => []TypeOK
<1>1. Init => TypeOK
  <2> SUFFICES ASSUME Init PROVE TypeOK
    OBVIOUS
  <2>1. config \in [app : AppLimits, own : OwnLimits]
    BY DEF Init
  <2>2. Effective(config).rate \in Nat
    BY <2>1, ServiceAssumption DEF Effective, Limits
  <2>3. Len(Bounds) \in Nat /\ 0 \in Lengths
    BY ServiceAssumption DEF Lengths
  <2>4. QED
    BY <2>1, <2>2, <2>3 DEF Init, TypeOK, Exec!Init, Stages
<1>2. TypeOK /\ [Next]_vars => TypeOK'
  <2> SUFFICES ASSUME TypeOK, [Next]_vars PROVE TypeOK'
    OBVIOUS
  <2>1. ASSUME NEW r \in Requests, TooLarge(r) PROVE TypeOK'
    <3>1. /\ stage' \in [Requests -> Stages]
          /\ counted' \in [Requests -> Statuses \cup {0}]
          /\ inflight' \in Int
          /\ requests' \in [Statuses -> Nat]
      BY <2>1, AnswerTyped, OutcomesKnown DEF TooLarge
    <3>2. QED
      BY <2>1, <3>1 DEF TooLarge, Gate, TypeOK
  <2>2. ASSUME NEW r \in Requests, RateLimited(r) PROVE TypeOK'
    <3>1. /\ stage' \in [Requests -> Stages]
          /\ counted' \in [Requests -> Statuses \cup {0}]
          /\ inflight' \in Int
          /\ requests' \in [Statuses -> Nat]
          /\ admitted' \in Lengths
      BY <2>2, AnswerTyped, AdmitTyped, OutcomesKnown DEF RateLimited
    <3>2. QED
      BY <2>2, <3>1 DEF RateLimited, Gate, TypeOK
  <2>3. ASSUME NEW r \in Requests, Pass(r) PROVE TypeOK'
    <3>1. tokens' \in [{Client} -> 0..Effective(config).rate] /\ admitted' \in Lengths
      BY <2>3, TakeTyped, AdmitTyped DEF Pass
    <3>2. QED
      BY <2>3, <3>1 DEF Pass, Gate, TypeOK, Stages
  <2>4. ASSUME NEW r \in Requests, ParseFails(r) PROVE TypeOK'
    <3>1. /\ stage' \in [Requests -> Stages]
          /\ counted' \in [Requests -> Statuses \cup {0}]
          /\ inflight' \in Int
          /\ requests' \in [Statuses -> Nat]
      BY <2>4, AnswerTyped, OutcomesKnown DEF ParseFails
    <3>2. QED
      BY <2>4, <3>1 DEF ParseFails, Untimed, Rest, TypeOK
  <2>5. ASSUME NEW r \in Requests, Refused(r) PROVE TypeOK'
    <3>1. PICK outcome \in Outcomes : Exec!Refuse(r, outcome) /\ Count(r, StatusOf[outcome], -1)
      BY <2>5, OutcomesKnown DEF Refused
    <3>2. /\ state' \in [Requests -> {"new", "running"} \cup Outcomes]
          /\ kept' \in [Requests -> SUBSET Outputs]
      BY <3>1, ExecTyped
    <3>3. /\ stage' \in [Requests -> Stages]
          /\ counted' \in [Requests -> Statuses \cup {0}]
          /\ inflight' \in Int
          /\ requests' \in [Statuses -> Nat]
      BY <2>5, <3>1, AnswerTyped, OutcomesKnown DEF Refused
    <3>4. QED
      BY <2>5, <3>2, <3>3 DEF Refused, Untimed, Rest, TypeOK
  <2>6. ASSUME NEW r \in Requests, Execute(r) PROVE TypeOK'
    BY <2>6, ExecTyped DEF Execute, Rest, registry, TypeOK, Stages
  <2>7. ASSUME NEW r \in Requests, Succeeds(r) PROVE TypeOK'
    <3>1. PICK ms \in Times, status \in {200, 500} :
            /\ Count(r, status, -1)
            /\ took' = [took EXCEPT ![r] = ms]
            /\ durations' = Observe(durations, ms)
      BY <2>7 DEF Succeeds
    <3>2. /\ state' \in [Requests -> {"new", "running"} \cup Outcomes]
          /\ kept' \in [Requests -> SUBSET Outputs]
      BY <2>7, OutcomesKnown, ExecTyped DEF Succeeds
    <3>3. durations' \in [buckets : [1..Len(Bounds) -> Nat], sum : Nat, count : Nat]
      BY <3>1, ObserveTyped
    <3>4. /\ stage' \in [Requests -> Stages]
          /\ counted' \in [Requests -> Statuses \cup {0}]
          /\ inflight' \in Int
          /\ requests' \in [Statuses -> Nat]
      BY <2>7, <3>1, AnswerTyped, OutcomesKnown DEF Succeeds
    <3>5. QED
      BY <2>7, <3>1, <3>2, <3>3, <3>4 DEF Succeeds, Rest, TypeOK
  <2>8. ASSUME NEW r \in Requests, Fails(r) PROVE TypeOK'
    <3>1. PICK outcome \in Outcomes : Exec!End(r, outcome) /\ Count(r, StatusOf[outcome], -1)
      BY <2>8, OutcomesKnown DEF Fails
    <3>2. /\ state' \in [Requests -> {"new", "running"} \cup Outcomes]
          /\ kept' \in [Requests -> SUBSET Outputs]
      BY <3>1, ExecTyped
    <3>3. /\ stage' \in [Requests -> Stages]
          /\ counted' \in [Requests -> Statuses \cup {0}]
          /\ inflight' \in Int
          /\ requests' \in [Statuses -> Nat]
      BY <2>8, <3>1, AnswerTyped, OutcomesKnown DEF Fails
    <3>4. QED
      BY <2>8, <3>2, <3>3 DEF Fails, Untimed, Rest, TypeOK
  <2>9. ASSUME NEW r \in Requests, Produces(r) PROVE TypeOK'
    BY <2>9, ExecTyped DEF Produces, registry, TypeOK
  <2>10. ASSUME NEW r \in Requests, Send(r) PROVE TypeOK'
    <3>1. Seen(r) \subseteq Statuses \cup {0}
      BY <2>10, OutcomesKnown DEF Seen, TypeOK
    <3>2. QED
      BY <2>10, <3>1 DEF Send, registry, TypeOK, Stages
  <2>11. ASSUME NEW r \in Requests, Cancelled(r) PROVE TypeOK'
    <3>1. /\ state' \in [Requests -> {"new", "running"} \cup Outcomes]
          /\ kept' \in [Requests -> SUBSET Outputs]
      <4>1. CASE stage[r] = "executing"
        BY <2>11, <4>1, ExecTyped, OutcomesKnown DEF Cancelled
      <4>2. CASE stage[r] # "executing"
        BY <2>11, <4>2 DEF Cancelled, TypeOK
      <4>3. QED
        BY <4>1, <4>2
    <3>2. /\ stage' \in [Requests -> Stages]
          /\ counted' \in [Requests -> Statuses \cup {0}]
          /\ inflight' \in Int
          /\ requests' \in [Statuses -> Nat]
      BY <2>11, AnswerTyped, OutcomesKnown DEF Cancelled
    <3>3. QED
      BY <2>11, <3>1, <3>2 DEF Cancelled, Untimed, Rest, TypeOK
  <2>12. ASSUME NEW r \in Requests, Unserved(r) \/ Dropped(r) PROVE TypeOK'
    BY <2>12 DEF Unserved, Dropped, registry, TypeOK, Stages
  <2>13. CASE Refill
    BY <2>13 DEF Refill, Limiter!Refill, registry, TypeOK
  <2>14. CASE Terminate \/ DrainExpires \/ Stop
    BY <2>14 DEF Terminate, DrainExpires, Stop, registry, TypeOK
  <2>15. CASE UNCHANGED vars
    BY <2>15 DEF vars, registry, TypeOK
  <2>16. QED
    BY <2>1, <2>2, <2>3, <2>4, <2>5, <2>6, <2>7, <2>8, <2>9, <2>10, <2>11, <2>12, <2>13,
       <2>14, <2>15 DEF Next, Ends, Quiescent
<1>3. QED
  BY <1>1, <1>2, PTL DEF Spec
-----------------------------------------------------------------------------
(* The gates.                                                              *)

(* Who touches the limits, the tokens and the longest length let in.       *)
LEMMA GateSteps ==
  ASSUME [Next]_vars
  PROVE  /\ config' = config
         /\ admitted' # admitted => Admit
         /\ tokens' # tokens => Refill \/ \E r \in Requests : Pass(r)
<1> USE DEF Gate, Rest
<1>1. ASSUME NEW r \in Requests, TooLarge(r) \/ RateLimited(r) \/ Pass(r)
      PROVE  /\ config' = config
             /\ admitted' # admitted => Admit
             /\ tokens' # tokens => Pass(r)
  BY <1>1 DEF TooLarge, RateLimited, Pass
<1>2. ASSUME NEW r \in Requests,
             \/ Unserved(r) \/ ParseFails(r) \/ Refused(r) \/ Execute(r) \/ Ends(r)
             \/ Produces(r) \/ Send(r) \/ Cancelled(r) \/ Dropped(r)
      PROVE  UNCHANGED <<config, admitted, tokens>>
  BY <1>2 DEF Unserved, ParseFails, Refused, Execute, Ends, Succeeds, Fails, Produces, Send,
              Cancelled, Dropped
<1>3. CASE Refill \/ Terminate \/ DrainExpires \/ Stop
  BY <1>3 DEF Refill, Terminate, DrainExpires, Stop
<1>4. CASE UNCHANGED vars
  BY <1>4 DEF vars
<1>5. QED
  BY <1>1, <1>2, <1>3, <1>4 DEF Next, Quiescent

(* The limit that holds is the one effective_limits chose.                 *)
LEMMA NearestIs ==
  /\ Nearest("size") = {Effective(config).size} \ {None}
  /\ Nearest("rate") = {Effective(config).rate} \ {None}
<1>1. /\ Effective(config).size =
           IF config.own.size # None THEN config.own.size ELSE config.app.size
      /\ Effective(config).rate =
           IF config.own.rate # None THEN config.own.rate ELSE config.app.rate
  BY DEF Effective
<1>2. QED
  BY <1>1 DEF Nearest

LEMMA NearestCap ==
  SizeCapHolds <=> (Effective(config).size # None => admitted <= Effective(config).size)
  BY NearestIs DEF SizeCapHolds

(* The nearest setting of the size cap holds, whatever the limits are.     *)
THEOREM CapHolds == Spec => []SizeCapHolds
<1>1. Init => SizeCapHolds
  <2> SUFFICES ASSUME Init PROVE SizeCapHolds
    OBVIOUS
  <2>1. Effective(config).size \in Nat
    BY ServiceAssumption DEF Init, Effective, Limits
  <2>2. QED
    BY <2>1, NearestCap DEF Init
<1>2. TypeOK /\ SizeCapHolds /\ [Next]_vars => SizeCapHolds'
  <2> SUFFICES ASSUME TypeOK, SizeCapHolds, [Next]_vars PROVE SizeCapHolds'
    OBVIOUS
  <2>1. config' = config /\ (admitted' # admitted => Admit)
    BY GateSteps
  <2>2. Effective(config).size # None => admitted' <= Effective(config).size
    <3>1. CASE admitted' = admitted
      BY <3>1, NearestCap
    <3>2. CASE Admit
      <4>1. PICK length \in Lengths :
              ~Oversize(length) /\ admitted' = IF length > admitted THEN length ELSE admitted
        BY <3>2 DEF Admit
      <4>2. length \in Nat /\ admitted \in Nat
        BY ServiceAssumption DEF TypeOK, Lengths
      <4>3. QED
        BY <4>1, <4>2, NearestCap, LimitsTyped DEF Oversize
    <3>3. QED
      BY <2>1, <3>1, <3>2
  <2>3. Nearest("size")' = Nearest("size")
    BY <2>1 DEF Nearest
  <2>4. QED
    BY <2>2, <2>3, NearestIs DEF SizeCapHolds
<1>3. QED
  BY <1>1, <1>2, TypeCorrect, PTL DEF Spec

(* A request that does not get past both gates costs no token.             *)
THEOREM TokensAreForRuns == Spec => OversizeIsFree
<1> DEFINE Free == tokens'[Client] < tokens[Client] =>
                     \E r \in Requests : stage[r] = "new" /\ stage'[r] = "parsing"
<1>1. TypeOK /\ [Next]_vars => [Free]_vars
  <2> SUFFICES ASSUME TypeOK, Next, tokens'[Client] < tokens[Client]
               PROVE  \E r \in Requests : stage[r] = "new" /\ stage'[r] = "parsing"
    OBVIOUS
  <2>1. tokens[Client] \in Int /\ Client \in {Client}
    BY LimitsTyped DEF TypeOK
  <2>2. ~Refill
    <3> SUFFICES ASSUME Refill PROVE FALSE
      OBVIOUS
    <3>1. /\ tokens' \in [{Client} -> 0..Effective(config).rate]
          /\ tokens'[Client] >= tokens[Client]
      BY DEF Refill, Limiter!Refill
    <3>2. tokens'[Client] \in Int
      BY <3>1, LimitsTyped
    <3>3. QED
      BY <2>1, <3>1, <3>2
  <2>3. tokens' # tokens
    BY <2>1
  <2>4. PICK r \in Requests : Pass(r)
    BY <2>2, <2>3, GateSteps
  <2>5. QED
    BY <2>4 DEF Pass, Gate, Arrives, TypeOK
<1>2. QED
  BY <1>1, TypeCorrect, PTL DEF Spec, OversizeIsFree

(* Whatever combination of limit blocks is set, a request that is let in   *)
(* takes a token out of a bucket that the nearest setting bounds.          *)
THEOREM RateHolds == Spec => RateLimitHolds
<1> DEFINE Paid == \A most \in Nearest("rate"), r \in Requests :
                     stage[r] = "new" /\ stage'[r] = "parsing" =>
                       tokens[Client] \in 1..most /\ tokens'[Client] = tokens[Client] - 1
<1>1. TypeOK /\ [Next]_vars => [Paid]_vars
  <2> SUFFICES ASSUME TypeOK, Next, NEW most \in Nearest("rate"), NEW r \in Requests,
                      stage[r] = "new", stage'[r] = "parsing"
               PROVE  tokens[Client] \in 1..most /\ tokens'[Client] = tokens[Client] - 1
    OBVIOUS
  <2>1. Pass(r)
    <3>1. ASSUME NEW q \in Requests,
                 \/ Unserved(q) \/ TooLarge(q) \/ RateLimited(q) \/ ParseFails(q) \/ Refused(q)
                 \/ Execute(q) \/ Ends(q) \/ Produces(q) \/ Send(q) \/ Cancelled(q) \/ Dropped(q)
          PROVE  FALSE
      BY <3>1
         DEF Unserved, TooLarge, RateLimited, ParseFails, Refused, Execute, Ends, Succeeds, Fails,
             Produces, Send, Cancelled, Dropped, Leave, TypeOK
    <3>2. CASE Refill \/ Terminate \/ DrainExpires \/ Stop \/ Quiescent
      BY <3>2 DEF Refill, Terminate, DrainExpires, Stop, Quiescent, vars
    <3>3. ASSUME NEW q \in Requests, Pass(q) PROVE q = r
      BY <3>3 DEF Pass, TypeOK
    <3>4. QED
      BY <3>1, <3>2, <3>3 DEF Next
  <2>2. most = Effective(config).rate /\ Limited
    BY NearestIs DEF Limited
  <2>3. Limiter!Take(Client)
    BY <2>1, <2>2 DEF Pass
  <2>4. tokens \in [{Client} -> 0..most] /\ most \in Nat /\ Client \in {Client}
    BY <2>2, LimitsTyped DEF TypeOK
  <2>5. tokens[Client] > 0 /\ tokens' = [tokens EXCEPT ![Client] = @ - 1]
    BY <2>3 DEF Limiter!Take
  <2>6. QED
    BY <2>4, <2>5
<1>2. QED
  BY <1>1, TypeCorrect, PTL DEF Spec, RateLimitHolds
-----------------------------------------------------------------------------
(* The metrics.                                                            *)

Busy == {r \in Requests : stage[r] \in InHandler}

Left == {"answering", "done"}

CountedAs(status) == {r \in Requests : stage[r] \in Left /\ counted[r] = status}

LEMMA AccountedIs ==
  Accounted <=>
    /\ inflight = Cardinality(Busy)
    /\ \A status \in Statuses : requests[status] = Cardinality(CountedAs(status))
    /\ \A r \in Requests : stage[r] \in Left <=> counted[r] # 0
  BY DEF Accounted, Busy, CountedAs, Left

LEMMA SubsetsFinite == \A S \in SUBSET Requests : IsFiniteSet(S) /\ Cardinality(S) \in Nat
<1> SUFFICES ASSUME NEW S \in SUBSET Requests PROVE IsFiniteSet(S) /\ Cardinality(S) \in Nat
  OBVIOUS
<1>1. IsFiniteSet(S)
  BY ServiceAssumption, FS_Subset
<1>2. QED
  BY <1>1, FS_CardinalityType

(* A request leaves its handler, counted, or is refused at a gate.         *)
LEMMA CountKeepsAccounts ==
  ASSUME TypeOK, Accounted, NEW r \in Requests, NEW status \in Statuses, NEW change \in Int,
         Count(r, status, change), Leave(r),
         \/ stage[r] = "new" /\ change = 0
         \/ stage[r] \in InHandler /\ change = -1
  PROVE  Accounted'
<1>1. /\ stage' = [stage EXCEPT ![r] = "answering"]
      /\ counted' = [counted EXCEPT ![r] = status]
      /\ inflight' = inflight + change
      /\ requests' = [requests EXCEPT ![status] = @ + 1]
  BY DEF Count, Leave
<1>2. stage[r] \notin Left /\ counted[r] = 0 /\ status # 0
  BY AccountedIs, OutcomesKnown DEF InHandler, Left
<1>3. inflight' = Cardinality(Busy')
  <2>1. Busy' = Busy \ {r}
    BY <1>1 DEF Busy, InHandler, TypeOK
  <2>2. r \in Busy <=> change = -1
    BY DEF Busy, InHandler
  <2>3. Busy \in SUBSET Requests
    BY DEF Busy
  <2>4. QED
    BY <1>1, <2>1, <2>2, <2>3, AccountedIs, SubsetsFinite, FS_RemoveElement
<1>4. ASSUME NEW s \in Statuses
      PROVE  requests'[s] = Cardinality(CountedAs(s)')
  <2>1. requests[s] = Cardinality(CountedAs(s)) /\ CountedAs(s) \in SUBSET Requests
    BY AccountedIs DEF CountedAs
  <2>2. CASE s = status
    <3>1. CountedAs(s)' = CountedAs(s) \cup {r} /\ r \notin CountedAs(s)
      BY <1>1, <1>2, <2>2 DEF CountedAs, Left, TypeOK
    <3>2. requests'[s] = requests[s] + 1
      BY <1>1, <2>2 DEF TypeOK
    <3>3. Cardinality(CountedAs(s)') = Cardinality(CountedAs(s)) + 1
      BY <2>1, <3>1, SubsetsFinite, FS_AddElement
    <3>4. QED
      BY <2>1, <3>2, <3>3
  <2>3. CASE s # status
    <3>1. CountedAs(s)' = CountedAs(s)
      BY <1>1, <1>2, <2>3 DEF CountedAs, Left, TypeOK
    <3>2. QED
      BY <1>1, <2>1, <2>3, <3>1 DEF TypeOK
  <2>4. QED
    BY <2>2, <2>3
<1>5. \A q \in Requests : stage'[q] \in Left <=> counted'[q] # 0
  BY <1>1, <1>2, AccountedIs DEF Left, TypeOK
<1>6. QED
  BY <1>3, <1>4, <1>5 DEF Accounted, Busy, CountedAs, Left

(* A step that neither counts nor lets anybody in or out.                  *)
LEMMA OthersKeepAccounts ==
  ASSUME TypeOK, Accounted, UNCHANGED <<counted, inflight, requests>>,
         \A r \in Requests : /\ stage[r] \in InHandler <=> stage'[r] \in InHandler
                             /\ stage[r] \in Left <=> stage'[r] \in Left
  PROVE  Accounted'
<1>1. Busy' = Busy /\ \A s : CountedAs(s)' = CountedAs(s)
  BY DEF Busy, CountedAs
<1>2. \A r \in Requests : stage'[r] \in Left <=> counted'[r] # 0
  BY AccountedIs
<1>3. inflight' = Cardinality(Busy') /\ \A s \in Statuses : requests'[s] = Cardinality(CountedAs(s)')
  BY <1>1, AccountedIs
<1>4. QED
  BY <1>2, <1>3 DEF Accounted, Busy, CountedAs, Left

(* The gauge and the counter balance at any time, whatever interrupts the  *)
(* handlers.                                                               *)
THEOREM ScrapesBalance == Spec => []Accounted
<1>1. Init => Accounted
  <2> SUFFICES ASSUME Init PROVE Accounted
    OBVIOUS
  <2>1. Busy = {} /\ \A s : CountedAs(s) = {}
    BY DEF Init, Busy, InHandler, CountedAs, Left
  <2>2. QED
    BY <2>1, AccountedIs, FS_EmptySet DEF Init, Left
<1>2. TypeOK /\ Accounted /\ [Next]_vars => Accounted'
  <2> SUFFICES ASSUME TypeOK, Accounted, [Next]_vars PROVE Accounted'
    OBVIOUS
  <2>1. ASSUME NEW r \in Requests, TooLarge(r) \/ RateLimited(r) PROVE Accounted'
    BY <2>1, CountKeepsAccounts, OutcomesKnown DEF TooLarge, RateLimited, Gate, Arrives
  <2>2. ASSUME NEW r \in Requests, Pass(r) PROVE Accounted'
    <3>1. /\ stage[r] = "new" /\ stage' = [stage EXCEPT ![r] = "parsing"]
          /\ inflight' = inflight + 1 /\ UNCHANGED <<counted, requests>>
      BY <2>2 DEF Pass, Gate, Arrives
    <3>2. Busy' = Busy \cup {r} /\ r \notin Busy /\ Busy \in SUBSET Requests
      BY <3>1 DEF Busy, InHandler, TypeOK
    <3>3. inflight' = Cardinality(Busy')
      BY <3>1, <3>2, AccountedIs, SubsetsFinite, FS_AddElement
    <3>4. \A s : CountedAs(s)' = CountedAs(s)
      BY <3>1 DEF CountedAs, Left, TypeOK
    <3>5. \A s \in Statuses : requests'[s] = Cardinality(CountedAs(s)')
      BY <3>1, <3>4, AccountedIs
    <3>6. \A q \in Requests : stage'[q] \in Left <=> counted'[q] # 0
      BY <3>1, AccountedIs DEF Left, TypeOK
    <3>7. QED
      BY <3>3, <3>5, <3>6 DEF Accounted, Busy, CountedAs, Left
  <2>3. ASSUME NEW r \in Requests,
               ParseFails(r) \/ Refused(r) \/ Ends(r) \/ Cancelled(r)
        PROVE  Accounted'
    <3>1. PICK status \in Statuses : Count(r, status, -1)
      BY <2>3, OutcomesKnown DEF ParseFails, Refused, Ends, Succeeds, Fails, Cancelled
    <3>2. stage[r] \in InHandler /\ Leave(r)
      BY <2>3 DEF ParseFails, Refused, Ends, Succeeds, Fails, Cancelled, InHandler
    <3>3. QED
      BY <3>1, <3>2, CountKeepsAccounts
  <2>4. ASSUME NEW r \in Requests,
               Unserved(r) \/ Execute(r) \/ Produces(r) \/ Send(r) \/ Dropped(r)
        PROVE  Accounted'
    <3>1. UNCHANGED <<counted, inflight, requests>>
      BY <2>4 DEF Unserved, Execute, Produces, Send, Dropped, registry
    <3>2. \A q \in Requests : /\ stage[q] \in InHandler <=> stage'[q] \in InHandler
                              /\ stage[q] \in Left <=> stage'[q] \in Left
      BY <2>4 DEF Unserved, Execute, Produces, Send, Dropped, InHandler, Left, TypeOK
    <3>3. QED
      BY <3>1, <3>2, OthersKeepAccounts
  <2>5. CASE Refill \/ Terminate \/ DrainExpires \/ Stop
    BY <2>5, OthersKeepAccounts DEF Refill, Terminate, DrainExpires, Stop, registry
  <2>6. CASE UNCHANGED vars
    BY <2>6, OthersKeepAccounts DEF vars, registry
  <2>7. QED
    BY <2>1, <2>2, <2>3, <2>4, <2>5, <2>6 DEF Next, Quiescent
<1>3. QED
  BY <1>1, <1>2, TypeCorrect, PTL DEF Spec
-----------------------------------------------------------------------------
(* The histogram.                                                          *)

Succeeded == {r \in Requests : state[r] = "ok"}

Within(i) == {r \in Succeeded : took[r] <= Bounds[i]}

LEMMA HistogramIs ==
  DurationsAreSuccesses <=>
    /\ durations.count = Cardinality(Succeeded)
    /\ \A i \in 1..Len(Bounds) : durations.buckets[i] = Cardinality(Within(i))
  BY DEF DurationsAreSuccesses, Succeeded, Within

(* The end of a successful run.                                            *)
LEMMA SuccessObserved ==
  ASSUME TypeOK, DurationsAreSuccesses, NEW r \in Requests, Succeeds(r)
  PROVE  DurationsAreSuccesses'
<1>1. PICK ms \in Times :
        /\ took' = [took EXCEPT ![r] = ms]
        /\ durations' = Observe(durations, ms)
  BY DEF Succeeds
<1>2. state[r] # "ok" /\ state' = [state EXCEPT ![r] = "ok"]
  BY DEF Succeeds, Exec!End
<1>3. Succeeded' = Succeeded \cup {r} /\ r \notin Succeeded /\ Succeeded \in SUBSET Requests
  BY <1>2 DEF Succeeded, TypeOK
<1>4. durations'.count = Cardinality(Succeeded')
  <2>1. durations'.count = durations.count + 1
    BY <1>1 DEF Observe
  <2>2. Cardinality(Succeeded') = Cardinality(Succeeded) + 1
    BY <1>3, SubsetsFinite, FS_AddElement
  <2>3. QED
    BY <2>1, <2>2, HistogramIs
<1>5. ASSUME NEW i \in 1..Len(Bounds)
      PROVE  durations'.buckets[i] = Cardinality(Within(i)')
  <2>1. durations'.buckets[i] = durations.buckets[i] + IF ms <= Bounds[i] THEN 1 ELSE 0
    BY <1>1 DEF Observe
  <2>2. durations.buckets[i] \in Nat /\ durations.buckets[i] = Cardinality(Within(i))
    BY HistogramIs DEF TypeOK
  <2>3. Within(i)' = IF ms <= Bounds[i] THEN Within(i) \cup {r} ELSE Within(i)
    BY <1>1, <1>3 DEF Within, TypeOK
  <2>4. r \notin Within(i) /\ Within(i) \in SUBSET Requests
    BY <1>3 DEF Within
  <2>5. CASE ms <= Bounds[i]
    <3>1. Cardinality(Within(i)') = Cardinality(Within(i)) + 1
      BY <2>3, <2>4, <2>5, SubsetsFinite, FS_AddElement
    <3>2. QED
      BY <2>1, <2>2, <2>5, <3>1
  <2>6. CASE ~(ms <= Bounds[i])
    BY <2>1, <2>2, <2>3, <2>6
  <2>7. QED
    BY <2>5, <2>6
<1>6. QED
  BY <1>4, <1>5 DEF DurationsAreSuccesses, Succeeded, Within

(* Any other step: no run succeeds, and none that did is forgotten.        *)
LEMMA NothingObserved ==
  ASSUME DurationsAreSuccesses, UNCHANGED <<durations, took>>,
         \A r \in Requests : state[r] = "ok" <=> state'[r] = "ok"
  PROVE  DurationsAreSuccesses'
<1>1. Succeeded' = Succeeded
  BY DEF Succeeded
<1>2. \A i : Within(i)' = Within(i)
  BY <1>1 DEF Within
<1>3. /\ durations'.count = Cardinality(Succeeded')
      /\ \A i \in 1..Len(Bounds) : durations'.buckets[i] = Cardinality(Within(i)')
  BY <1>1, <1>2, HistogramIs
<1>4. QED
  BY <1>3 DEF DurationsAreSuccesses, Succeeded, Within

(* The histogram counts each successful command once, in every bucket it   *)
(* belongs to, and nothing else.                                           *)
THEOREM HistogramCounts == Spec => []DurationsAreSuccesses
<1>1. Init => DurationsAreSuccesses
  <2> SUFFICES ASSUME Init PROVE DurationsAreSuccesses
    OBVIOUS
  <2>1. Succeeded = {} /\ \A i : Within(i) = {}
    BY DEF Init, Exec!Init, Succeeded, Within
  <2>2. /\ durations.count = 0
        /\ \A i \in 1..Len(Bounds) : durations.buckets[i] = 0
    BY DEF Init
  <2>3. QED
    BY <2>1, <2>2, HistogramIs, FS_EmptySet
<1>2. TypeOK /\ DurationsAreSuccesses /\ [Next]_vars => DurationsAreSuccesses'
  <2> SUFFICES ASSUME TypeOK, DurationsAreSuccesses, [Next]_vars
               PROVE  DurationsAreSuccesses'
    OBVIOUS
  <2>1. ASSUME NEW r \in Requests, Succeeds(r) PROVE DurationsAreSuccesses'
    BY <2>1, SuccessObserved
  <2>2. ASSUME NEW r \in Requests, Refused(r) \/ Fails(r) PROVE DurationsAreSuccesses'
    <3>1. UNCHANGED <<durations, took>>
      BY <2>2 DEF Refused, Fails, Untimed
    <3>2. PICK outcome : /\ outcome # "ok" /\ state[r] # "ok"
                         /\ state' = [state EXCEPT ![r] = outcome]
      BY <2>2, OutcomesKnown DEF Refused, Fails, Exec!Refuse, Exec!End
    <3>3. QED
      BY <3>1, <3>2, NothingObserved DEF TypeOK
  <2>3. ASSUME NEW r \in Requests, Cancelled(r) PROVE DurationsAreSuccesses'
    <3>1. UNCHANGED <<durations, took>>
      BY <2>3 DEF Cancelled, Untimed
    <3>2. CASE stage[r] = "executing"
      BY <2>3, <3>1, <3>2, NothingObserved DEF Cancelled, Exec!End, TypeOK
    <3>3. CASE stage[r] # "executing"
      BY <2>3, <3>1, <3>3, NothingObserved DEF Cancelled
    <3>4. QED
      BY <3>2, <3>3
  <2>4. ASSUME NEW r \in Requests, Execute(r) \/ Produces(r) PROVE DurationsAreSuccesses'
    BY <2>4, NothingObserved
       DEF Execute, Produces, registry, Exec!Accept, Exec!Produce, TypeOK
  <2>5. ASSUME NEW r \in Requests,
               \/ Unserved(r) \/ TooLarge(r) \/ RateLimited(r) \/ Pass(r)
               \/ ParseFails(r) \/ Send(r) \/ Dropped(r)
        PROVE  DurationsAreSuccesses'
    BY <2>5, NothingObserved
       DEF Unserved, TooLarge, RateLimited, Pass, ParseFails, Send, Dropped, Gate, Untimed,
           registry
  <2>6. CASE Refill \/ Terminate \/ DrainExpires \/ Stop
    BY <2>6, NothingObserved DEF Refill, Terminate, DrainExpires, Stop, registry
  <2>7. CASE UNCHANGED vars
    BY <2>7, NothingObserved DEF vars, registry
  <2>8. QED
    BY <2>1, <2>2, <2>3, <2>4, <2>5, <2>6, <2>7 DEF Next, Ends, Quiescent
<1>3. QED
  BY <1>1, <1>2, TypeCorrect, PTL DEF Spec

-----------------------------------------------------------------------------
(* Sums.  SumFunction adds the values of a function in an order that its   *)
(* definition leaves open; these lemmas say that it does not matter.       *)

Picked(s) == CHOOSE x \in s : TRUE

(* What the library's recursive function has to be on a set.               *)
SumStep(f, total, s) == IF s = {} THEN 0 ELSE f[Picked(s)] + total[s \ {Picked(s)}]

(* The sums of a function over the subsets of a set, as the library defines*)
(* them.                                                                   *)
Totals(f, S) == CHOOSE total : total = [s \in SUBSET S |-> SumStep(f, total, s)]

LEMMA SumIsTotal ==
  ASSUME NEW f, NEW S
  PROVE  SumFunctionOnSet(f, S) = Totals(f, S)[S]
  BY Zenon
     DEF SumFunctionOnSet, FoldFunctionOnSet, MapThenFoldSet, Totals, SumStep, Picked

(* There is such a function: by induction on the size of the sets.         *)
LEMMA TotalsAre ==
  ASSUME NEW f, NEW S, IsFiniteSet(S)
  PROVE  \A s \in SUBSET S : Totals(f, S)[s] = SumStep(f, Totals(f, S), s)
<1> DEFINE Good(total, n) == \A s \in SUBSET S : Cardinality(s) <= n => total[s] = SumStep(f, total, s)
           Grown(total, n) ==
             [s \in SUBSET S |-> IF Cardinality(s) <= n THEN total[s] ELSE SumStep(f, total, s)]
           N == {n \in Nat : \E total : total = [s \in SUBSET S |-> total[s]] /\ Good(total, n)}
<1>1. \A s \in SUBSET S : IsFiniteSet(s) /\ Cardinality(s) \in Nat
  BY FS_Subset, FS_CardinalityType
<1>2. \A s \in SUBSET S : s # {} =>
        /\ Picked(s) \in s /\ s \ {Picked(s)} \in SUBSET S
        /\ Cardinality(s \ {Picked(s)}) = Cardinality(s) - 1
  <2> SUFFICES ASSUME NEW s \in SUBSET S, s # {}
               PROVE  /\ Picked(s) \in s
                      /\ Cardinality(s \ {Picked(s)}) = Cardinality(s) - 1
    OBVIOUS
  <2>1. Picked(s) \in s
    BY DEF Picked
  <2>2. QED
    BY <1>1, <2>1, FS_RemoveElement
<1>3. 0 \in N
  <2> DEFINE zero == [s \in SUBSET S |-> 0]
  <2>1. \A s \in SUBSET S : Cardinality(s) <= 0 => s = {}
    BY <1>1, FS_EmptySet
  <2>2. Good(zero, 0)
    BY <2>1 DEF SumStep
  <2>3. zero = [s \in SUBSET S |-> zero[s]]
    OBVIOUS
  <2>4. QED
    BY <2>2, <2>3
<1>4. ASSUME NEW n \in Nat, n \in N PROVE n + 1 \in N
  <2>1. PICK total : total = [s \in SUBSET S |-> total[s]] /\ Good(total, n)
    BY <1>4
  <2> DEFINE grown == Grown(total, n)
  <2>2. \A s \in SUBSET S : Cardinality(s) <= n => grown[s] = total[s]
    OBVIOUS
  <2>3. \A s \in SUBSET S : Cardinality(s) <= n + 1 => grown[s] = SumStep(f, total, s)
    <3> SUFFICES ASSUME NEW s \in SUBSET S, Cardinality(s) <= n + 1
                 PROVE  grown[s] = SumStep(f, total, s)
      OBVIOUS
    <3>1. CASE Cardinality(s) <= n
      BY <2>1, <2>2, <3>1
    <3>2. CASE ~(Cardinality(s) <= n)
      BY <3>2
    <3>3. QED
      BY <3>1, <3>2
  <2>4. \A s \in SUBSET S : Cardinality(s) <= n + 1 => SumStep(f, total, s) = SumStep(f, grown, s)
    <3> SUFFICES ASSUME NEW s \in SUBSET S, Cardinality(s) <= n + 1, s # {}
                 PROVE  total[s \ {Picked(s)}] = grown[s \ {Picked(s)}]
      BY DEF SumStep
    <3>1. Cardinality(s \ {Picked(s)}) <= n
      BY <1>1, <1>2
    <3>2. QED
      BY <1>2, <2>2, <3>1
  <2>5. Good(grown, n + 1)
    BY <2>3, <2>4
  <2>6. grown = [s \in SUBSET S |-> grown[s]]
    OBVIOUS
  <2> HIDE DEF grown, Good
  <2>7. \E t : t = [s \in SUBSET S |-> t[s]] /\ Good(t, n + 1)
    BY <2>5, <2>6, Zenon
  <2>8. QED
    BY <2>7
<1>5. Cardinality(S) \in N
  <2>1. Nat \subseteq N
    <3> HIDE DEF N
    <3>1. QED
      BY <1>3, <1>4, NumberInduction
  <2>2. QED
    BY <1>1, <2>1
<1>6. PICK total : total = [s \in SUBSET S |-> total[s]] /\ Good(total, Cardinality(S))
  BY <1>5
<1>7. \A s \in SUBSET S : Cardinality(s) <= Cardinality(S)
  BY FS_Subset
<1>8. \A s \in SUBSET S : total[s] = SumStep(f, total, s)
  BY <1>6, <1>7
<1>9. total = [s \in SUBSET S |-> SumStep(f, total, s)]
  BY <1>6, <1>8, Zenon
<1>10. Totals(f, S) = [s \in SUBSET S |-> SumStep(f, Totals(f, S), s)]
  BY <1>9, Zenon DEF Totals
<1>11. QED
  BY <1>10, Zenon

(* The sum over a part of the requests.                                    *)
SumOver(f, s) == Totals(f, Requests)[s]

LEMMA SumOverIs ==
  ASSUME NEW f \in [Requests -> Nat]
  PROVE  \A s \in SUBSET Requests :
           /\ SumOver(f, s) \in Nat
           /\ s = {} => SumOver(f, s) = 0
           /\ s # {} => /\ Picked(s) \in s
                        /\ SumOver(f, s) = f[Picked(s)] + SumOver(f, s \ {Picked(s)})
<1>1. \A s \in SUBSET Requests : SumOver(f, s) = SumStep(f, Totals(f, Requests), s)
  BY ServiceAssumption, TotalsAre DEF SumOver
<1>2. \A s \in SUBSET Requests :
        /\ s = {} => SumOver(f, s) = 0
        /\ s # {} => /\ Picked(s) \in s
                     /\ SumOver(f, s) = f[Picked(s)] + SumOver(f, s \ {Picked(s)})
  BY <1>1 DEF SumStep, SumOver, Picked
<1> DEFINE C == {s \in SUBSET Requests : SumOver(f, s) \in Nat}
<1>3. ASSUME NEW s \in SUBSET Requests, \A x \in s : s \ {x} \in C PROVE s \in C
  <2>1. CASE s = {}
    <3>1. SumOver(f, s) = 0
      BY <1>2, <2>1, Zenon
    <3>2. QED
      BY <3>1
  <2>2. CASE s # {}
    <3>1. Picked(s) \in s /\ f[Picked(s)] \in Nat
      BY <1>2, <2>2
    <3>2. SumOver(f, s \ {Picked(s)}) \in Nat
      BY <1>3, <3>1
    <3>3. QED
      BY <1>2, <2>2, <3>1, <3>2
  <2>3. QED
    BY <2>1, <2>2
<1>4. SUBSET Requests \subseteq C
  <2> HIDE DEF C
  <2>1. QED
    BY <1>3, ServiceAssumption, FiniteInduction
<1>5. QED
  BY <1>2, <1>4

(* Any element may be taken out first.                                     *)
LEMMA SumTakesAny ==
  ASSUME NEW f \in [Requests -> Nat]
  PROVE  \A s \in SUBSET Requests : \A x \in s : SumOver(f, s) = f[x] + SumOver(f, s \ {x})
<1> DEFINE C == {s \in SUBSET Requests : \A x \in s : SumOver(f, s) = f[x] + SumOver(f, s \ {x})}
<1>1. ASSUME NEW s \in SUBSET Requests, \A x \in s : s \ {x} \in C PROVE s \in C
  <2> SUFFICES ASSUME NEW x \in s PROVE SumOver(f, s) = f[x] + SumOver(f, s \ {x})
    OBVIOUS
  <2> DEFINE p == Picked(s)
  <2>1. p \in s /\ SumOver(f, s) = f[p] + SumOver(f, s \ {p})
    BY SumOverIs
  <2> HIDE DEF p
  <2>2. CASE x = p
    BY <2>1, <2>2
  <2>3. CASE x # p
    <3>1. SumOver(f, s \ {p}) = f[x] + SumOver(f, (s \ {p}) \ {x})
      BY <1>1, <2>1, <2>3
    <3>2. SumOver(f, s \ {x}) = f[p] + SumOver(f, (s \ {x}) \ {p})
      BY <1>1, <2>1, <2>3
    <3>3. (s \ {p}) \ {x} = (s \ {x}) \ {p}
      OBVIOUS
    <3>4. f[x] \in Nat /\ f[p] \in Nat /\ SumOver(f, (s \ {x}) \ {p}) \in Nat
      BY <2>1, SumOverIs
    <3>5. QED
      BY <2>1, <3>1, <3>2, <3>3, <3>4
  <2>4. QED
    BY <2>2, <2>3
<1>2. SUBSET Requests \subseteq C
  <2> HIDE DEF C
  <2>1. QED
    BY <1>1, ServiceAssumption, FiniteInduction
<1>3. QED
  BY <1>2

(* Functions that agree on a set have the same sum over it.                *)
LEMMA SumAgrees ==
  ASSUME NEW f \in [Requests -> Nat], NEW g \in [Requests -> Nat]
  PROVE  \A s \in SUBSET Requests :
           (\A x \in s : f[x] = g[x]) => SumOver(f, s) = SumOver(g, s)
<1> DEFINE C == {s \in SUBSET Requests :
                   (\A x \in s : f[x] = g[x]) => SumOver(f, s) = SumOver(g, s)}
<1>1. ASSUME NEW s \in SUBSET Requests, \A x \in s : s \ {x} \in C PROVE s \in C
  <2> SUFFICES ASSUME \A x \in s : f[x] = g[x] PROVE SumOver(f, s) = SumOver(g, s)
    OBVIOUS
  <2>1. CASE s = {}
    BY <2>1, SumOverIs
  <2>2. CASE s # {}
    <3>1. Picked(s) \in s
      BY <2>2, SumOverIs
    <3>2. SumOver(f, s \ {Picked(s)}) = SumOver(g, s \ {Picked(s)})
      BY <1>1, <3>1
    <3>3. QED
      BY <2>2, <3>1, <3>2, SumOverIs
  <2>3. QED
    BY <2>1, <2>2
<1>2. SUBSET Requests \subseteq C
  <2> HIDE DEF C
  <2>1. QED
    BY <1>1, ServiceAssumption, FiniteInduction
<1>3. QED
  BY <1>2

(* One value that was 0 has been set.                                      *)
LEMMA SumGrows ==
  ASSUME NEW f \in [Requests -> Nat], NEW r \in Requests, f[r] = 0, NEW n \in Nat
  PROVE  SumFunction([f EXCEPT ![r] = n]) = SumFunction(f) + n
<1> DEFINE g == [f EXCEPT ![r] = n]
           rest == Requests \ {r}
<1>1. g \in [Requests -> Nat] /\ g[r] = n /\ \A x \in rest : g[x] = f[x]
  OBVIOUS
<1> HIDE DEF g
<1>2. \A h \in [Requests -> Nat] : SumFunction(h) = SumOver(h, Requests)
  BY SumIsTotal DEF SumFunction, SumOver
<1>3. SumOver(f, Requests) = f[r] + SumOver(f, rest)
  BY SumTakesAny
<1>4. SumOver(g, Requests) = g[r] + SumOver(g, rest)
  BY <1>1, SumTakesAny
<1>5. SumOver(f, rest) = SumOver(g, rest)
  BY <1>1, SumAgrees
<1>6. SumOver(f, rest) \in Nat
  BY SumOverIs
<1>7. SumFunction(g) = SumFunction(f) + n
  BY <1>1, <1>2, <1>3, <1>4, <1>5, <1>6
<1>8. QED
  BY <1>7 DEF g

LEMMA SumOfNothing == SumFunction([r \in Requests |-> 0]) = 0
<1> DEFINE zero == [r \in Requests |-> 0]
           C == {s \in SUBSET Requests : SumOver(zero, s) = 0}
<1>1. zero \in [Requests -> Nat] /\ \A r \in Requests : zero[r] = 0
  OBVIOUS
<1> HIDE DEF zero
<1>2. ASSUME NEW s \in SUBSET Requests, \A x \in s : s \ {x} \in C PROVE s \in C
  <2>1. CASE s = {}
    BY <1>1, <2>1, SumOverIs
  <2>2. CASE s # {}
    <3>1. Picked(s) \in s /\ zero[Picked(s)] = 0
      BY <1>1, <2>2, SumOverIs
    <3>2. SumOver(zero, s \ {Picked(s)}) = 0
      BY <1>2, <3>1
    <3>3. QED
      BY <1>1, <2>2, <3>1, <3>2, SumOverIs
  <2>3. QED
    BY <2>1, <2>2
<1>3. SUBSET Requests \subseteq C
  <2> HIDE DEF C
  <2>1. QED
    BY <1>2, ServiceAssumption, FiniteInduction
<1>4. SumFunction(zero) = SumOver(zero, Requests)
  BY <1>1, SumIsTotal DEF SumFunction, SumOver
<1>5. SumFunction(zero) = 0
  BY <1>3, <1>4
<1>6. QED
  BY <1>5 DEF zero

(* Only a call that succeeded has a duration, so that one that succeeds    *)
(* later sets it for the first time.                                       *)
Timed == \A r \in Requests : took[r] # 0 => state[r] = "ok"

LEMMA OtherStepsKeepSum ==
  ASSUME UNCHANGED <<durations, took>>, \A r \in Requests : state[r] = "ok" => state'[r] = "ok",
         Timed, AverageIsRight
  PROVE  Timed' /\ AverageIsRight'
  BY DEF Timed, AverageIsRight

(* The sum of the histogram is that of the durations of all the runs that  *)
(* succeeded, in whatever order they did: the finally's observe_duration   *)
(* adds each of them once (main.py).                                       *)
THEOREM AverageHolds == Spec => []AverageIsRight
<1> DEFINE Inv == Timed /\ AverageIsRight
<1>1. Init => Inv
  <2> SUFFICES ASSUME Init PROVE Inv
    OBVIOUS
  <2>1. took = [r \in Requests |-> 0] /\ durations.sum = 0
    BY DEF Init
  <2>2. AverageIsRight
    BY <2>1, SumOfNothing DEF AverageIsRight
  <2>3. Timed
    BY <2>1 DEF Timed
  <2>4. QED
    BY <2>2, <2>3
<1>2. TypeOK /\ Inv /\ [Next]_vars => Inv'
  <2> SUFFICES ASSUME TypeOK, Timed, AverageIsRight, [Next]_vars
               PROVE  Timed' /\ AverageIsRight'
    OBVIOUS
  <2>1. ASSUME NEW r \in Requests, Succeeds(r) PROVE Timed' /\ AverageIsRight'
    <3>1. PICK ms \in Times : took' = [took EXCEPT ![r] = ms] /\ durations' = Observe(durations, ms)
      BY <2>1 DEF Succeeds
    <3>2. took \in [Requests -> Nat] /\ ms \in Nat
      <4>1. Times \cup {0} \subseteq Nat
        BY ServiceAssumption
      <4>2. took \in [Requests -> Times \cup {0}]
        BY DEF TypeOK
      <4>3. QED
        BY <4>1, <4>2
    <3>3. state[r] = "running" /\ state' = [state EXCEPT ![r] = "ok"]
      BY <2>1 DEF Succeeds, Exec!End
    <3>4. took[r] = 0
      BY <3>3 DEF Timed
    <3>5. durations'.sum = durations.sum + ms
      BY <3>1 DEF Observe
    <3>6. SumFunction(took') = SumFunction(took) + ms
      BY <3>1, <3>2, <3>4, SumGrows
    <3>7. AverageIsRight'
      BY <3>5, <3>6 DEF AverageIsRight
    <3>8. Timed'
      BY <3>1, <3>2, <3>3 DEF Timed, TypeOK
    <3>9. QED
      BY <3>7, <3>8
  <2>2. ASSUME NEW r \in Requests, Refused(r) \/ Fails(r) PROVE Timed' /\ AverageIsRight'
    <3>1. UNCHANGED <<durations, took>>
      BY <2>2 DEF Refused, Fails, Untimed
    <3>2. PICK outcome : state[r] # "ok" /\ state' = [state EXCEPT ![r] = outcome]
      BY <2>2 DEF Refused, Fails, Exec!Refuse, Exec!End
    <3>3. \A q \in Requests : state[q] = "ok" => state'[q] = "ok"
      BY <3>2 DEF TypeOK
    <3>4. QED
      BY <3>1, <3>3, OtherStepsKeepSum
  <2>3. ASSUME NEW r \in Requests, Cancelled(r) PROVE Timed' /\ AverageIsRight'
    <3>1. UNCHANGED <<durations, took>>
      BY <2>3 DEF Cancelled, Untimed
    <3>2. \A q \in Requests : state[q] = "ok" => state'[q] = "ok"
      <4>1. CASE stage[r] = "executing"
        BY <2>3, <4>1 DEF Cancelled, Exec!End, TypeOK
      <4>2. CASE stage[r] # "executing"
        BY <2>3, <4>2 DEF Cancelled
      <4>3. QED
        BY <4>1, <4>2
    <3>3. QED
      BY <3>1, <3>2, OtherStepsKeepSum
  <2>4. ASSUME NEW r \in Requests, Execute(r) \/ Produces(r) PROVE Timed' /\ AverageIsRight'
    <3>1. UNCHANGED <<durations, took>>
      BY <2>4 DEF Execute, Produces, registry
    <3>2. \A q \in Requests : state[q] = "ok" => state'[q] = "ok"
      BY <2>4 DEF Execute, Produces, Exec!Accept, Exec!Produce, TypeOK
    <3>3. QED
      BY <3>1, <3>2, OtherStepsKeepSum
  <2>5. ASSUME NEW r \in Requests,
               \/ Unserved(r) \/ TooLarge(r) \/ RateLimited(r) \/ Pass(r)
               \/ ParseFails(r) \/ Send(r) \/ Dropped(r)
        PROVE  Timed' /\ AverageIsRight'
    BY <2>5, OtherStepsKeepSum
       DEF Unserved, TooLarge, RateLimited, Pass, ParseFails, Send, Dropped, Gate, Untimed,
           registry
  <2>6. CASE Refill \/ Terminate \/ DrainExpires \/ Stop
    BY <2>6, OtherStepsKeepSum DEF Refill, Terminate, DrainExpires, Stop, registry
  <2>7. CASE UNCHANGED vars
    BY <2>7, OtherStepsKeepSum DEF vars, registry
  <2>8. QED
    BY <2>1, <2>2, <2>3, <2>4, <2>5, <2>6, <2>7 DEF Next, Ends, Quiescent
<1>3. QED
  BY <1>1, <1>2, TypeCorrect, PTL DEF Spec
=============================================================================
