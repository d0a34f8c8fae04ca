------------------------------ MODULE Service ------------------------------
(***************************************************************************)
(* main.py: the handler of one endpoint around execute_endpoint, with its  *)
(* gates, its metrics, the answer FastAPI sends afterwards, and the way    *)
(* uvicorn stops.  The call itself is Execution and the limiter is Bucket, *)
(* whose tokens come back at any time.                                     *)
(***************************************************************************)
EXTENDS Integers, Sequences, FiniteSets, Functions, Outcomes

CONSTANTS Requests,      \* the requests clients send
          Outputs,       \* the endpoint's output files
          WaitForPipes,  \* as in Execution
          AppLimits,     \* what `limits` can say at the top of the YAML
          OwnLimits,     \* what the endpoint's own `limits` can say
          MaxLength,     \* the longest Content-Length a request declares
          Bounds,        \* the upper bounds of the histogram, ascending
          Times,         \* what a duration_ms can be
          DrainBounded   \* timeout_graceful_shutdown is set: run() sets it,
                         \* the container's own uvicorn command does not

None == 0    \* a limit that is not set; one that is set is positive

Limits == [size : Nat, rate : Nat]

ASSUME ServiceAssumption ==
  /\ IsFiniteSet(Requests)
  /\ AppLimits \subseteq Limits
  /\ OwnLimits \subseteq Limits
  /\ MaxLength \in Nat
  /\ Bounds \in Seq(Nat)
  /\ Times \subseteq Nat
  /\ DrainBounded \in BOOLEAN

VARIABLES config,    \* the limits of the app and of the endpoint, from the YAML
          server,    \* "serving", "draining", "cancelling" or "stopped"
          stage,     \* where the handler of each request stands
          counted,   \* the status the handler recorded, 0 before
          sent,      \* the status the client received, 0 before
          tokens,    \* the limiter's whole tokens
          inflight,  \* url2code_in_flight_requests
          requests,  \* url2code_requests_total, by status
          durations, \* url2code_request_duration_seconds
          took,      \* the duration_ms of each successful call, 0 before
          admitted,  \* the longest Content-Length that passed the size gate
          state,     \* Execution
          kept       \* Execution

registry == <<inflight, requests, durations>>

vars ==
  <<config, server, stage, counted, sent, tokens, registry, took, admitted, state, kept>>

Exec == INSTANCE Execution

(* All requests come from one client, the worst case for a bucket.         *)
Client == "client"

Statuses == {200, 400, 413, 429, 500, 502, 504}

Stages == {"new", "unserved", "parsing", "executing", "answering", "done"}

InHandler == {"parsing", "executing"}

(* uvicorn has a task for the request.                                     *)
Open == InHandler \cup {"answering"}

(* Mutation: a block of the endpoint's own replaces the app's limits.      *)
Effective_wholesale(conf) ==
  IF conf.own = [size |-> None, rate |-> None] THEN conf.app ELSE conf.own

(* effective_limits: field by field, and without a block the app's, as     *)
(* from a block that sets nothing.                                         *)
Effective(conf) ==
  [field \in {"size", "rate"} |->
     IF conf.own[field] # None THEN conf.own[field] ELSE conf.app[field]]

Init ==
  /\ config \in [app : AppLimits, own : OwnLimits]
  /\ server = "serving"
  /\ stage = [r \in Requests |-> "new"]
  /\ counted = [r \in Requests |-> 0]
  /\ sent = [r \in Requests |-> 0]
  /\ tokens = [k \in {Client} |-> Effective(config).rate]
  /\ inflight = 0
  /\ requests = [s \in Statuses |-> 0]
  /\ durations = [buckets |-> [i \in 1..Len(Bounds) |-> 0], sum |-> 0, count |-> 0]
  /\ took = [r \in Requests |-> 0]
  /\ admitted = 0
  /\ Exec!Init

-----------------------------------------------------------------------------
(* Bookkeeping.                                                            *)

(* Mutation: a duration on a bound falls into the next bucket.             *)
Observe_below(h, ms) ==
  [buckets |-> [i \in 1..Len(Bounds) |-> h.buckets[i] + IF ms < Bounds[i] THEN 1 ELSE 0],
   sum     |-> h.sum + ms,
   count   |-> h.count + 1]

(* observe_duration: every bucket whose bound is not exceeded, the sum and *)
(* the count.                                                              *)
Observe(h, ms) ==
  [buckets |-> [i \in 1..Len(Bounds) |-> h.buckets[i] + IF ms <= Bounds[i] THEN 1 ELSE 0],
   sum     |-> h.sum + ms,
   count   |-> h.count + 1]

(* Mutation: the gauge goes down before the outcome is known to be counted *)
(* as a request: a cancelled one is not.                                   *)
Count_uncancelled(r, status, change) ==
  /\ counted' = [counted EXCEPT ![r] = status]
  /\ inflight' = inflight + change
  /\ requests' = IF server = "cancelling" THEN requests ELSE [requests EXCEPT ![status] = @ + 1]

(* The handler's `finally`, without an await from dec_inflight on, up to   *)
(* observe_duration.  The gauge counts the request itself until then:      *)
(* change is -1 for a handler that was suspended, 0 for one that went up   *)
(* and down in one step.                                                   *)
Count(r, status, change) ==
  /\ counted' = [counted EXCEPT ![r] = status]
  /\ inflight' = inflight + change
  /\ requests' = [requests EXCEPT ![status] = @ + 1]

Untimed == UNCHANGED <<durations, took>>

Leave(r) == stage' = [stage EXCEPT ![r] = "answering"]

(* A connection that uvicorn accepted; a stopping server accepts no more.  *)
Arrives(r) == stage[r] = "new" /\ server = "serving"

Unserved(r) ==
  /\ stage[r] = "new"
  /\ server # "serving"
  /\ stage' = [stage EXCEPT ![r] = "unserved"]
  /\ UNCHANGED <<config, server, counted, sent, tokens, registry, took, admitted, state, kept>>

-----------------------------------------------------------------------------
(* The gates, in their order, with no await before parse_request.          *)

(* What a request declares: 0 also stands for a Content-Length that is     *)
(* absent, negative or no number, which passes the gate.                   *)
Lengths == 0..MaxLength

Oversize(length) == Effective(config).size # None /\ length > Effective(config).size

Limited == Effective(config).rate # None

Limiter ==
  INSTANCE Bucket
    WITH Keys <- {Client}, capacity <- Effective(config).rate, whole <- tokens

Gate(r) == Arrives(r) /\ UNCHANGED <<config, server, sent, took, state, kept>>

(* Mutation: the limiter is asked first.                                   *)
TooLarge_afterLimiter(r) ==
  /\ Gate(r)
  /\ \E length \in Lengths : Oversize(length)
  /\ IF Limited THEN Limiter!Take(Client) ELSE UNCHANGED tokens
  /\ Count(r, 413, 0)
  /\ Leave(r)
  /\ UNCHANGED <<durations, admitted>>

TooLarge(r) ==
  /\ Gate(r)
  /\ \E length \in Lengths : Oversize(length)
  /\ Count(r, 413, 0)
  /\ Leave(r)
  /\ UNCHANGED <<tokens, durations, admitted>>

(* The request has passed the size gate.                                   *)
Admit ==
  \E length \in Lengths :
    /\ ~Oversize(length)
    /\ admitted' = IF length > admitted THEN length ELSE admitted

RateLimited(r) ==
  /\ Gate(r)
  /\ Admit
  /\ Limited
  /\ Limiter!Empty(Client)
  /\ Count(r, 429, 0)
  /\ Leave(r)
  /\ UNCHANGED <<tokens, durations>>

Pass(r) ==
  /\ Gate(r)
  /\ Admit
  /\ IF Limited THEN Limiter!Take(Client) ELSE UNCHANGED tokens
  /\ inflight' = inflight + 1
  /\ stage' = [stage EXCEPT ![r] = "parsing"]
  /\ UNCHANGED <<counted, requests, durations>>

(* Mutation: a refill beyond the capacity.                                 *)
Refill_uncapped ==
  /\ tokens[Client] <= Effective(config).rate
  /\ tokens' = [tokens EXCEPT ![Client] = @ + 1]
  /\ UNCHANGED <<config, server, stage, counted, sent, registry, took, admitted, state, kept>>

Refill ==
  /\ Limiter!Refill
  /\ UNCHANGED <<config, server, stage, counted, sent, registry, took, admitted, state, kept>>

-----------------------------------------------------------------------------
(* The body and the call.                                                  *)

Rest == UNCHANGED <<config, server, sent, tokens, admitted>>

(* parse_request raised: an HTTPException of FastAPI (400), or anything    *)
(* else (a ValidationError; Starlette's own HTTPException), counted as 500.*)
ParseFails(r) ==
  /\ stage[r] = "parsing"
  /\ \E status \in {400, 500} : Count(r, status, -1)
  /\ Untimed
  /\ Leave(r)
  /\ Rest
  /\ UNCHANGED <<state, kept>>

Refused(r) ==
  /\ stage[r] = "parsing"
  /\ \E outcome \in Refusals :
       Exec!Refuse(r, outcome) /\ Count(r, StatusOf[outcome], -1)
  /\ Untimed
  /\ Leave(r)
  /\ Rest

Execute(r) ==
  /\ stage[r] = "parsing"
  /\ Exec!Accept(r)
  /\ stage' = [stage EXCEPT ![r] = "executing"]
  /\ Rest
  /\ UNCHANGED <<counted, registry, took>>

(* Mutation: the duration is only set once the template has been rendered. *)
Succeeds_lateDuration(r) ==
  /\ stage[r] = "executing"
  /\ Exec!End(r, "ok")
  /\ \E ms \in Times, status \in {200, 500} :
       /\ Count(r, status, -1)
       /\ took' = [took EXCEPT ![r] = ms]
       /\ durations' = IF status = 200 THEN Observe(durations, ms) ELSE durations
  /\ Leave(r)
  /\ Rest

(* The command ran; a response template may then fail to render (500).     *)
Succeeds(r) ==
  /\ stage[r] = "executing"
  /\ Exec!End(r, "ok")
  /\ \E ms \in Times, status \in {200, 500} :
       /\ Count(r, status, -1)
       /\ took' = [took EXCEPT ![r] = ms]
       /\ durations' = Observe(durations, ms)
  /\ Leave(r)
  /\ Rest

Fails(r) ==
  /\ stage[r] = "executing"
  /\ \E outcome \in (Removing \cup Spilling \cup Keeping) \ {"ok", "cancelled"} :
       Exec!End(r, outcome) /\ Count(r, StatusOf[outcome], -1)
  /\ Untimed
  /\ Leave(r)
  /\ Rest

Produces(r) ==
  /\ Exec!Produce(r)
  /\ UNCHANGED <<config, server, stage, counted, sent, tokens, registry, took, admitted>>

-----------------------------------------------------------------------------
(* The answer.                                                             *)

(* What the client may see of a request counted under a status.  200 with  *)
(* no successful call was a cancelled task, which uvicorn answers with 500;*)
(* serialising a real 200 can still fail; and an exception of Starlette,   *)
(* counted as 500, carries its own 400.                                    *)
Seen(r) ==
  IF counted[r] = 200 THEN IF state[r] = "ok" THEN {200, 500} ELSE {500}
  ELSE IF counted[r] = 500 /\ state[r] = "new" THEN {400, 500}
  ELSE {counted[r]}

Send(r) ==
  /\ stage[r] = "answering"
  /\ \E status \in Seen(r) : sent' = [sent EXCEPT ![r] = status]
  /\ stage' = [stage EXCEPT ![r] = "done"]
  /\ UNCHANGED <<config, server, counted, tokens, registry, took, admitted, state, kept>>

-----------------------------------------------------------------------------
(* uvicorn's shutdown.                                                     *)

Terminate ==
  /\ server = "serving"
  /\ server' = "draining"
  /\ UNCHANGED <<config, stage, counted, sent, tokens, registry, took, admitted, state, kept>>

(* timeout_graceful_shutdown is over: every task gets a cancellation.      *)
DrainExpires ==
  /\ server = "draining"
  /\ DrainBounded
  /\ \E r \in Requests : stage[r] \in Open
  /\ server' = "cancelling"
  /\ UNCHANGED <<config, stage, counted, sent, tokens, registry, took, admitted, state, kept>>

(* Mutation: a run in progress catches the cancellation and goes on.       *)
Cancelled_swallowed(r) ==
  /\ server = "cancelling"
  /\ stage[r] = "parsing"
  /\ Count(r, 200, -1)
  /\ Untimed
  /\ Leave(r)
  /\ Rest
  /\ UNCHANGED <<state, kept>>

(* CancelledError passes both except clauses: the status is still the 200  *)
(* it was set to on entry.                                                 *)
Cancelled(r) ==
  /\ server = "cancelling"
  /\ stage[r] \in InHandler
  /\ IF stage[r] = "executing" THEN Exec!End(r, "cancelled") ELSE UNCHANGED <<state, kept>>
  /\ Count(r, 200, -1)
  /\ Untimed
  /\ Leave(r)
  /\ Rest

(* A task still writing to a client that does not read is cancelled too.   *)
Dropped(r) ==
  /\ server = "cancelling"
  /\ stage[r] = "answering"
  /\ stage' = [stage EXCEPT ![r] = "done"]
  /\ UNCHANGED <<config, server, counted, sent, tokens, registry, took, admitted, state, kept>>

Stop ==
  /\ server \in {"draining", "cancelling"}
  /\ \A r \in Requests : stage[r] \notin Open
  /\ server' = "stopped"
  /\ UNCHANGED <<config, stage, counted, sent, tokens, registry, took, admitted, state, kept>>

Quiescent ==
  /\ server = "stopped"
  /\ \A r \in Requests : stage[r] \in {"unserved", "done"}
  /\ UNCHANGED vars

-----------------------------------------------------------------------------
Ends(r) == Succeeds(r) \/ Fails(r)

Next ==
  \/ \E r \in Requests :
       \/ Unserved(r) \/ TooLarge(r) \/ RateLimited(r) \/ Pass(r)
       \/ ParseFails(r) \/ Refused(r) \/ Execute(r) \/ Ends(r) \/ Produces(r)
       \/ Send(r) \/ Cancelled(r) \/ Dropped(r)
  \/ Refill \/ Terminate \/ DrainExpires \/ Stop \/ Quiescent

(* The drain timer fires, cancelled tasks run, and uvicorn leaves when they*)
(* are gone; an answer fits the socket's buffers.  A call ends by its      *)
(* timeout, unless the loop waits for pipes.  Nothing makes a client send  *)
(* the body it announced.                                                  *)
Fairness ==
  /\ WF_vars(DrainExpires)
  /\ WF_vars(Stop)
  /\ \A r \in Requests : WF_vars(Cancelled(r)) /\ WF_vars(Send(r))
  /\ ~WaitForPipes => \A r \in Requests : WF_vars(Ends(r))

Spec == Init /\ [][Next]_vars /\ Fairness

-----------------------------------------------------------------------------
(* Properties.                                                             *)

(* The types of the variables.                                             *)
TypeOK ==
  /\ config \in [app : AppLimits, own : OwnLimits]
  /\ server \in {"serving", "draining", "cancelling", "stopped"}
  /\ stage \in [Requests -> Stages]
  /\ counted \in [Requests -> Statuses \cup {0}]
  /\ sent \in [Requests -> Statuses \cup {0}]
  /\ tokens \in [{Client} -> 0..Effective(config).rate]
  /\ inflight \in Int
  /\ requests \in [Statuses -> Nat]
  /\ durations \in [buckets : [1..Len(Bounds) -> Nat], sum : Nat, count : Nat]
  /\ took \in [Requests -> Times \cup {0}]
  /\ admitted \in Lengths
  /\ state \in [Requests -> {"new", "running"} \cup Outcomes]
  /\ kept \in [Requests -> SUBSET Outputs]

(* Every scrape balances: the gauge is the number of handlers under way,   *)
(* and every request that left its handler, refused, failed, answered or   *)
(* cancelled, and no other, was counted once, under the status recorded.   *)
Accounted ==
  /\ inflight = Cardinality({r \in Requests : stage[r] \in InHandler})
  /\ \A status \in Statuses :
       requests[status] =
         Cardinality({r \in Requests : stage[r] \in {"answering", "done"} /\ counted[r] = status})
  /\ \A r \in Requests : stage[r] \in {"answering", "done"} <=> counted[r] # 0

(* The histogram is that of the commands that succeeded, whether or not    *)
(* their answer could be rendered or was ever sent: each bucket counts the *)
(* runs reported as no longer than its bound.                              *)
DurationsAreSuccesses ==
  LET succeeded == {r \in Requests : state[r] = "ok"}
  IN  /\ durations.count = Cardinality(succeeded)
      /\ \A i \in 1..Len(Bounds) :
           durations.buckets[i] = Cardinality({r \in succeeded : took[r] <= Bounds[i]})

(* And its sum is that of their durations, so that the average is right.   *)
AverageIsRight == durations.sum = SumFunction(took)

(* A limit as the README explains it: the endpoint's own setting of that   *)
(* very limit, else the app's, if there is any.                            *)
Nearest(limit) ==
  LET own == {config.own[limit]} \ {None}
  IN  IF own # {} THEN own ELSE {config.app[limit]} \ {None}

(* The nearest setting of the size cap holds: a block that only sets a     *)
(* rate limit does not lift the app's cap, nor the app's the block's.      *)
SizeCapHolds == \A cap \in Nearest("size") : admitted <= cap

(* So does that of the rate: each request let in takes one of the tokens   *)
(* its client has, never more than the nearest setting, also where the     *)
(* endpoint's block only sets a size cap.                                  *)
RateLimitHolds ==
  [][\A most \in Nearest("rate"), r \in Requests :
       stage[r] = "new" /\ stage'[r] = "parsing" =>
         tokens[Client] \in 1..most /\ tokens'[Client] = tokens[Client] - 1]_vars

(* README: a counter "by endpoint and final HTTP status".  Not for the     *)
(* requests a shutdown cancels: counted as 200, answered with 500.         *)
CancelledCountedAsSent ==
  \A r \in Requests : state[r] = "cancelled" /\ sent[r] # 0 => counted[r] = sent[r]

(* Only a request that gets past both gates costs its client a token: one  *)
(* that is too large, refused or failed before does not.                   *)
OversizeIsFree ==
  [][tokens'[Client] < tokens[Client] =>
       \E r \in Requests : stage[r] = "new" /\ stage'[r] = "parsing"]_vars

(* The shutdown ends, whatever clients and commands do.                    *)
DrainEnds == server = "draining" ~> server = "stopped"
=============================================================================
