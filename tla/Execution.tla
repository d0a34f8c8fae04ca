----------------------------- MODULE Execution -----------------------------
(***************************************************************************)
(* What execute_endpoint promises its caller, without uploads, handles or  *)
(* processes: a call is refused, or runs and ends exactly once, and its    *)
(* output files go or stay with the way it ended.  Executor implements it. *)
(***************************************************************************)
EXTENDS Outcomes

CONSTANTS Requests, Outputs, WaitForPipes

VARIABLES state,  \* "new", "running", an outcome, or "lost" in a crash
          kept    \* the output files of each request that exist

vars == <<state, kept>>

Init ==
  /\ state = [r \in Requests |-> "new"]
  /\ kept = [r \in Requests |-> {}]

Refuse(r, outcome) ==
  /\ state[r] = "new"
  /\ outcome \in Refusals
  /\ state' = [state EXCEPT ![r] = outcome]
  /\ UNCHANGED kept

Accept(r) ==
  /\ state[r] = "new"
  /\ state' = [state EXCEPT ![r] = "running"]
  /\ UNCHANGED kept

(* After these ends, something of the command may still be writing.        *)
Lingering ==
  {"cancelled", "lost"}
    \cup (IF WaitForPipes THEN {} ELSE {"timed_out", "kill_missed", "unlink_failed"})

Produce(r) ==
  /\ state[r] \in {"running"} \cup Lingering
  /\ \E o \in Outputs : kept' = [kept EXCEPT ![r] = @ \cup {o}]
  /\ UNCHANGED state

(* What may be left of some output files; a removal that raised was        *)
(* stopped by one of them.                                                 *)
Leftovers(outcome, files) ==
  {left \in SUBSET files :
     /\ outcome \in Removing => left = {}
     /\ outcome \in Spilling => left # {}
     /\ outcome \in Keeping => left = files}

End(r, outcome) ==
  /\ state[r] = "running"
  /\ outcome \in Removing \cup Spilling \cup Keeping
  /\ state' = [state EXCEPT ![r] = outcome]
  /\ \E left \in Leftovers(outcome, kept[r]) : kept' = [kept EXCEPT ![r] = left]

Crash ==
  /\ \E r \in Requests : state[r] = "running"
  /\ state' = [r \in Requests |-> IF state[r] = "running" THEN "lost" ELSE state[r]]
  /\ UNCHANGED kept

Next ==
  \/ \E r \in Requests :
       \/ \E outcome \in Outcomes : Refuse(r, outcome) \/ End(r, outcome)
       \/ Accept(r) \/ Produce(r)
  \/ Crash

Spec == Init /\ [][Next]_vars

(* Where proc.wait() returns as soon as the child has ended, a call that   *)
(* runs also ends.                                                         *)
Ends(r) == \E outcome \in Outcomes : End(r, outcome)

LiveSpec == Spec /\ \A r \in Requests : WF_vars(Ends(r))
=============================================================================
