---------------------------- MODULE LeaseMailbox ----------------------------
(***************************************************************************)
(* What the asynchronous lease issuer (IAsyncLeaseIssuer) promises its     *)
(* callers, with no threads, locks or events in sight: a submitted request *)
(* waits, is served when nothing else is being served, and leaves one      *)
(* answer that is collected exactly once.  LeaseWorker implements it.      *)
(***************************************************************************)
CONSTANTS
  Requests,        (* everything that can be asked of the issuer           *)
  Answers(_),      (* the answers the blocking issuer may give a request   *)
  Overtakes(_, _), (* Overtakes(p, q): while p waits, q is not started     *)
  None             (* "no answer"                                          *)

VARIABLES
  stage,           (* what became of each request                          *)
  answer           (* the uncollected answer of each request, or None      *)

vars == <<stage, answer>>

Stages == {"idle", "queued", "inFlight", "done"}

Init ==
  /\ stage = [q \in Requests |-> "idle"]
  /\ answer = [q \in Requests |-> None]

Submit(q) ==
  /\ stage[q] = "idle"
  /\ stage' = [stage EXCEPT ![q] = "queued"]
  /\ UNCHANGED answer

\* Requests are served one at a time, and never past one that overtakes them.
Start(q) ==
  /\ stage[q] = "queued"
  /\ \A p \in Requests : stage[p] # "inFlight"
  /\ \A p \in Requests : stage[p] = "queued" => ~Overtakes(p, q)
  /\ stage' = [stage EXCEPT ![q] = "inFlight"]
  /\ UNCHANGED answer

Finish(q) ==
  /\ stage[q] = "inFlight"
  /\ stage' = [stage EXCEPT ![q] = "done"]
  /\ \E a \in Answers(q) : answer' = [answer EXCEPT ![q] = a]

Collect(q) ==
  /\ stage[q] = "done"
  /\ stage' = [stage EXCEPT ![q] = "idle"]
  /\ answer' = [answer EXCEPT ![q] = None]

Next == \E q \in Requests : Submit(q) \/ Start(q) \/ Finish(q) \/ Collect(q)

Spec == Init /\ [][Next]_vars

\* No request is stuck while the issuer is free, and every call ends.
FairSpec ==
  /\ Spec
  /\ WF_vars(\E q \in Requests : Start(q))
  /\ WF_vars(\E q \in Requests : Finish(q))
=============================================================================
