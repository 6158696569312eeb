----------------------------- MODULE LeaseWorker -----------------------------
(***************************************************************************)
(* Lease/ThreadWorker: the mailbox between callers of the lease service    *)
(* (on any thread) and the lease thread, which alone talks to the blocking *)
(* issuer.  A caller marks a request under m_Mutex, drops the mutex and    *)
(* then posts a ProcessPending event to the lease thread; the lease thread *)
(* scans the maps under the mutex, calls the issuer WITHOUT it, and takes  *)
(* it again to store the answer.                                           *)
(*                                                                         *)
(* A request is <<kind, key>>: the three maps of the code are one function *)
(* over tagged keys.  An entry that is absent from a map and a default     *)
(* RequestState behave alike, so the flags are sets and a function.        *)
(***************************************************************************)
EXTENDS Naturals, FiniteSets

CONSTANTS
  Resources,     (* lease resources, the keys of m_AcquireStates           *)
  LeaseIds,      (* lease ids, the keys of m_RenewStates, m_ReleaseStates  *)
  Callers,       (* threads that call the IAsyncLeaseIssuer interface      *)
  IssuerErrors,  (* error conditions the blocking issuer may answer with   *)
  MaxPosted,     (* bound on ProcessPending events waiting in the queue    *)
  None           (* an absent value: no answer, no request                 *)

ASSUME LeaseWorkerAssumption ==
  /\ MaxPosted \in Nat \ {0}
  /\ IssuerErrors \subseteq {"failed", "notReady"}
  /\ LeaseIds \cap {"failed", "notReady", "ok"} = {}
  /\ None \notin LeaseIds \cup {"failed", "notReady", "ok"}

VARIABLES
  queued,        (* requests whose IsQueued is set                         *)
  inFlight,      (* requests whose IsInFlight is set                       *)
  completed,     (* Completed of each request; None when it has no value *)
  posting,       (* callers between the unlock in Enqueue and invokeMethod *)
  posted,        (* ProcessPending events in the lease thread's queue      *)
  pc,            (* where the lease thread is in ProcessPending            *)
  current        (* the request it has taken out, None outside a call    *)

workerVars == <<queued, inFlight, completed, posting, posted, pc, current>>

Requests ==
  ({"acquire"} \X Resources) \cup ({"renew", "release"} \X LeaseIds)

\* What the blocking issuer may answer: an acquire is granted a lease id.
Answers(q) ==
  IssuerErrors \cup (IF q[1] = "acquire" THEN LeaseIds ELSE {"ok"})

AllAnswers == IssuerErrors \cup LeaseIds \cup {"ok"}

\* ProcessPending looks for acquires first, then renewals, then releases.
Overtakes(p, q) ==
  \/ p[1] = "acquire" /\ q[1] # "acquire"
  \/ p[1] = "renew" /\ q[1] = "release"

Busy(q) == q \in queued \/ q \in inFlight \/ completed[q] # None

Init ==
  /\ queued = {}
  /\ inFlight = {}
  /\ completed = [q \in Requests |-> None]
  /\ posting = {}
  /\ posted = 0
  /\ pc = "idle"
  /\ current = None

-----------------------------------------------------------------------------
(* The callers' side.                                                      *)

\* The critical section of EnqueueXLease when it does not return false.
Enqueue(c, q) ==
  /\ c \notin posting
  /\ ~Busy(q)
  /\ queued' = queued \cup {q}
  /\ posting' = posting \cup {c}
  /\ UNCHANGED <<inFlight, completed, posted, pc, current>>

\* ScheduleProcessPending, after the mutex was dropped.
Post(c) ==
  /\ c \in posting
  /\ posted < MaxPosted
  /\ posted' = posted + 1
  /\ posting' = posting \ {c}
  /\ UNCHANGED <<queued, inFlight, completed, pc, current>>

\* TryTakeXLeaseResult of a request that has an answer.
TryTake(c, q) ==
  /\ c \notin posting
  /\ completed[q] # None
  /\ completed' = [completed EXCEPT ![q] = None]
  /\ UNCHANGED <<queued, inFlight, posting, posted, pc, current>>

-----------------------------------------------------------------------------
(* The lease thread.                                                       *)

\* Mutant: ProcessPending runs without an event.
Dispatch_NoEvent ==
  /\ pc = "idle"
  /\ posted' = posted - 1
  /\ pc' = "scan"
  /\ UNCHANGED <<queued, inFlight, completed, posting, current>>

\* Its event loop delivers one ProcessPending event.
Dispatch ==
  /\ pc = "idle"
  /\ posted > 0
  /\ posted' = posted - 1
  /\ pc' = "scan"
  /\ UNCHANGED <<queued, inFlight, completed, posting, current>>

\* Mutant: the three maps are scanned in any order.
Pick_NoPriority(q) ==
  /\ pc = "scan"
  /\ q \in queued \ inFlight
  /\ queued' = queued \ {q}
  /\ inFlight' = inFlight \cup {q}
  /\ current' = q
  /\ pc' = "call"
  /\ UNCHANGED <<completed, posting, posted>>

\* The scan finds work; the maps are unordered, so any request of the first
\* kind that has one.
Pick(q) ==
  /\ pc = "scan"
  /\ q \in queued \ inFlight
  /\ \A p \in queued \ inFlight : ~Overtakes(p, q)
  /\ queued' = queued \ {q}
  /\ inFlight' = inFlight \cup {q}
  /\ current' = q
  /\ pc' = "call"
  /\ UNCHANGED <<completed, posting, posted>>

\* The issuer returns; the answer is stored and the loop continues.
Complete(a) ==
  /\ pc = "call"
  /\ a \in Answers(current)
  /\ inFlight' = inFlight \ {current}
  /\ completed' = [completed EXCEPT ![current] = a]
  /\ current' = None
  /\ pc' = "scan"
  /\ UNCHANGED <<queued, posting, posted>>

\* Mutant: m_ReleaseStates is not scanned before ProcessPending returns.
Drained_ReleasesUnscanned ==
  /\ pc = "scan"
  /\ \A q \in queued \ inFlight : q[1] = "release"
  /\ pc' = "idle"
  /\ UNCHANGED <<queued, inFlight, completed, posting, posted, current>>

\* The scan finds nothing and ProcessPending returns.
Drained ==
  /\ pc = "scan"
  /\ queued \ inFlight = {}
  /\ pc' = "idle"
  /\ UNCHANGED <<queued, inFlight, completed, posting, posted, current>>

LeaseThread ==
  \/ Dispatch
  \/ \E q \in Requests : Pick(q)
  \/ \E a \in AllAnswers : Complete(a)
  \/ Drained

Next ==
  \/ LeaseThread
  \/ \E c \in Callers : Post(c)
  \/ \E c \in Callers, q \in Requests : Enqueue(c, q) \/ TryTake(c, q)

Spec == Init /\ [][Next]_workerVars

\* The lease thread's event loop runs and every issuer call ends (gRPC calls
\* carry RpcTimeout); a caller that entered Enqueue leaves it.  Nobody owes
\* the worker another request.
FairSpec ==
  /\ Spec
  /\ WF_workerVars(LeaseThread)
  /\ \A c \in Callers : WF_workerVars(Post(c))

-----------------------------------------------------------------------------
(* Properties.                                                             *)

TypeOK ==
  /\ queued \subseteq Requests
  /\ inFlight \subseteq Requests
  /\ completed \in [Requests -> AllAnswers \cup {None}]
  /\ posting \subseteq Callers
  /\ posted \in 0..MaxPosted
  /\ pc \in {"idle", "scan", "call"}
  /\ current \in Requests \cup {None}

\* An answer can never land on a request that was asked again meanwhile: the
\* three flags of a RequestState exclude each other, although the mutex is
\* dropped during the issuer call.
FlagsExclusive ==
  /\ queued \cap inFlight = {}
  /\ \A q \in queued \cup inFlight : completed[q] = None

\* The issuer is called for one request at a time: the one whose flag is set.
InFlightIsCurrent == inFlight = (IF pc = "call" THEN {current} ELSE {})

\* Wake-ups are not lost: a request never waits while the lease thread sleeps
\* with no event underway (the event is posted after the mutex is dropped).
NoLostWakeup == queued # {} => posted > 0 \/ posting # {} \/ pc # "idle"

\* The worker is an implementation of the mailbox its interface promises.
Mailbox == INSTANCE LeaseMailbox WITH
  answer <- completed,
  stage <- [q \in Requests |-> IF q \in queued THEN "queued"
                               ELSE IF q \in inFlight THEN "inFlight"
                               ELSE IF completed[q] # None THEN "done"
                               ELSE "idle"]

\* Safety: one answer per request, collected once, one call at a time,
\* acquires before renewals before releases.
ImplementsMailbox == Mailbox!Spec

\* With fairness: while a request waits, the lease thread does not rest.
ImplementsFairMailbox == Mailbox!FairSpec
=============================================================================
