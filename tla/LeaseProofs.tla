----------------------------- MODULE LeaseProofs -----------------------------
(***************************************************************************)
(* Theorems about the leases, for every set of resources, lease ids and    *)
(* calling threads: first about LeaseWorker, then about LeaseProxy on top  *)
(* of it, then about LeaseSystem, where clients and a server surround the  *)
(* two.  Each part has an inductive invariant that builds on that of the   *)
(* part before.                                                            *)
(***************************************************************************)
EXTENDS LeaseSystem, TLAPS

(***************************************************************************)
(* The worker.                                                             *)
(***************************************************************************)

\* The inductive invariant: NoLostWakeup needs to know that nothing is in
\* flight when the scan ends, and FlagsExclusive that Complete clears the
\* flag of the only request in flight.
IInv ==
  /\ TypeOK
  /\ FlagsExclusive
  /\ InFlightIsCurrent
  /\ pc = "call" => current \in Requests
  /\ NoLostWakeup

\* What the issuer answers has the type of a stored answer, and is a value.
LEMMA AnswersAreValues ==
  ASSUME NEW q, NEW a \in Answers(q)
  PROVE  a \in AllAnswers /\ a # None
BY LeaseWorkerAssumption DEF Answers, AllAnswers

LEMMA InitIInv == Init => IInv
BY LeaseWorkerAssumption
   DEF Init, IInv, TypeOK, FlagsExclusive, InFlightIsCurrent, NoLostWakeup

LEMMA StepIInv == IInv /\ [Next]_workerVars => IInv'
<1> SUFFICES ASSUME IInv, [Next]_workerVars PROVE IInv'
  OBVIOUS
<1> USE LeaseWorkerAssumption
    DEF IInv, TypeOK, FlagsExclusive, InFlightIsCurrent, NoLostWakeup
<1>1. CASE Dispatch
  BY <1>1 DEF Dispatch
<1>2. ASSUME NEW q \in Requests, Pick(q) PROVE IInv'
  BY <1>2 DEF Pick
<1>3. ASSUME NEW a \in AllAnswers, Complete(a) PROVE IInv'
  <2>1. a \in Answers(current) /\ a # None
    BY <1>3, AnswersAreValues DEF Complete
  <2>2. completed' = [completed EXCEPT ![current] = a] /\ current \in Requests
    BY <1>3 DEF Complete
  <2>3. inFlight' = {} /\ pc' = "scan" /\ queued' = queued
    BY <1>3 DEF Complete
  <2>4. TypeOK'
    BY <1>3, <2>1, <2>2, <2>3 DEF Complete
  <2>5. FlagsExclusive'
    BY <1>3, <2>2, <2>3 DEF Complete
  <2>6. QED
    BY <2>3, <2>4, <2>5
<1>4. CASE Drained
  BY <1>4 DEF Drained
<1>5. ASSUME NEW c \in Callers, Post(c) PROVE IInv'
  BY <1>5 DEF Post
<1>6. ASSUME NEW c \in Callers, NEW q \in Requests, Enqueue(c, q) PROVE IInv'
  BY <1>6 DEF Enqueue, Busy
<1>7. ASSUME NEW c \in Callers, NEW q \in Requests, TryTake(c, q) PROVE IInv'
  <2>1. TypeOK'
    BY <1>7 DEF TryTake
  <2>2. FlagsExclusive'
    BY <1>7 DEF TryTake
  <2>3. QED
    BY <1>7, <2>1, <2>2 DEF TryTake
<1>8. CASE UNCHANGED workerVars
  BY <1>8 DEF workerVars
<1>9. QED
  BY <1>1, <1>2, <1>3, <1>4, <1>5, <1>6, <1>7, <1>8 DEF Next, LeaseThread

LEMMA Inductive == Spec => []IInv
BY InitIInv, StepIInv, PTL DEF Spec

\* The variables keep their types.
THEOREM TypeCorrect == Spec => []TypeOK
<1>1. IInv => TypeOK
  BY DEF IInv
<1>2. QED
  BY <1>1, Inductive, PTL

\* IsQueued, IsInFlight and Completed exclude each other in every entry, with
\* any number of callers and although the issuer is called without the mutex.
THEOREM FlagsAlwaysExclusive == Spec => []FlagsExclusive
<1>1. IInv => FlagsExclusive
  BY DEF IInv
<1>2. QED
  BY <1>1, Inductive, PTL

\* ProcessPending is on its way or running whenever a request waits.
THEOREM WakeupsNeverLost == Spec => []NoLostWakeup
<1>1. IInv => NoLostWakeup
  BY DEF IInv
<1>2. QED
  BY <1>1, Inductive, PTL

-----------------------------------------------------------------------------
(* The refinement of LeaseMailbox.                                         *)

MailboxStep == [Mailbox!Next]_(Mailbox!vars)

LEMMA InitRefines == Init => Mailbox!Init
BY DEF Init, Mailbox!Init

LEMMA StepRefines == IInv /\ [Next]_workerVars => MailboxStep
<1> SUFFICES ASSUME IInv, [Next]_workerVars PROVE MailboxStep
  OBVIOUS
<1> USE LeaseWorkerAssumption
    DEF IInv, TypeOK, FlagsExclusive, InFlightIsCurrent, MailboxStep
<1>1. ASSUME UNCHANGED <<queued, inFlight, completed>> PROVE MailboxStep
  BY <1>1 DEF Mailbox!vars
<1>2. CASE Dispatch
  BY <1>1, <1>2 DEF Dispatch
<1>3. ASSUME NEW q \in Requests, Pick(q) PROVE MailboxStep
  <2>1. Mailbox!Start(q)
    BY <1>3 DEF Pick, Mailbox!Start
  <2>2. QED
    BY <2>1 DEF Mailbox!Next
<1>4. ASSUME NEW a \in AllAnswers, Complete(a) PROVE MailboxStep
  <2>1. PICK q \in Requests : q = current
    BY <1>4 DEF Complete
  <2>2. a \in Answers(q) /\ a # None /\ inFlight = {q}
    BY <1>4, <2>1, AnswersAreValues DEF Complete
  <2>3. Mailbox!Finish(q)
    BY <1>4, <2>1, <2>2 DEF Complete, Mailbox!Finish
  <2>4. QED
    BY <2>3 DEF Mailbox!Next
<1>5. CASE Drained
  BY <1>1, <1>5 DEF Drained
<1>6. ASSUME NEW c \in Callers, Post(c) PROVE MailboxStep
  BY <1>1, <1>6 DEF Post
<1>7. ASSUME NEW c \in Callers, NEW q \in Requests, Enqueue(c, q)
      PROVE  MailboxStep
  <2>1. Mailbox!Submit(q)
    BY <1>7 DEF Enqueue, Busy, Mailbox!Submit
  <2>2. QED
    BY <2>1 DEF Mailbox!Next
<1>8. ASSUME NEW c \in Callers, NEW q \in Requests, TryTake(c, q)
      PROVE  MailboxStep
  <2>1. Mailbox!Collect(q)
    BY <1>8 DEF TryTake, Mailbox!Collect
  <2>2. QED
    BY <2>1 DEF Mailbox!Next
<1>9. CASE UNCHANGED workerVars
  BY <1>1, <1>9 DEF workerVars
<1>10. QED
  BY <1>2, <1>3, <1>4, <1>5, <1>6, <1>7, <1>8, <1>9 DEF Next, LeaseThread

\* Whatever the threads do, a request submitted once is answered once, one
\* issuer call runs at a time, and acquires are served before renewals and
\* renewals before releases.
THEOREM WorkerImplementsMailbox == Spec => ImplementsMailbox
BY InitRefines, StepRefines, Inductive, PTL
   DEF Spec, ImplementsMailbox, Mailbox!Spec, MailboxStep

-----------------------------------------------------------------------------
(***************************************************************************)
(* The proxy and the worker.                                               *)
(***************************************************************************)

InCall(c) == call[c].stage \in {"enqueue", "post"}

\* m_Mutex excludes, and a thread that left Enqueue is about to post.
CallInv ==
  /\ ProxyTypeOK
  /\ \A c \in Callers : InCall(c) => call[c].req \in Requests
  /\ \A c, d \in Callers : InCall(c) /\ InCall(d) => c = d
  /\ posting = {c \in Callers : call[c].stage = "post"}

\* What the worker has is recorded by the proxy, and what the proxy is about
\* to enqueue the worker does not have.
TrackInv ==
  /\ \A q \in Requests : Busy(q) => q \in pending \/ BeingPosted(q)
  /\ \A c \in Callers : call[c].stage = "post" => Busy(call[c].req)
  /\ \A c \in Callers : call[c].stage = "enqueue" => call[c].req \notin pending

\* The converse needs an issuer that does not answer NotReady itself.
PendingIsBusy == \A q \in Requests : q \in pending => Busy(q)

CacheInv ==
  /\ GrantsHaveLeases
  /\ NoSecondAcquire
  /\ \A c \in Callers, r \in Resources :
       call[c].stage = "enqueue" /\ call[c].req = <<"acquire", r>>
         => cachedGrants[r] = None

ProxyInv ==
  /\ IInv
  /\ CallInv
  /\ TrackInv
  /\ "notReady" \notin IssuerErrors => PendingIsBusy
  /\ CacheInv

-----------------------------------------------------------------------------
(* What the steps do to the worker's requests.                             *)

\* The lease thread neither takes requests on nor gives them up.
LEMMA LeaseThreadKeepsBusy ==
  ASSUME IInv, LeaseThread, NEW q \in Requests
  PROVE  Busy(q)' = Busy(q) /\ posting' = posting
<1> USE LeaseWorkerAssumption DEF IInv, TypeOK, FlagsExclusive, InFlightIsCurrent
<1>1. CASE Dispatch
  BY <1>1 DEF Dispatch, Busy
<1>2. ASSUME NEW p \in Requests, Pick(p) PROVE Busy(q)' = Busy(q) /\ posting' = posting
  BY <1>2 DEF Pick, Busy
<1>3. ASSUME NEW a \in AllAnswers, Complete(a)
      PROVE  Busy(q)' = Busy(q) /\ posting' = posting
  <2>1. a # None
    BY <1>3, AnswersAreValues DEF Complete
  <2>2. QED
    BY <1>3, <2>1 DEF Complete, Busy
<1>4. CASE Drained
  BY <1>4 DEF Drained, Busy
<1>5. QED
  BY <1>1, <1>2, <1>3, <1>4 DEF LeaseThread

\* Once its answer is taken a request is no longer with the worker.
LEMMA TakeFrees ==
  ASSUME IInv, NEW c \in Callers, NEW q \in Requests, Take(c, q)
  PROVE  /\ IInv'
         /\ posting' = posting
         /\ Busy(q)' => completed[q] = None /\ Busy(q)
         /\ \A p \in Requests \ {q} : Busy(p)' = Busy(p)
<1>1. [Next]_workerVars
  BY DEF Take, Next
<1>2. IInv'
  BY <1>1, StepIInv
<1>3. QED
  BY <1>2 DEF Take, TryTake, Busy, workerVars, IInv, TypeOK, FlagsExclusive

\* Every call begins like this: it takes what there is, drops the request
\* from pending if it got an answer, and enqueues only what is not pending.
LEMMA CallBegins ==
  ASSUME ProxyInv,
         NEW c \in Callers, NEW q \in Requests,
         NEW s \in {"done", "enqueue"}, NEW a \in Returns,
         Take(c, q), CallGoes(c, q, s, a),
         \/ pending' = pending /\ NotReady(q)
         \/ pending' = pending \ {q} /\ completed[q] # None,
         s = "enqueue" => q \notin pending',
         cachedGrants' \in [Resources -> LeaseIds \cup {None}],
         cachedLeases' \subseteq LeaseIds
  PROVE  /\ IInv'
         /\ CallInv'
         /\ TrackInv'
         /\ "notReady" \notin IssuerErrors => PendingIsBusy'
<1> USE DEF ProxyInv, CallInv, ProxyTypeOK, InCall
<1>1. /\ call[c].stage = "idle"
      /\ \A d \in Callers : ~InCall(d)
  BY DEF Take, Unlocked
<1>2. call' = [call EXCEPT ![c] = [stage |-> s, req |-> q, answer |-> a]]
  BY DEF CallGoes
<1>3. \A d \in Callers : d # c => call'[d] = call[d]
  BY <1>2
<1>4. call'[c] = [stage |-> s, req |-> q, answer |-> a]
  BY <1>2
<1>5. IInv' /\ posting' = posting /\ posting = {}
  BY <1>1, TakeFrees
<1>6. CallInv'
  <2>1. ProxyTypeOK'
    BY <1>2
  <2>2. \A d \in Callers : call'[d].stage # "post"
    BY <1>1, <1>3, <1>4
  <2>3. posting' = {d \in Callers : call'[d].stage = "post"}
    BY <1>5, <2>2
  <2>4. \A d \in Callers : InCall(d)' => d = c /\ call'[d].req = q
    BY <1>1, <1>3, <1>4
  <2>5. QED
    BY <2>1, <2>3, <2>4
<1>7. TrackInv'
  <2>1. \A p \in Requests : ~BeingPosted(p)
    BY <1>1 DEF BeingPosted
  <2>2. ASSUME NEW p \in Requests, Busy(p)' PROVE p \in pending'
    <3>1. CASE p = q
      BY <2>1, <2>2, <3>1, TakeFrees DEF TrackInv
    <3>2. CASE p # q
      BY <2>1, <2>2, <3>2, TakeFrees DEF TrackInv
    <3>3. QED
      BY <3>1, <3>2
  <2>3. QED
    BY <1>1, <1>3, <1>4, <2>2 DEF TrackInv
<1>8. ASSUME "notReady" \notin IssuerErrors PROVE PendingIsBusy'
  <2>1. completed[q] # "notReady"
    BY <1>8, LeaseWorkerAssumption
       DEF IInv, TypeOK, AllAnswers
  <2>2. Busy(q) /\ completed[q] = None => Busy(q)'
    BY DEF Take, TryTake, Busy, workerVars
  <2>3. QED
    BY <1>8, <2>1, <2>2, TakeFrees DEF PendingIsBusy, NotReady
<1>9. QED
  BY <1>5, <1>6, <1>7, <1>8

-----------------------------------------------------------------------------
(* The three calls.                                                        *)

LEMMA CacheAfterTake ==
  ASSUME ProxyInv, NEW c \in Callers, NEW q \in Requests, Take(c, q),
         NEW s \in {"done", "enqueue"}, NEW a \in Returns, CallGoes(c, q, s, a),
         s = "enqueue" => \A r \in Resources :
                            q = <<"acquire", r>> => cachedGrants'[r] = None,
         \A r \in Resources :
           cachedGrants'[r] # None =>
             /\ cachedGrants'[r] \in cachedLeases'
             /\ \/ cachedGrants[r] = cachedGrants'[r]
                \/ q = <<"acquire", r>> /\ completed[q] # None
  PROVE  CacheInv'
<1> USE DEF ProxyInv, CacheInv
<1>1. GrantsHaveLeases'
  BY DEF GrantsHaveLeases
<1>2. NoSecondAcquire'
  <2> SUFFICES ASSUME NEW r \in Resources, cachedGrants'[r] # None
               PROVE  ~Busy(<<"acquire", r>>)'
    BY DEF NoSecondAcquire
  <2>1. <<"acquire", r>> \in Requests
    BY DEF Requests
  <2>2. CASE cachedGrants[r] = cachedGrants'[r]
    BY <2>1, <2>2, TakeFrees DEF NoSecondAcquire
  <2>3. CASE q = <<"acquire", r>> /\ completed[q] # None
    BY <2>1, <2>3, TakeFrees
  <2>4. QED
    BY <2>2, <2>3
<1>3. ASSUME NEW d \in Callers, NEW r \in Resources,
             call'[d].stage = "enqueue", call'[d].req = <<"acquire", r>>
      PROVE  cachedGrants'[r] = None
  <2>1. call[d].stage # "enqueue" /\ call[c].stage = "idle"
    BY DEF Take, Unlocked
  <2>2. d = c /\ s = "enqueue" /\ q = <<"acquire", r>>
    BY <1>3, <2>1 DEF CallGoes, CallInv, ProxyTypeOK
  <2>3. QED
    BY <2>2
<1>4. QED
  BY <1>1, <1>2, <1>3

LEMMA AcquireKeepsInv ==
  ASSUME ProxyInv, NEW c \in Callers, NEW r \in Resources, AcquireLease(c, r)
  PROVE  ProxyInv'
<1> DEFINE q == <<"acquire", r>>
<1>1. /\ q \in Requests
      /\ \A x \in Resources : q = <<"acquire", x>> => x = r
  BY DEF Requests
<1> HIDE DEF q
<1>2. /\ cachedGrants \in [Resources -> LeaseIds \cup {None}]
      /\ cachedLeases \subseteq LeaseIds
      /\ GrantsHaveLeases
  BY DEF ProxyInv, CallInv, ProxyTypeOK, CacheInv
<1>3. CASE AcquireGranted(c, r)
  <2>1. PICK g \in LeaseIds : g = completed[q]
    BY <1>3 DEF AcquireGranted, q
  <2>2. /\ Take(c, q)
        /\ pending' = pending \ {q}
        /\ cachedGrants' = [cachedGrants EXCEPT ![r] = g]
        /\ cachedLeases' = cachedLeases \cup {g}
        /\ CallGoes(c, q, "done", g)
    BY <1>3, <2>1 DEF AcquireGranted, CallGoes, q
  <2>3. g \in Returns /\ completed[q] # None
    BY <2>1, LeaseWorkerAssumption DEF Returns
  <2>4. CacheInv'
    <3>1. \A x \in Resources :
            cachedGrants'[x] # None =>
              /\ cachedGrants'[x] \in cachedLeases'
              /\ \/ cachedGrants[x] = cachedGrants'[x]
                 \/ q = <<"acquire", x>> /\ completed[q] # None
      BY <1>2, <2>2, <2>3 DEF GrantsHaveLeases, q
    <3>2. QED
      BY <1>1, <2>2, <2>3, <3>1, CacheAfterTake
  <2>5. QED
    BY <1>1, <1>2, <2>2, <2>3, <2>4, CallBegins DEF ProxyInv
<1>4. CASE AcquireFailed(c, r)
  <2>1. /\ completed[q] = "failed" /\ Take(c, q)
        /\ pending' = pending \ {q}
        /\ CallGoes(c, q, "done", "failed")
        /\ cachedGrants' = cachedGrants /\ cachedLeases' = cachedLeases
    BY <1>4 DEF AcquireFailed, q
  <2>2. "failed" \in Returns /\ completed[q] # None
    BY <2>1, LeaseWorkerAssumption DEF Returns
  <2>3. CacheInv'
    BY <1>1, <1>2, <2>1, <2>2, CacheAfterTake DEF GrantsHaveLeases
  <2>4. QED
    BY <1>1, <1>2, <2>1, <2>2, <2>3, CallBegins DEF ProxyInv
<1>5. CASE AcquireNotReady(c, r)
  <2>1. PICK s \in {"done", "enqueue"}, a \in Returns :
          /\ CallGoes(c, q, s, a)
          /\ s = "enqueue" => cachedGrants[r] = None /\ q \notin pending
    BY <1>2, <1>5 DEF AcquireNotReady, CallGoes, q, Returns
  <2>2. /\ NotReady(q) /\ Take(c, q) /\ pending' = pending
        /\ cachedGrants' = cachedGrants /\ cachedLeases' = cachedLeases
    BY <1>5 DEF AcquireNotReady, q
  <2>3. CacheInv'
    BY <1>1, <1>2, <2>1, <2>2, CacheAfterTake DEF GrantsHaveLeases
  <2>4. QED
    BY <1>1, <1>2, <2>1, <2>2, <2>3, CallBegins DEF ProxyInv
<1>6. QED
  BY <1>3, <1>4, <1>5 DEF AcquireLease

\* A lease that leaves the cache leaves it together with its grants.
LEMMA InvalidateKeepsCache ==
  ASSUME cachedGrants \in [Resources -> LeaseIds \cup {None}],
         cachedLeases \subseteq LeaseIds, GrantsHaveLeases,
         NEW id, InvalidateLeaseCache(id)
  PROVE  /\ cachedGrants' \in [Resources -> LeaseIds \cup {None}]
         /\ cachedLeases' \subseteq LeaseIds
         /\ \A r \in Resources :
              cachedGrants'[r] # None =>
                /\ cachedGrants'[r] \in cachedLeases'
                /\ cachedGrants[r] = cachedGrants'[r]
BY DEF InvalidateLeaseCache, GrantsHaveLeases

LEMMA RenewKeepsInv ==
  ASSUME ProxyInv, NEW c \in Callers, NEW id \in LeaseIds, RenewLease(c, id)
  PROVE  ProxyInv'
<1> DEFINE q == <<"renew", id>>
<1>1. /\ q \in Requests
      /\ \A x \in Resources : q # <<"acquire", x>>
  BY DEF Requests
<1> HIDE DEF q
<1>2. /\ cachedGrants \in [Resources -> LeaseIds \cup {None}]
      /\ cachedLeases \subseteq LeaseIds
      /\ GrantsHaveLeases
  BY DEF ProxyInv, CallInv, ProxyTypeOK, CacheInv
<1>3. CASE RenewOk(c, id)
  <2>1. /\ completed[q] = "ok" /\ Take(c, q)
        /\ pending' = pending \ {q}
        /\ CallGoes(c, q, "enqueue", "ok")
        /\ cachedGrants' = cachedGrants
        /\ cachedLeases' = cachedLeases \cup {id}
    BY <1>3 DEF RenewOk, q
  <2>2. "ok" \in Returns /\ completed[q] # None
    BY <2>1, LeaseWorkerAssumption DEF Returns
  <2>3. CacheInv'
    BY <1>1, <1>2, <2>1, <2>2, CacheAfterTake DEF GrantsHaveLeases
  <2>4. QED
    BY <1>1, <1>2, <2>1, <2>2, <2>3, CallBegins DEF ProxyInv
<1>4. CASE RenewFailed(c, id)
  <2>1. /\ completed[q] = "failed" /\ Take(c, q)
        /\ pending' = pending \ {q}
        /\ CallGoes(c, q, "done", "failed")
        /\ InvalidateLeaseCache(id)
    BY <1>4 DEF RenewFailed, q
  <2>2. "failed" \in Returns /\ completed[q] # None
    BY <2>1, LeaseWorkerAssumption DEF Returns
  <2>3. CacheInv'
    BY <1>1, <1>2, <2>1, <2>2, CacheAfterTake, InvalidateKeepsCache
  <2>4. QED
    BY <1>1, <1>2, <2>1, <2>2, <2>3, CallBegins, InvalidateKeepsCache DEF ProxyInv
<1>5. CASE RenewNotReady(c, id)
  <2>1. PICK s \in {"done", "enqueue"}, a \in Returns :
          /\ CallGoes(c, q, s, a)
          /\ s = "enqueue" => q \notin pending
    BY <1>5 DEF RenewNotReady, q, Returns
  <2>2. /\ NotReady(q) /\ Take(c, q) /\ pending' = pending
        /\ cachedGrants' = cachedGrants /\ cachedLeases' = cachedLeases
    BY <1>5 DEF RenewNotReady, q
  <2>3. CacheInv'
    BY <1>1, <1>2, <2>1, <2>2, CacheAfterTake DEF GrantsHaveLeases
  <2>4. QED
    BY <1>1, <1>2, <2>1, <2>2, <2>3, CallBegins DEF ProxyInv
<1>6. QED
  BY <1>3, <1>4, <1>5 DEF RenewLease

LEMMA ReleaseKeepsInv ==
  ASSUME ProxyInv, NEW c \in Callers, NEW id \in LeaseIds, ReleaseLease(c, id)
  PROVE  ProxyInv'
<1> DEFINE q == <<"release", id>>
<1>1. /\ q \in Requests
      /\ \A x \in Resources : q # <<"acquire", x>>
  BY DEF Requests
<1> HIDE DEF q
<1>2. /\ cachedGrants \in [Resources -> LeaseIds \cup {None}]
      /\ cachedLeases \subseteq LeaseIds
      /\ GrantsHaveLeases
  BY DEF ProxyInv, CallInv, ProxyTypeOK, CacheInv
<1>3. CASE ReleaseOk(c, id) \/ ReleaseFailed(c, id)
  <2>1. PICK a \in {"ok", "failed"} :
          /\ completed[q] = a /\ Take(c, q)
          /\ pending' = pending \ {q}
          /\ CallGoes(c, q, "done", a)
          /\ \/ InvalidateLeaseCache(id)
             \/ cachedGrants' = cachedGrants /\ cachedLeases' = cachedLeases
    BY <1>3 DEF ReleaseOk, ReleaseFailed, q
  <2>2. a \in Returns /\ completed[q] # None
    BY <2>1, LeaseWorkerAssumption DEF Returns
  <2>3. /\ cachedGrants' \in [Resources -> LeaseIds \cup {None}]
        /\ cachedLeases' \subseteq LeaseIds
    BY <1>2, <2>1, InvalidateKeepsCache
  <2>4. CacheInv'
    BY <1>1, <1>2, <2>1, <2>2, CacheAfterTake, InvalidateKeepsCache
       DEF GrantsHaveLeases
  <2>5. QED
    BY <1>1, <2>1, <2>2, <2>3, <2>4, CallBegins DEF ProxyInv
<1>4. CASE ReleaseNotReady(c, id)
  <2>1. PICK s \in {"done", "enqueue"}, a \in Returns :
          /\ CallGoes(c, q, s, a)
          /\ s = "enqueue" => q \notin pending
          /\ \/ InvalidateLeaseCache(id)
             \/ cachedGrants' = cachedGrants /\ cachedLeases' = cachedLeases
    BY <1>4 DEF ReleaseNotReady, q, Returns
  <2>2. NotReady(q) /\ Take(c, q) /\ pending' = pending
    BY <1>4 DEF ReleaseNotReady, q
  <2>3. /\ cachedGrants' \in [Resources -> LeaseIds \cup {None}]
        /\ cachedLeases' \subseteq LeaseIds
    BY <1>2, <2>1, InvalidateKeepsCache
  <2>4. CacheInv'
    BY <1>1, <1>2, <2>1, <2>2, CacheAfterTake, InvalidateKeepsCache
       DEF GrantsHaveLeases
  <2>5. QED
    BY <1>1, <2>1, <2>2, <2>3, <2>4, CallBegins DEF ProxyInv
<1>5. QED
  BY <1>3, <1>4 DEF ReleaseLease

-----------------------------------------------------------------------------
(* The steps after the first.                                              *)

\* What is about to be enqueued is not with the worker: a busy request is
\* pending or being posted, and m_Mutex admits no second thread.
LEMMA InvNeverRefused == ProxyInv => NeverRefused
<1> SUFFICES ASSUME ProxyInv, NEW c \in Callers, call[c].stage = "enqueue"
             PROVE  ~Busy(call[c].req)
  BY DEF NeverRefused
<1>1. call[c].req \in Requests /\ call[c].req \notin pending
  BY DEF ProxyInv, CallInv, TrackInv, InCall
<1>2. ~BeingPosted(call[c].req)
  BY DEF BeingPosted, ProxyInv, CallInv, InCall
<1>3. QED
  BY <1>1, <1>2 DEF ProxyInv, TrackInv

LEMMA MarkKeepsInv ==
  ASSUME ProxyInv, NEW c \in Callers, EnqueueMarks(c)
  PROVE  ProxyInv'
<1>1. PICK q \in Requests : q = call[c].req
  BY DEF EnqueueMarks, ProxyInv, CallInv, InCall
<1>2. PICK a \in Returns \cup {None} : a = call[c].answer
  BY DEF ProxyInv, CallInv, ProxyTypeOK
<1>3. /\ call[c].stage = "enqueue"
      /\ Enqueue(c, q) /\ ~Busy(q)
      /\ call' = [call EXCEPT ![c] = [stage |-> "post", req |-> q, answer |-> a]]
      /\ UNCHANGED <<cachedGrants, cachedLeases, pending>>
  BY <1>1, <1>2, InvNeverRefused DEF EnqueueMarks, NeverRefused, CallGoes, Enqueue, Busy
<1>4. IInv'
  BY <1>3, StepIInv DEF ProxyInv, Next
<1>5. /\ posting' = posting \cup {c}
      /\ Busy(q)'
      /\ \A p \in Requests \ {q} : Busy(p)' = Busy(p)
  BY <1>3 DEF Enqueue, Busy
<1>6. /\ call'[c] = [stage |-> "post", req |-> q, answer |-> a]
      /\ \A d \in Callers : d # c => call'[d] = call[d] /\ ~InCall(d)
  BY <1>3 DEF ProxyInv, CallInv, ProxyTypeOK, InCall
<1>7. CallInv'
  <2>1. ProxyTypeOK'
    BY <1>3 DEF ProxyInv, CallInv, ProxyTypeOK
  <2>2. posting' = {d \in Callers : call'[d].stage = "post"}
    BY <1>3, <1>5, <1>6 DEF ProxyInv, CallInv, InCall
  <2>3. QED
    BY <1>6, <2>1, <2>2 DEF CallInv, InCall
<1>8. TrackInv'
  <2>1. \A p \in Requests : ~BeingPosted(p)
    BY <1>3, <1>6 DEF BeingPosted, InCall
  <2>2. BeingPosted(q)'
    BY <1>6 DEF BeingPosted
  <2>3. QED
    BY <1>3, <1>5, <1>6, <2>1, <2>2 DEF ProxyInv, TrackInv, InCall
<1>9. "notReady" \notin IssuerErrors => PendingIsBusy'
  BY <1>3, <1>5 DEF ProxyInv, PendingIsBusy
<1>10. CacheInv'
  <2>1. \A r \in Resources : cachedGrants[r] # None => q # <<"acquire", r>>
    BY <1>1, <1>3 DEF ProxyInv, CacheInv
  <2>2. \A r \in Resources : <<"acquire", r>> \in Requests
    BY DEF Requests
  <2>3. NoSecondAcquire'
    BY <1>3, <1>5, <2>1, <2>2 DEF ProxyInv, CacheInv, NoSecondAcquire
  <2>4. GrantsHaveLeases'
    BY <1>3 DEF ProxyInv, CacheInv, GrantsHaveLeases
  <2>5. QED
    BY <1>6, <2>3, <2>4 DEF CacheInv, InCall
<1>11. QED
  BY <1>4, <1>7, <1>8, <1>9, <1>10 DEF ProxyInv

LEMMA PostKeepsInv ==
  ASSUME ProxyInv, NEW c \in Callers, EnqueuePosts(c)
  PROVE  ProxyInv'
<1>1. PICK q \in Requests : q = call[c].req
  BY DEF EnqueuePosts, ProxyInv, CallInv, InCall
<1>2. PICK a \in Returns \cup {None} : a = call[c].answer
  BY DEF ProxyInv, CallInv, ProxyTypeOK
<1>3. /\ call[c].stage = "post" /\ Post(c)
      /\ pending' = pending \cup {q}
      /\ call' = [call EXCEPT ![c] = [stage |-> "done", req |-> q, answer |-> a]]
      /\ UNCHANGED <<cachedGrants, cachedLeases>>
  BY <1>1, <1>2 DEF EnqueuePosts, CallGoes
<1>4. IInv'
  BY <1>3, StepIInv DEF ProxyInv, Next
<1>5. /\ posting' = posting \ {c}
      /\ \A p \in Requests : Busy(p)' = Busy(p)
  BY <1>3 DEF Post, Busy
<1>6. /\ call'[c] = [stage |-> "done", req |-> q, answer |-> a]
      /\ \A d \in Callers : d # c => call'[d] = call[d] /\ ~InCall(d)
  BY <1>3 DEF ProxyInv, CallInv, ProxyTypeOK, InCall
<1>7. CallInv'
  <2>1. ProxyTypeOK'
    BY <1>3 DEF ProxyInv, CallInv, ProxyTypeOK
  <2>2. posting' = {d \in Callers : call'[d].stage = "post"}
    BY <1>3, <1>5, <1>6 DEF ProxyInv, CallInv, InCall
  <2>3. QED
    BY <1>6, <2>1, <2>2 DEF CallInv, InCall
<1>8. Busy(q)
  BY <1>1, <1>3 DEF ProxyInv, TrackInv
<1>9. TrackInv'
  <2>1. \A p \in Requests : BeingPosted(p) => p = q
    BY <1>1, <1>3, <1>6 DEF BeingPosted, InCall
  <2>2. QED
    BY <1>3, <1>5, <1>6, <2>1 DEF ProxyInv, TrackInv, InCall
<1>10. "notReady" \notin IssuerErrors => PendingIsBusy'
  BY <1>3, <1>5, <1>8 DEF ProxyInv, PendingIsBusy
<1>11. CacheInv'
  <2>1. \A r \in Resources : <<"acquire", r>> \in Requests
    BY DEF Requests
  <2>2. QED
    BY <1>3, <1>5, <1>6, <2>1
       DEF ProxyInv, CacheInv, NoSecondAcquire, GrantsHaveLeases, InCall
<1>12. QED
  BY <1>4, <1>7, <1>9, <1>10, <1>11 DEF ProxyInv

\* Steps that leave the caches alone and no thread's place inside the proxy.
LEMMA OtherKeepsInv ==
  ASSUME ProxyInv, IInv', posting' = posting,
         \A q \in Requests : Busy(q)' = Busy(q),
         UNCHANGED <<cachedGrants, cachedLeases, pending>>,
         ProxyTypeOK',
         \A c \in Callers : \/ call'[c] = call[c]
                            \/ ~InCall(c) /\ call'[c].stage = "idle"
  PROVE  ProxyInv'
<1>1. CallInv'
  <2>1. posting' = {d \in Callers : call'[d].stage = "post"}
    BY DEF ProxyInv, CallInv, InCall
  <2>2. QED
    BY <2>1 DEF ProxyInv, CallInv, InCall
<1>2. TrackInv'
  <2>1. \A q \in Requests : BeingPosted(q) => BeingPosted(q)'
    BY DEF BeingPosted, InCall
  <2>2. ASSUME NEW c \in Callers, call'[c].stage = "post" PROVE Busy(call[c].req)'
    <3>1. call'[c] = call[c] /\ InCall(c)
      BY <2>2 DEF InCall
    <3>2. PICK q \in Requests : q = call[c].req
      BY <3>1 DEF ProxyInv, CallInv
    <3>3. Busy(q)
      BY <2>2, <3>1, <3>2 DEF ProxyInv, TrackInv
    <3>4. call'[c].req = q /\ Busy(q)'
      BY <3>1, <3>2, <3>3
    <3>5. QED
      BY <3>4 DEF Busy
  <2>3. \A q \in Requests : Busy(q)' => q \in pending' \/ BeingPosted(q)'
    BY <2>1 DEF ProxyInv, TrackInv
  <2>4. \A c \in Callers :
          call'[c].stage = "enqueue" => call'[c].req \notin pending'
    BY DEF ProxyInv, TrackInv
  <2>5. QED
    BY <2>2, <2>3, <2>4 DEF TrackInv
<1>3. "notReady" \notin IssuerErrors => PendingIsBusy'
  BY DEF ProxyInv, PendingIsBusy
<1>4. CacheInv'
  <2>1. \A r \in Resources : <<"acquire", r>> \in Requests
    BY DEF Requests
  <2>2. QED
    BY <2>1 DEF ProxyInv, CacheInv, NoSecondAcquire, GrantsHaveLeases
<1>5. QED
  BY <1>1, <1>2, <1>3, <1>4 DEF ProxyInv

-----------------------------------------------------------------------------
LEMMA ProxyInitInv == ProxyInit => ProxyInv
<1> SUFFICES ASSUME ProxyInit PROVE ProxyInv
  OBVIOUS
<1>1. IInv
  BY InitIInv DEF ProxyInit
<1>2. /\ \A q \in Requests : ~Busy(q)
      /\ \A c \in Callers : call[c] = NoCall
      /\ posting = {} /\ pending = {}
      /\ \A r \in Resources : cachedGrants[r] = None
  BY DEF ProxyInit, Init, Busy
<1>3. CallInv
  BY <1>2 DEF CallInv, ProxyTypeOK, InCall, NoCall, ProxyInit
<1>4. QED
  BY <1>1, <1>2, <1>3
     DEF ProxyInv, TrackInv, PendingIsBusy, CacheInv, NoSecondAcquire,
         GrantsHaveLeases, NoCall

LEMMA ProxyStepInv == ProxyInv /\ [ProxyNext]_allProxyVars => ProxyInv'
<1> SUFFICES ASSUME ProxyInv, [ProxyNext]_allProxyVars PROVE ProxyInv'
  OBVIOUS
<1>1. CASE LeaseThread /\ UNCHANGED proxyVars
  <2>1. IInv'
    BY <1>1, StepIInv DEF ProxyInv, Next
  <2>2. \A q \in Requests : Busy(q)' = Busy(q)
    BY <1>1, LeaseThreadKeepsBusy DEF ProxyInv
  <2>3. posting' = posting
    BY <1>1 DEF LeaseThread, Dispatch, Pick, Complete, Drained
  <2>4. ProxyTypeOK'
    BY <1>1 DEF ProxyInv, CallInv, ProxyTypeOK, proxyVars
  <2>5. QED
    BY <1>1, <2>1, <2>2, <2>3, <2>4, OtherKeepsInv DEF proxyVars
<1>2. ASSUME NEW c \in Callers, Return(c) PROVE ProxyInv'
  <2>1. IInv' /\ posting' = posting /\ \A q \in Requests : Busy(q)' = Busy(q)
    BY <1>2, StepIInv DEF Return, ProxyInv, workerVars, Busy
  <2>2. ProxyTypeOK'
    BY <1>2 DEF Return, NoCall, ProxyInv, CallInv, ProxyTypeOK
  <2>3. \A d \in Callers : \/ call'[d] = call[d]
                           \/ ~InCall(d) /\ call'[d].stage = "idle"
    BY <1>2 DEF Return, NoCall, InCall, ProxyInv, CallInv, ProxyTypeOK
  <2>4. QED
    BY <1>2, <2>1, <2>2, <2>3, OtherKeepsInv DEF Return
<1>3. CASE UNCHANGED allProxyVars
  <2>1. IInv' /\ posting' = posting /\ \A q \in Requests : Busy(q)' = Busy(q)
    BY <1>3, StepIInv DEF ProxyInv, allProxyVars, workerVars, Busy
  <2>2. ProxyTypeOK'
    BY <1>3 DEF ProxyInv, CallInv, ProxyTypeOK, allProxyVars, proxyVars
  <2>3. QED
    BY <1>3, <2>1, <2>2, OtherKeepsInv DEF allProxyVars, proxyVars
<1>4. QED
  BY <1>1, <1>2, <1>3, AcquireKeepsInv, RenewKeepsInv, ReleaseKeepsInv,
     MarkKeepsInv, PostKeepsInv DEF ProxyNext, FinishCall

LEMMA ProxyInductive == ProxySpec => []ProxyInv
BY ProxyInitInv, ProxyStepInv, PTL DEF ProxySpec

-----------------------------------------------------------------------------
\* The proxy's variables keep their types.
THEOREM ProxyTypeCorrect == ProxySpec => []ProxyTypeOK
<1>1. ProxyInv => ProxyTypeOK
  BY DEF ProxyInv, CallInv
<1>2. QED
  BY <1>1, ProxyInductive, PTL

\* The worker never refuses a request of the proxy, whatever the issuer says.
THEOREM WorkerNeverRefuses == ProxySpec => []NeverRefused
BY InvNeverRefused, ProxyInductive, PTL

\* No second lease is ever acquired beside a cached one.
THEOREM OneLeasePerResource == ProxySpec => []NoSecondAcquire
<1>1. ProxyInv => NoSecondAcquire
  BY DEF ProxyInv, CacheInv
<1>2. QED
  BY <1>1, ProxyInductive, PTL

\* A cached grant always has its lease in the cache too.
THEOREM CachesAgree == ProxySpec => []GrantsHaveLeases
<1>1. ProxyInv => GrantsHaveLeases
  BY DEF ProxyInv, CacheInv
<1>2. QED
  BY <1>1, ProxyInductive, PTL

\* If the blocking issuer never answers NotReady itself, what the proxy has
\* recorded as pending is exactly what the worker has.
THEOREM ProxyAndWorkerAgree ==
  ASSUME "notReady" \notin IssuerErrors
  PROVE  ProxySpec => []PendingTracked
<1>1. ProxyInv => PendingTracked
  <2> SUFFICES ASSUME ProxyInv, NEW q \in Requests
               PROVE  Busy(q) <=> q \in pending \/ BeingPosted(q)
    BY DEF PendingTracked
  <2>1. BeingPosted(q) => Busy(q)
    BY DEF ProxyInv, TrackInv, BeingPosted
  <2>2. QED
    BY <2>1 DEF ProxyInv, TrackInv, PendingIsBusy
<1>2. QED
  BY <1>1, ProxyInductive, PTL

\* A request that such an answer wedged can be neither taken, having no
\* answer, nor enqueued again, being pending: it stays wedged.
THEOREM NotReadyWedgesForEver == ProxySpec => NotReadyWedges
<1>1. ASSUME ProxyInv, [ProxyNext]_allProxyVars, NEW q \in Requests, Wedged(q)
      PROVE  Wedged(q)'
  <2>1. q \in pending /\ ~Busy(q) /\ completed[q] = None
    BY <1>1 DEF Wedged, Busy
  <2>2. ASSUME NEW c \in Callers, NEW p \in Requests, Take(c, p)
        PROVE  ~Busy(q)'
    BY <1>1, <2>1, <2>2, TakeFrees DEF ProxyInv
  <2>3. ASSUME NEW c \in Callers, NEW r \in Resources, AcquireLease(c, r)
        PROVE  Wedged(q)'
    <3>1. PICK p \in Requests : p = <<"acquire", r>>
      BY DEF Requests
    <3>2. /\ Take(c, p)
          /\ \/ pending' = pending
             \/ pending' = pending \ {p} /\ completed[p] # None
      <4>1. CASE AcquireGranted(c, r)
        BY <3>1, <4>1, LeaseWorkerAssumption DEF AcquireGranted
      <4>2. CASE AcquireFailed(c, r)
        BY <3>1, <4>2, LeaseWorkerAssumption DEF AcquireFailed
      <4>3. CASE AcquireNotReady(c, r)
        BY <3>1, <4>3 DEF AcquireNotReady
      <4>4. QED
        BY <2>3, <4>1, <4>2, <4>3 DEF AcquireLease
    <3>3. QED
      BY <2>1, <2>2, <3>2 DEF Wedged
  <2>4. ASSUME NEW c \in Callers, NEW id \in LeaseIds,
               RenewLease(c, id) \/ ReleaseLease(c, id)
        PROVE  Wedged(q)'
    <3>1. PICK p \in Requests :
            /\ Take(c, p)
            /\ \/ pending' = pending
               \/ pending' = pending \ {p} /\ completed[p] # None
      <4>1. <<"renew", id>> \in Requests /\ <<"release", id>> \in Requests
        BY DEF Requests
      <4>2. CASE RenewLease(c, id)
        BY <4>1, <4>2, LeaseWorkerAssumption
           DEF RenewLease, RenewOk, RenewFailed, RenewNotReady
      <4>3. CASE ReleaseLease(c, id)
        BY <4>1, <4>3, LeaseWorkerAssumption
           DEF ReleaseLease, ReleaseOk, ReleaseFailed, ReleaseNotReady
      <4>4. QED
        BY <2>4, <4>2, <4>3
    <3>2. QED
      BY <2>1, <2>2, <3>1 DEF Wedged
  <2>5. ASSUME NEW c \in Callers, EnqueueMarks(c) PROVE Wedged(q)'
    <3>1. PICK p \in Requests : p = call[c].req
      BY <1>1, <2>5 DEF EnqueueMarks, ProxyInv, CallInv, InCall
    <3>2. p # q
      BY <1>1, <2>1, <2>5, <3>1 DEF EnqueueMarks, ProxyInv, TrackInv
    <3>3. Busy(q)' = Busy(q) /\ pending' = pending
      BY <2>5, <3>1, <3>2 DEF EnqueueMarks, Enqueue, Busy, workerVars
    <3>4. QED
      BY <2>1, <3>3 DEF Wedged
  <2>6. ASSUME NEW c \in Callers, EnqueuePosts(c) PROVE Wedged(q)'
    BY <2>1, <2>6 DEF EnqueuePosts, Post, Busy, Wedged
  <2>7. CASE LeaseThread /\ UNCHANGED proxyVars
    <3>1. Busy(q)' = Busy(q) /\ pending' = pending
      BY <1>1, <2>7, LeaseThreadKeepsBusy DEF ProxyInv, proxyVars
    <3>2. QED
      BY <2>1, <3>1 DEF Wedged
  <2>8. ASSUME UNCHANGED <<workerVars, pending>> PROVE Wedged(q)'
    BY <2>1, <2>8 DEF workerVars, Busy, Wedged
  <2>9. QED
    BY <1>1, <2>3, <2>4, <2>5, <2>6, <2>7, <2>8
       DEF ProxyNext, FinishCall, Return, allProxyVars, proxyVars
<1>2. ProxyInv /\ [ProxyNext]_allProxyVars
        => [\A q \in Requests : Wedged(q) => Wedged(q)']_allProxyVars
  BY <1>1
<1>3. QED
  BY <1>2, ProxyInductive, PTL DEF ProxySpec, NotReadyWedges

-----------------------------------------------------------------------------
(***************************************************************************)
(* Clients, proxy, worker and server.                                      *)
(***************************************************************************)

\* Thread c is in a call of the client with resource r.
CallOf(c, r) == call[c].stage # "idle" /\ call[c].req \in About(r)

\* The leases that are on their way to a client or with it: the answer that
\* waits in the worker, the cached grant, the lease it holds.
Owned(r) == {held[r], cachedGrants[r], completed[<<"acquire", r>>]} \cap LeaseIds

\* What is cached for a client that holds h, when its request q will return a.
Remembered(q, a, h) ==
  IF q[1] = "acquire" THEN (IF a \in LeaseIds THEN a ELSE None)
  ELSE IF q[1] = "renew" /\ a # "failed" THEN h ELSE None

ClientTypes ==
  /\ held \in [Resources -> LeaseIds \cup {None}]
  /\ stopped \subseteq Resources
  /\ dropped \subseteq issued
  /\ issued \subseteq LeaseIds
  /\ live \subseteq issued

\* No lease has two owners, and what was given up has none.
OwnInv ==
  /\ \A r \in Resources : Owned(r) \subseteq issued \ dropped
  /\ \A r, s \in Resources : r # s => Owned(r) \cap Owned(s) = {}
  /\ \A r \in Resources : held[r] # None => ~Busy(<<"acquire", r>>)

\* Every call is of one client, which is in one call at a time.
ClientCallInv ==
  /\ \A c \in Callers : call[c].stage # "idle" =>
       call[c].req \in Requests /\ \E r \in Resources : CallOf(c, r)
  /\ \A r \in Resources : \A c, d \in Callers : CallOf(c, r) /\ CallOf(d, r) => c = d
  /\ \A c \in Callers, r \in Resources :
       call[c].stage # "idle" /\ call[c].req = <<"acquire", r>> => held[r] = None

AgreeInv ==
  /\ ClientAndCacheAgree
  /\ \A c \in Callers, r \in Resources :
       CallOf(c, r) => cachedGrants[r] = Remembered(call[c].req, call[c].answer, held[r])

Releasing(id) ==
  \E c \in Callers : call[c].stage # "idle" /\ call[c].req = <<"release", id>>

\* A release is asked for once: the client has given the lease up, or will
\* when the call that asks returns.
ReleaseInv ==
  \A id \in LeaseIds :
    <<"release", id>> \in pending \/ Busy(<<"release", id>>)
      => id \in dropped \/ Releasing(id)

ClientInv == ClientTypes /\ OwnInv /\ ClientCallInv /\ AgreeInv /\ ReleaseInv

SystemInv == ProxyInv /\ ClientInv

-----------------------------------------------------------------------------
(* Clients and their requests.                                             *)

\* The request of a call is about the resource, or about the lease held.
LEMMA AboutFacts ==
  ASSUME ClientTypes, NEW r \in Resources, NEW q \in Requests
  PROVE  q \in About(r) <=>
           \/ q = <<"acquire", r>>
           \/ held[r] # None /\ held[r] \in LeaseIds /\ q = <<"renew", held[r]>>
           \/ held[r] # None /\ held[r] \in LeaseIds /\ q = <<"release", held[r]>>
BY LeaseWorkerAssumption DEF ClientTypes, About, Requests

\* No request is about two clients.
LEMMA OneClient ==
  ASSUME ClientTypes, OwnInv, NEW r \in Resources, NEW s \in Resources,
         NEW q \in Requests, q \in About(r), q \in About(s)
  PROVE  r = s
<1>1. CASE q = <<"acquire", r>>
  BY <1>1, AboutFacts
<1>2. CASE held[r] \in LeaseIds /\ (q = <<"renew", held[r]>> \/ q = <<"release", held[r]>>)
  <2>1. held[s] = held[r]
    BY <1>2, AboutFacts
  <2>2. held[r] \in Owned(r) /\ held[s] \in Owned(s)
    BY <1>2, <2>1 DEF Owned
  <2> QED BY <2>1, <2>2 DEF OwnInv
<1> QED BY <1>1, <1>2, AboutFacts

\* The requests by their kinds.
LEMMA RequestKinds ==
  /\ \A r \in Resources : <<"acquire", r>> \in Requests
  /\ \A id \in LeaseIds : <<"renew", id>> \in Requests /\ <<"release", id>> \in Requests
BY DEF Requests

\* Return values that are no leases.
LEMMA NoLeases ==
  /\ {"ok", "failed", "notReady"} \cap LeaseIds = {} /\ None \notin LeaseIds
  /\ {"ok", "failed", "notReady"} \subseteq Returns /\ LeaseIds \subseteq Returns
BY LeaseWorkerAssumption DEF Returns

-----------------------------------------------------------------------------
(* The steps.                                                              *)

\* A client's call begins: nobody else is affected.
LEMMA CallStarts ==
  ASSUME SystemInv, NEW c \in Callers, NEW r \in Resources, NEW q \in Requests,
         NEW s \in {"done", "enqueue"}, NEW a \in Returns,
         ~Calling(r), q \in About(r), Take(c, q), CallGoes(c, q, s, a),
         q = <<"acquire", r>> => held[r] = None,
         UNCHANGED <<held, dropped, issued, live>>, stopped' \subseteq Resources,
         pending' \subseteq pending,
         cachedGrants' \in [Resources -> LeaseIds \cup {None}],
         \A x \in Resources : x # r => cachedGrants'[x] = cachedGrants[x],
         cachedGrants'[r] \in Owned(r) \cup {None},
         cachedGrants'[r] = Remembered(q, a, held[r])
  PROVE  ClientInv'
<1> USE DEF SystemInv, ClientInv
<1>1. /\ call[c].stage = "idle"
      /\ call'[c] = [stage |-> s, req |-> q, answer |-> a]
      /\ \A d \in Callers : d # c => call'[d] = call[d]
  BY DEF Take, CallGoes, ProxyInv, CallInv, ProxyTypeOK
<1>2. /\ \A p \in Requests : Busy(p)' => Busy(p)
      /\ \A p \in Requests : completed'[p] \in {None, completed[p]}
  <2>1. \A p \in Requests : Busy(p)' => Busy(p)
    BY TakeFrees DEF ProxyInv
  <2>2. completed' = completed \/ completed' = [completed EXCEPT ![q] = None]
    BY DEF Take, TryTake, workerVars
  <2> QED BY <2>1, <2>2 DEF ProxyInv, IInv, TypeOK
<1>3. \A x \in Resources : About(x)' = About(x)
  BY DEF About
<1>4. \A x \in Resources : CallOf(c, x)' <=> x = r
  BY <1>1, <1>3, OneClient DEF CallOf
<1>5. \A d \in Callers, x \in Resources : d # c => (CallOf(d, x)' <=> CallOf(d, x))
  BY <1>1, <1>3 DEF CallOf
<1>6. \A d \in Callers : ~CallOf(d, r)
  BY DEF Calling, CallOf
<1>7. ClientTypes'
  BY DEF ClientTypes
<1>8. OwnInv'
  <2>1. \A x \in Resources : Owned(x)' \subseteq Owned(x)
    BY <1>2, NoLeases, RequestKinds DEF Owned
  <2>2. \A x \in Resources : held'[x] # None => ~Busy(<<"acquire", x>>)'
    BY <1>2, RequestKinds DEF OwnInv
  <2> QED BY <2>1, <2>2 DEF OwnInv
<1>9. ClientCallInv'
  <2>1. ASSUME NEW d \in Callers, call'[d].stage # "idle"
        PROVE  call'[d].req \in Requests /\ \E x \in Resources : CallOf(d, x)'
    BY <1>1, <1>4, <1>5, <2>1 DEF ClientCallInv
  <2>2. \A x \in Resources : \A d, e \in Callers : CallOf(d, x)' /\ CallOf(e, x)' => d = e
    BY <1>4, <1>5, <1>6 DEF ClientCallInv
  <2>3. ASSUME NEW d \in Callers, NEW x \in Resources,
               call'[d].stage # "idle", call'[d].req = <<"acquire", x>>
        PROVE  held'[x] = None
    <3>1. CASE d = c
      <4>1. x = r
        BY <1>1, <2>3, <3>1, AboutFacts
      <4> QED BY <1>1, <2>3, <3>1, <4>1
    <3>2. CASE d # c
      BY <1>1, <2>3, <3>2 DEF ClientCallInv
    <3> QED BY <3>1, <3>2
  <2> QED BY <2>1, <2>2, <2>3 DEF ClientCallInv
<1>10. AgreeInv'
  <2>1. ASSUME NEW x \in Resources, ~Calling(x)' PROVE held'[x] = cachedGrants'[x]
    <3>1. \A d \in Callers : ~CallOf(d, x)'
      BY <2>1 DEF Calling, CallOf
    <3>2. x # r /\ \A d \in Callers : ~CallOf(d, x)
      BY <1>1, <1>4, <1>5, <3>1 DEF CallOf
    <3> QED BY <3>2 DEF AgreeInv, ClientAndCacheAgree, Calling, CallOf
  <2>2. ASSUME NEW d \in Callers, NEW x \in Resources, CallOf(d, x)'
        PROVE  cachedGrants'[x] = Remembered(call'[d].req, call'[d].answer, held'[x])
    <3>1. CASE d = c
      BY <1>1, <1>4, <2>2, <3>1
    <3>2. CASE d # c
      <4>1. CallOf(d, x) /\ x # r
        BY <1>5, <1>6, <2>2, <3>2
      <4> QED BY <1>1, <3>2, <4>1 DEF AgreeInv
    <3> QED BY <3>1, <3>2
  <2> QED BY <2>1, <2>2 DEF AgreeInv, ClientAndCacheAgree
<1>11. ReleaseInv'
  <2>1. \A id \in LeaseIds : Releasing(id) => Releasing(id)'
    BY <1>1 DEF Releasing
  <2> QED BY <1>2, <2>1, RequestKinds DEF ReleaseInv
<1> QED BY <1>7, <1>8, <1>9, <1>10, <1>11

\* A client that asks for a lease holds none, so that none is cached for it.
LEMMA ClientAcquiresKeepsInv ==
  ASSUME SystemInv, NEW c \in Callers, NEW r \in Resources, ClientAcquires(c, r)
  PROVE  ClientInv'
<1> DEFINE q == <<"acquire", r>>
<1>1. q \in Requests /\ q \in About(r) /\ q[1] = "acquire"
  BY RequestKinds DEF About
<1>2. /\ ~Calling(r) /\ held[r] = None /\ cachedGrants[r] = None
      /\ UNCHANGED <<held, dropped, issued, live>> /\ stopped' \subseteq Resources
      /\ AcquireLease(c, r)
  BY DEF ClientAcquires, clientVars, serverVars, SystemInv, ClientInv, ClientTypes,
         AgreeInv, ClientAndCacheAgree
<1>3. cachedGrants \in [Resources -> LeaseIds \cup {None}]
  BY DEF SystemInv, ProxyInv, CallInv, ProxyTypeOK
<1>4. CASE AcquireGranted(c, r)
  <2>1. PICK g \in LeaseIds : g = completed[q]
    BY <1>4 DEF AcquireGranted
  <2>2. /\ Take(c, q) /\ CallGoes(c, q, "done", g)
        /\ cachedGrants' = [cachedGrants EXCEPT ![r] = g]
        /\ pending' \subseteq pending
    BY <1>4, <2>1 DEF AcquireGranted, CallGoes
  <2>3. g \in Owned(r) /\ g = Remembered(q, g, held[r]) /\ g \in Returns
    BY <1>1, <2>1, NoLeases DEF Owned, Remembered
  <2> HIDE DEF q
  <2> QED BY <1>1, <1>2, <1>3, <2>2, <2>3, CallStarts
<1>5. CASE AcquireFailed(c, r) \/ AcquireNotReady(c, r)
  <2>1. PICK s \in {"done", "enqueue"}, a \in {"failed", "notReady"} :
          /\ Take(c, q) /\ CallGoes(c, q, s, a)
          /\ cachedGrants' = cachedGrants /\ pending' \subseteq pending
    BY <1>2, <1>5 DEF AcquireFailed, AcquireNotReady
  <2>2. None = Remembered(q, a, held[r]) /\ a \in Returns
    BY <1>1, NoLeases DEF Remembered
  <2> HIDE DEF q
  <2> QED BY <1>1, <1>2, <1>3, <2>1, <2>2, CallStarts
<1> QED BY <1>2, <1>4, <1>5 DEF AcquireLease

\* Only its own cached grant is invalidated with a lease that a client holds.
LEMMA InvalidateOwn ==
  ASSUME SystemInv, NEW r \in Resources, held[r] \in LeaseIds,
         cachedGrants[r] = held[r], InvalidateLeaseCache(held[r])
  PROVE  /\ cachedGrants' \in [Resources -> LeaseIds \cup {None}]
         /\ cachedGrants'[r] = None
         /\ \A x \in Resources : x # r => cachedGrants'[x] = cachedGrants[x]
<1>1. cachedGrants \in [Resources -> LeaseIds \cup {None}]
  BY DEF SystemInv, ProxyInv, CallInv, ProxyTypeOK
<1>2. ASSUME NEW x \in Resources, x # r PROVE cachedGrants[x] # held[r]
  BY <1>2 DEF SystemInv, ClientInv, OwnInv, Owned
<1> QED BY <1>1, <1>2 DEF InvalidateLeaseCache

\* A renewal is about the lease the client holds and the proxy has cached; if
\* it failed the proxy forgets that lease.
LEMMA ClientRenewsKeepsInv ==
  ASSUME SystemInv, NEW c \in Callers, NEW r \in Resources, ClientRenews(c, r)
  PROVE  ClientInv'
<1> DEFINE q == <<"renew", held[r]>>
<1>1. held[r] \in LeaseIds /\ held[r] # None
  BY DEF ClientRenews, SystemInv, ClientInv, ClientTypes
<1>2. /\ q \in Requests /\ q \in About(r) /\ q[1] = "renew" /\ q # <<"acquire", r>>
  BY <1>1, RequestKinds DEF About
<1>3. /\ ~Calling(r) /\ cachedGrants[r] = held[r]
      /\ UNCHANGED <<held, dropped, issued, live>> /\ stopped' \subseteq Resources
      /\ RenewLease(c, held[r])
  BY DEF ClientRenews, clientVars, serverVars, SystemInv, ClientInv, ClientTypes,
         AgreeInv, ClientAndCacheAgree
<1>4. cachedGrants \in [Resources -> LeaseIds \cup {None}]
  BY DEF SystemInv, ProxyInv, CallInv, ProxyTypeOK
<1>5. CASE RenewFailed(c, held[r])
  <2>1. /\ Take(c, q) /\ CallGoes(c, q, "done", "failed")
        /\ InvalidateLeaseCache(held[r]) /\ pending' \subseteq pending
    BY <1>5 DEF RenewFailed
  <2>2. None = Remembered(q, "failed", held[r]) /\ "failed" \in Returns
    BY <1>2, NoLeases DEF Remembered
  <2> HIDE DEF q
  <2> QED BY <1>1, <1>2, <1>3, <2>1, <2>2, CallStarts, InvalidateOwn
<1>6. CASE RenewOk(c, held[r]) \/ RenewNotReady(c, held[r])
  <2>1. PICK s \in {"done", "enqueue"}, a \in {"ok", "notReady"} :
          /\ Take(c, q) /\ CallGoes(c, q, s, a)
          /\ cachedGrants' = cachedGrants /\ pending' \subseteq pending
    BY <1>6 DEF RenewOk, RenewNotReady
  <2>2. held[r] = Remembered(q, a, held[r]) /\ a \in Returns
    BY <1>2, NoLeases DEF Remembered
  <2>3. cachedGrants[r] \in Owned(r)
    BY <1>1, <1>3 DEF Owned
  <2> HIDE DEF q
  <2> QED BY <1>2, <1>3, <1>4, <2>1, <2>2, <2>3, CallStarts
<1> QED BY <1>3, <1>5, <1>6 DEF RenewLease

\* A client gives a lease up once: nothing is known of a release yet, and the
\* proxy forgets the lease before the release is even asked for.
LEMMA ClientStopsKeepsInv ==
  ASSUME SystemInv, NEW c \in Callers, NEW r \in Resources, ClientStops(c, r)
  PROVE  ClientInv'
<1> DEFINE q == <<"release", held[r]>>
<1>1. held[r] \in LeaseIds /\ held[r] # None
  BY DEF ClientStops, SystemInv, ClientInv, ClientTypes
<1>2. /\ q \in Requests /\ q \in About(r) /\ q[1] = "release" /\ q # <<"acquire", r>>
  BY <1>1, RequestKinds DEF About
<1>3. /\ ~Calling(r) /\ cachedGrants[r] = held[r]
      /\ UNCHANGED <<held, dropped, issued, live>> /\ stopped' \subseteq Resources
      /\ ReleaseLease(c, held[r])
  BY DEF ClientStops, serverVars, SystemInv, ClientInv, ClientTypes,
         AgreeInv, ClientAndCacheAgree
<1>4. q \notin pending /\ completed[q] = None
  <2>1. ~Releasing(held[r])
    BY <1>2, <1>3 DEF Releasing, Calling
  <2>2. held[r] \notin dropped
    BY <1>1 DEF SystemInv, ClientInv, OwnInv, Owned
  <2> QED BY <1>1, <2>1, <2>2 DEF SystemInv, ClientInv, ReleaseInv, Busy
<1>5. /\ Take(c, q) /\ CallGoes(c, q, "enqueue", "notReady")
      /\ InvalidateLeaseCache(held[r]) /\ pending' = pending
  BY <1>3, <1>4, LeaseWorkerAssumption
     DEF ReleaseLease, ReleaseOk, ReleaseFailed, ReleaseNotReady
<1>6. None = Remembered(q, "notReady", held[r]) /\ "notReady" \in Returns
  BY <1>2, NoLeases DEF Remembered
<1> HIDE DEF q
<1> QED BY <1>1, <1>2, <1>3, <1>5, <1>6, CallStarts, InvalidateOwn

\* Inside the proxy a call goes on with what it has.
LEMMA InsideProxyKeepsInv ==
  ASSUME SystemInv, NEW c \in Callers, InsideProxy(c)
  PROVE  ClientInv'
<1> USE DEF SystemInv, ClientInv
<1>1. PICK q \in Requests : q = call[c].req
  BY DEF InsideProxy, FinishCall, EnqueueMarks, EnqueuePosts, ClientCallInv
<1>2. /\ call[c].stage # "idle" /\ call'[c].stage # "idle"
      /\ call'[c].req = q /\ call'[c].answer = call[c].answer
      /\ \A d \in Callers : d # c => call'[d] = call[d]
  BY <1>1 DEF InsideProxy, FinishCall, EnqueueMarks, EnqueuePosts, CallGoes,
              ProxyInv, CallInv, ProxyTypeOK
<1>3. /\ UNCHANGED <<held, dropped, issued, live, stopped>>
      /\ cachedGrants' = cachedGrants /\ completed' = completed
      /\ pending' \subseteq pending \cup {q}
  BY <1>1 DEF InsideProxy, FinishCall, EnqueueMarks, EnqueuePosts, Enqueue, Post,
              workerVars, clientVars, serverVars
<1>4. \A p \in Requests : Busy(p)' => Busy(p) \/ p = q
  BY <1>1 DEF InsideProxy, FinishCall, EnqueueMarks, EnqueuePosts, Enqueue, Post,
              workerVars, Busy
<1>5. \A d \in Callers :
        /\ call'[d].stage # "idle" <=> call[d].stage # "idle"
        /\ call'[d].req = call[d].req /\ call'[d].answer = call[d].answer
  BY <1>1, <1>2
<1>6. \A x \in Resources : About(x)' = About(x) /\ Owned(x)' = Owned(x)
  BY <1>3 DEF About, Owned
<1>7. \A d \in Callers, x \in Resources : CallOf(d, x)' <=> CallOf(d, x)
  BY <1>5, <1>6 DEF CallOf
<1>8. ClientTypes'
  BY <1>3 DEF ClientTypes
<1>9. OwnInv'
  <2>1. \A x \in Resources : held[x] # None => q # <<"acquire", x>>
    BY <1>1, <1>2 DEF ClientCallInv
  <2>2. \A x \in Resources : held'[x] # None => ~Busy(<<"acquire", x>>)'
    BY <1>3, <1>4, <2>1, RequestKinds DEF OwnInv
  <2> QED BY <1>3, <1>6, <2>2 DEF OwnInv
<1>10. ClientCallInv'
  BY <1>3, <1>5, <1>7 DEF ClientCallInv
<1>11. AgreeInv'
  <2>1. \A x \in Resources : Calling(x)' <=> Calling(x)
    BY <1>5, <1>6 DEF Calling
  <2> QED BY <1>3, <1>5, <1>7, <2>1 DEF AgreeInv, ClientAndCacheAgree
<1>12. ReleaseInv'
  <2>1. \A id \in LeaseIds : Releasing(id)' <=> Releasing(id)
    BY <1>5 DEF Releasing
  <2>2. \A id \in LeaseIds : q = <<"release", id>> => Releasing(id)
    BY <1>1, <1>2 DEF Releasing
  <2> QED BY <1>3, <1>4, <2>1, <2>2, RequestKinds DEF ReleaseInv
<1> QED BY <1>8, <1>9, <1>10, <1>11, <1>12

\* The client that hears its answer holds what the proxy has cached, which is
\* nothing when it has given its lease up.
LEMMA ReturnsTheCached ==
  ASSUME SystemInv, NEW c \in Callers, NEW r \in Resources, CallOf(c, r), ClientReturns(c)
  PROVE  /\ held' = [held EXCEPT ![r] = cachedGrants[r]]
         /\ GivenUp(c, r) => cachedGrants[r] = None /\ dropped' = dropped \cup {held[r]}
         /\ ~GivenUp(c, r) => dropped' = dropped
<1> USE DEF SystemInv, ClientInv
<1>1. PICK q \in Requests : q = call[c].req
  BY DEF CallOf, ClientCallInv
<1>2. PICK a : a = call[c].answer
  OBVIOUS
<1>3. held \in [Resources -> LeaseIds \cup {None}]
  BY DEF ClientTypes
<1>4. ASSUME NEW x \in Resources, x # r PROVE ~Granted(c, x) /\ ~GivenUp(c, x)
  <2>1. q \notin About(x)
    BY <1>1, <1>4, OneClient DEF CallOf
  <2> QED BY <1>1, <2>1 DEF Granted, GivenUp, About
<1>5. cachedGrants[r] = Remembered(q, a, held[r])
  BY <1>1, <1>2 DEF AgreeInv
<1>6. /\ \A x \in Resources : x # r => held'[x] = held[x]
      /\ held'[r] = IF Granted(c, r) THEN a ELSE IF GivenUp(c, r) THEN None ELSE held[r]
      /\ dropped' = dropped \cup {held[x] : x \in {y \in Resources : GivenUp(c, y)}}
      /\ DOMAIN held' = Resources
      /\ held' = [x \in Resources |-> held'[x]]
  BY <1>2, <1>4 DEF ClientReturns
<1>7. CASE q = <<"acquire", r>>
  <2>1. Granted(c, r) <=> a \in LeaseIds
    BY <1>1, <1>2, <1>7 DEF Granted
  <2>2. held[r] = None
    BY <1>1, <1>7 DEF CallOf, ClientCallInv
  <2>3. ~GivenUp(c, r)
    BY <1>1, <1>7 DEF GivenUp
  <2>4. cachedGrants[r] = IF a \in LeaseIds THEN a ELSE None
    BY <1>5, <1>7 DEF Remembered
  <2> QED BY <1>3, <1>4, <1>6, <2>1, <2>2, <2>3, <2>4
<1>8. CASE q = <<"renew", held[r]>>
  <2>1. ~Granted(c, r)
    BY <1>1, <1>8 DEF Granted
  <2>2. GivenUp(c, r) <=> a = "failed"
    BY <1>1, <1>2, <1>8 DEF GivenUp
  <2>3. cachedGrants[r] = IF a = "failed" THEN None ELSE held[r]
    BY <1>5, <1>8 DEF Remembered
  <2> QED BY <1>3, <1>4, <1>6, <2>1, <2>2, <2>3
<1>9. CASE q = <<"release", held[r]>>
  <2>1. ~Granted(c, r) /\ GivenUp(c, r)
    BY <1>1, <1>9 DEF Granted, GivenUp
  <2>2. cachedGrants[r] = None
    BY <1>5, <1>9 DEF Remembered
  <2> QED BY <1>3, <1>4, <1>6, <2>1, <2>2
<1> QED BY <1>1, <1>7, <1>8, <1>9 DEF CallOf, About

LEMMA ReturnKeepsInv ==
  ASSUME SystemInv, NEW c \in Callers, ClientReturns(c)
  PROVE  ClientInv'
<1> USE DEF SystemInv, ClientInv
<1>1. PICK r \in Resources : CallOf(c, r)
  BY DEF ClientReturns, Return, ClientCallInv
<1>2. PICK q \in Requests : q = call[c].req
  BY <1>1 DEF CallOf, ClientCallInv
<1>3. /\ call'[c].stage = "idle"
      /\ \A d \in Callers : d # c => call'[d] = call[d]
      /\ UNCHANGED <<workerVars, cachedGrants, pending, stopped, issued, live>>
  BY DEF ClientReturns, Return, NoCall, serverVars, ProxyInv, CallInv, ProxyTypeOK
<1>4. /\ held \in [Resources -> LeaseIds \cup {None}]
      /\ cachedGrants \in [Resources -> LeaseIds \cup {None}]
  BY DEF ClientTypes, ProxyInv, CallInv, ProxyTypeOK
<1>5. /\ held'[r] = cachedGrants[r]
      /\ \A x \in Resources : x # r => held'[x] = held[x]
      /\ held' \in [Resources -> LeaseIds \cup {None}]
  BY <1>1, <1>4, ReturnsTheCached
<1>6. \A p \in Requests : Busy(p)' = Busy(p)
  BY <1>3 DEF workerVars, Busy
<1>7. GivenUp(c, r) => held[r] # None /\ held[r] \in LeaseIds /\ Owned(r)' = {}
  <2> SUFFICES ASSUME GivenUp(c, r)
               PROVE  held[r] # None /\ held[r] \in LeaseIds /\ Owned(r)' = {}
    OBVIOUS
  <2>1. held[r] # None /\ held[r] \in LeaseIds
    BY <1>1, <1>2, AboutFacts DEF CallOf, GivenUp
  <2>2. cachedGrants[r] = None
    BY <1>1, ReturnsTheCached
  <2>3. completed[<<"acquire", r>>] = None
    BY <2>1 DEF OwnInv, Busy
  <2> QED BY <1>3, <1>5, <2>1, <2>2, <2>3, NoLeases DEF workerVars, Owned
<1>8. ClientTypes'
  <2>1. dropped' \subseteq issued
    BY <1>1, <1>7, ReturnsTheCached DEF ClientTypes, OwnInv, Owned
  <2> QED BY <1>3, <1>5, <2>1 DEF ClientTypes
<1>9. \A x \in Resources : Owned(x)' \subseteq Owned(x)
  BY <1>3, <1>5 DEF Owned, workerVars
<1>10. OwnInv'
  <2>1. ASSUME NEW x \in Resources PROVE Owned(x)' \subseteq issued' \ dropped'
    <3>1. CASE GivenUp(c, r)
      <4>1. held[r] \in Owned(r) /\ dropped' = dropped \cup {held[r]}
        BY <1>1, <1>7, <3>1, ReturnsTheCached DEF Owned
      <4> QED BY <1>3, <1>7, <1>9, <3>1, <4>1 DEF OwnInv
    <3>2. CASE ~GivenUp(c, r)
      BY <1>1, <1>3, <1>9, <3>2, ReturnsTheCached DEF OwnInv
    <3> QED BY <3>1, <3>2
  <2>2. ASSUME NEW x \in Resources, held'[x] # None PROVE ~Busy(<<"acquire", x>>)'
    BY <1>5, <1>6, <2>2, RequestKinds DEF OwnInv, ProxyInv, CacheInv, NoSecondAcquire
  <2>3. \A x, y \in Resources : x # y => Owned(x)' \cap Owned(y)' = {}
    BY <1>9 DEF OwnInv
  <2> QED BY <2>1, <2>2, <2>3 DEF OwnInv
<1>11. \A x \in Resources : x # r => About(x)' = About(x)
  BY <1>5 DEF About
<1>12. ASSUME NEW d \in Callers, d # c, call[d].stage # "idle"
       PROVE  \A x \in Resources : CallOf(d, x)' <=> x # r /\ CallOf(d, x)
  <2>1. PICK p \in Requests : p = call[d].req
    BY <1>12 DEF ClientCallInv
  <2>2. PICK y \in Resources : CallOf(d, y) /\ y # r
    BY <1>1, <1>12 DEF ClientCallInv
  <2>3. p \in About(y)
    BY <2>1, <2>2 DEF CallOf
  <2>4. p # <<"acquire", r>>
    BY <2>1, <2>2, <2>3, AboutFacts
  <2>5. held'[r] \in LeaseIds => held'[r] # held[y] \/ held[y] \notin LeaseIds
    BY <1>5, <1>9, <2>2 DEF OwnInv, Owned
  <2>6. p \notin About(r)'
    <3>1. SUFFICES ASSUME p = <<"renew", held'[r]>> \/ p = <<"release", held'[r]>>
                   PROVE  FALSE
      BY <2>4 DEF About
    <3>2. held[y] \in LeaseIds /\ (p = <<"renew", held[y]>> \/ p = <<"release", held[y]>>)
      BY <2>3, <3>1, AboutFacts
    <3> QED BY <2>5, <3>1, <3>2
  <2> QED BY <1>3, <1>11, <1>12, <2>1, <2>6 DEF CallOf
<1>13. \A x \in Resources : ~CallOf(c, x)'
  BY <1>3 DEF CallOf
<1>14. ClientCallInv'
  <2>1. ASSUME NEW d \in Callers, call'[d].stage # "idle"
        PROVE  call'[d].req \in Requests /\ \E x \in Resources : CallOf(d, x)'
    <3>1. d # c /\ call[d].stage # "idle" /\ call'[d] = call[d]
      BY <1>3, <2>1
    <3>2. PICK x \in Resources : CallOf(d, x)
      BY <3>1 DEF ClientCallInv
    <3>3. x # r
      BY <1>1, <3>1, <3>2 DEF ClientCallInv
    <3> QED BY <1>12, <3>1, <3>2, <3>3 DEF ClientCallInv
  <2>2. \A x \in Resources, d \in Callers : CallOf(d, x)' => d # c /\ x # r /\ CallOf(d, x)
    BY <1>3, <1>12, <1>13 DEF CallOf
  <2>3. \A x \in Resources : \A d, e \in Callers : CallOf(d, x)' /\ CallOf(e, x)' => d = e
    BY <2>2 DEF ClientCallInv
  <2>4. ASSUME NEW d \in Callers, NEW x \in Resources,
               call'[d].stage # "idle", call'[d].req = <<"acquire", x>>
        PROVE  held'[x] = None
    <3>1. CallOf(d, x)'
      BY <2>4 DEF CallOf, About
    <3>2. d # c /\ x # r /\ call'[d] = call[d]
      BY <1>3, <2>2, <3>1
    <3> QED BY <1>5, <2>4, <3>2 DEF ClientCallInv
  <2> QED BY <2>1, <2>3, <2>4 DEF ClientCallInv
<1>15. AgreeInv'
  <2>1. ASSUME NEW x \in Resources, ~Calling(x)' PROVE held'[x] = cachedGrants'[x]
    <3>1. CASE x = r
      BY <1>3, <1>5, <3>1
    <3>2. CASE x # r
      <4>1. \A d \in Callers : ~CallOf(d, x)'
        BY <2>1 DEF Calling, CallOf
      <4>2. \A d \in Callers : ~CallOf(d, x)
        BY <1>1, <1>2, <1>12, <3>2, <4>1, OneClient DEF CallOf
      <4> QED BY <1>3, <1>5, <3>2, <4>2 DEF AgreeInv, ClientAndCacheAgree, Calling, CallOf
    <3> QED BY <3>1, <3>2
  <2>2. ASSUME NEW d \in Callers, NEW x \in Resources, CallOf(d, x)'
        PROVE  cachedGrants'[x] = Remembered(call'[d].req, call'[d].answer, held'[x])
    <3>1. d # c /\ x # r /\ CallOf(d, x) /\ call'[d] = call[d]
      BY <1>3, <1>12, <1>13, <2>2 DEF CallOf
    <3> QED BY <1>3, <1>5, <3>1 DEF AgreeInv
  <2> QED BY <2>1, <2>2 DEF AgreeInv, ClientAndCacheAgree
<1>16. ReleaseInv'
  <2>1. ASSUME NEW id \in LeaseIds, Releasing(id) PROVE id \in dropped' \/ Releasing(id)'
    <3>1. PICK d \in Callers : call[d].stage # "idle" /\ call[d].req = <<"release", id>>
      BY <2>1 DEF Releasing
    <3>2. CASE d = c
      <4>1. held[r] = id
        BY <1>1, <1>2, <3>1, <3>2, AboutFacts DEF CallOf
      <4> QED BY <1>1, <3>1, <3>2, <4>1, ReturnsTheCached DEF GivenUp
    <3>3. CASE d # c
      BY <1>3, <3>1, <3>3 DEF Releasing
    <3> QED BY <3>2, <3>3
  <2>2. dropped \subseteq dropped'
    BY <1>1, ReturnsTheCached
  <2> QED BY <1>3, <1>6, <2>1, <2>2, RequestKinds DEF ReleaseInv
<1> QED BY <1>8, <1>10, <1>14, <1>15, <1>16

\* Steps no client and no call has a part in, by which a lease may at most go
\* from the server to one who owns none.
LEMMA OtherStepKeepsInv ==
  ASSUME SystemInv, UNCHANGED <<proxyVars, held, dropped>>, ClientTypes',
         issued \subseteq issued',
         \A p \in Requests : Busy(p)' = Busy(p),
         \A x \in Resources : Owned(x)' \subseteq Owned(x) \cup (issued' \ issued),
         \A x, y \in Resources : x # y => Owned(x)' \cap Owned(y)' = {}
  PROVE  ClientInv'
<1> USE DEF SystemInv, ClientInv
<1>1. UNCHANGED <<cachedGrants, pending, call>>
  BY DEF proxyVars
<1>2. \A x \in Resources : About(x)' = About(x) /\ Calling(x)' = Calling(x)
  BY <1>1 DEF About, Calling
<1>3. \A d \in Callers, x \in Resources : CallOf(d, x)' = CallOf(d, x)
  BY <1>1, <1>2 DEF CallOf
<1>4. OwnInv'
  <2>1. \A x \in Resources : Owned(x)' \subseteq issued' \ dropped'
    BY DEF OwnInv, ClientTypes
  <2> QED BY <2>1, RequestKinds DEF OwnInv
<1>5. ClientCallInv'
  BY <1>1, <1>3 DEF ClientCallInv
<1>6. AgreeInv'
  BY <1>1, <1>2, <1>3 DEF AgreeInv, ClientAndCacheAgree
<1>7. ReleaseInv'
  BY <1>1, RequestKinds DEF ReleaseInv, Releasing
<1> QED BY <1>4, <1>5, <1>6, <1>7

\* An answer of the server: a lease only if it is one that was never granted.
LEMMA ServerKeepsInv ==
  ASSUME SystemInv, ServerAnswers
  PROVE  ClientInv'
<1> USE DEF SystemInv, ClientInv
<1>1. UNCHANGED <<proxyVars, held, stopped, dropped>> /\ ClientTypes'
  BY DEF ServerAnswers, ServerGrants, ServerFails, ServerRenews, ServerReleases,
         clientVars, serverVars, ClientTypes
<1>2. PICK a \in AllAnswers :
        /\ Complete(a)
        /\ \/ a \notin LeaseIds /\ issued \subseteq issued'
           \/ a \notin issued /\ issued' = issued \cup {a}
  BY AnswersAreValues, NoLeases, LeaseWorkerAssumption
     DEF ServerAnswers, ServerGrants, ServerFails, ServerRenews, ServerReleases,
         Complete, serverVars
<1>3. LeaseThread
  BY <1>2 DEF LeaseThread
<1>4. \A p \in Requests : Busy(p)' = Busy(p)
  BY <1>3, LeaseThreadKeepsBusy DEF ProxyInv
<1>5. PICK q \in Requests : q = current
  BY <1>2 DEF Complete, ProxyInv, IInv
<1>6. completed' = [completed EXCEPT ![q] = a]
  BY <1>2, <1>5 DEF Complete
<1>7. \A x \in Resources : <<"acquire", x>> # q => Owned(x)' = Owned(x)
  BY <1>1, <1>6, RequestKinds DEF Owned, proxyVars, ProxyInv, IInv, TypeOK
<1>8. \A x \in Resources : <<"acquire", x>> = q =>
        Owned(x)' \subseteq Owned(x) \cup ({a} \cap LeaseIds)
  BY <1>1, <1>6 DEF Owned, proxyVars, ProxyInv, IInv, TypeOK
<1>9. {a} \cap LeaseIds \subseteq issued' \ issued /\ issued \subseteq issued'
  BY <1>2
<1>10. ASSUME NEW x \in Resources, NEW y \in Resources, x # y
       PROVE  Owned(x)' \cap Owned(y)' = {}
  <2>1. /\ Owned(x) \subseteq issued /\ Owned(y) \subseteq issued
        /\ Owned(x) \cap Owned(y) = {}
    BY <1>10 DEF OwnInv
  <2>2. <<"acquire", x>> # q \/ <<"acquire", y>> # q
    BY <1>10
  <2> QED BY <1>7, <1>8, <1>9, <2>1, <2>2
<1>11. \A x \in Resources : Owned(x)' \subseteq Owned(x) \cup (issued' \ issued)
  BY <1>7, <1>8, <1>9
<1> QED BY <1>1, <1>4, <1>9, <1>10, <1>11, OtherStepKeepsInv

\* Steps that touch neither answers nor calls: the lease thread between two
\* calls, a lease that expires, a client that stops or starts with nothing.
LEMMA QuietKeepsInv ==
  ASSUME SystemInv, UNCHANGED <<proxyVars, held, dropped, issued, completed>>,
         ClientTypes', \A p \in Requests : Busy(p)' = Busy(p)
  PROVE  ClientInv'
<1>1. \A x \in Resources : Owned(x)' = Owned(x)
  BY DEF Owned, proxyVars
<1> QED BY <1>1, OtherStepKeepsInv DEF SystemInv, ClientInv, OwnInv

-----------------------------------------------------------------------------
(* The system.                                                             *)

\* What a system step is to the proxy and the worker.
LEMMA SystemStepIsProxyStep ==
  ClientTypes /\ [SystemNext]_systemVars => [ProxyNext]_allProxyVars
<1> SUFFICES ASSUME ClientTypes, [SystemNext]_systemVars PROVE [ProxyNext]_allProxyVars
  OBVIOUS
<1>1. CASE LoopStep
  BY <1>1 DEF LoopStep, ProxyNext, LeaseThread
<1>2. CASE ServerAnswers
  <2>1. PICK a \in AllAnswers : Complete(a) /\ UNCHANGED proxyVars
    BY <1>2, AnswersAreValues
       DEF ServerAnswers, ServerGrants, ServerFails, ServerRenews, ServerReleases, Complete
  <2> QED BY <2>1 DEF ProxyNext, LeaseThread
<1>3. ASSUME NEW r \in Resources, ClientRestarts(r) \/ ClientStopsIdle(r)
      PROVE  UNCHANGED allProxyVars
  BY <1>3 DEF ClientRestarts, ClientStopsIdle
<1>4. ASSUME NEW c \in Callers, InsideProxy(c) \/ ClientReturns(c)
      PROVE  ProxyNext
  BY <1>4 DEF InsideProxy, ClientReturns, ProxyNext
<1>5. ASSUME NEW c \in Callers, NEW r \in Resources,
             ClientAcquires(c, r) \/ ClientRenews(c, r) \/ ClientStops(c, r)
      PROVE  ProxyNext
  <2>1. held[r] # None => held[r] \in LeaseIds
    BY DEF ClientTypes
  <2> QED BY <1>5, <2>1 DEF ClientAcquires, ClientRenews, ClientStops, ProxyNext
<1>6. ASSUME NEW id \in LeaseIds, ServerExpires(id) PROVE UNCHANGED allProxyVars
  BY <1>6 DEF ServerExpires
<1>7. CASE UNCHANGED systemVars
  BY <1>7 DEF systemVars
<1> QED BY <1>1, <1>2, <1>3, <1>4, <1>5, <1>6, <1>7 DEF SystemNext

LEMMA SystemInitInv == SystemInit => SystemInv
<1> SUFFICES ASSUME SystemInit PROVE SystemInv
  OBVIOUS
<1>1. ProxyInv
  BY ProxyInitInv DEF SystemInit
<1>2. /\ \A c \in Callers : call[c].stage = "idle"
      /\ \A p \in Requests : ~Busy(p) /\ completed[p] = None
      /\ \A r \in Resources : held[r] = None /\ cachedGrants[r] = None
      /\ pending = {}
  BY DEF SystemInit, ProxyInit, Init, Busy, NoCall
<1>3. ClientTypes
  BY DEF SystemInit, ClientTypes
<1>4. \A r \in Resources : Owned(r) = {}
  BY <1>2, NoLeases, RequestKinds DEF Owned
<1>5. OwnInv
  BY <1>2, <1>4 DEF OwnInv
<1>6. ClientCallInv /\ AgreeInv
  BY <1>2 DEF ClientCallInv, AgreeInv, ClientAndCacheAgree, CallOf
<1>7. ReleaseInv
  BY <1>2, RequestKinds DEF ReleaseInv
<1> QED BY <1>1, <1>3, <1>5, <1>6, <1>7 DEF SystemInv, ClientInv

LEMMA SystemStepInv == SystemInv /\ [SystemNext]_systemVars => SystemInv'
<1> SUFFICES ASSUME SystemInv, [SystemNext]_systemVars PROVE SystemInv'
  OBVIOUS
<1>1. ProxyInv'
  BY SystemStepIsProxyStep, ProxyStepInv DEF SystemInv, ClientInv
<1>2. ClientInv'
  <2>1. CASE LoopStep
    <3>1. LeaseThread /\ UNCHANGED <<proxyVars, clientVars, serverVars, completed>>
      BY <2>1 DEF LoopStep, LeaseThread, Dispatch, Pick, Drained
    <3>2. \A p \in Requests : Busy(p)' = Busy(p)
      BY <3>1, LeaseThreadKeepsBusy DEF SystemInv, ProxyInv
    <3>3. ClientTypes'
      BY <3>1 DEF SystemInv, ClientInv, ClientTypes, clientVars, serverVars
    <3> QED BY <3>1, <3>2, <3>3, QuietKeepsInv DEF clientVars, serverVars
  <2>2. CASE \/ \E id \in LeaseIds : ServerExpires(id)
             \/ \E r \in Resources : ClientRestarts(r) \/ ClientStopsIdle(r)
             \/ UNCHANGED systemVars
    <3>1. UNCHANGED <<allProxyVars, held, dropped, issued>> /\ ClientTypes'
      BY <2>2 DEF ServerExpires, ClientRestarts, ClientStopsIdle, systemVars,
                  clientVars, serverVars, SystemInv, ClientInv, ClientTypes
    <3>2. UNCHANGED completed /\ \A p \in Requests : Busy(p)' = Busy(p)
      BY <3>1 DEF allProxyVars, workerVars, Busy
    <3> QED BY <3>1, <3>2, QuietKeepsInv DEF allProxyVars
  <2> QED BY <2>1, <2>2, ServerKeepsInv, InsideProxyKeepsInv, ReturnKeepsInv,
             ClientAcquiresKeepsInv, ClientRenewsKeepsInv, ClientStopsKeepsInv
          DEF SystemNext
<1> QED BY <1>1, <1>2 DEF SystemInv

LEMMA SystemInductive == SystemSpec => []SystemInv
BY SystemInitInv, SystemStepInv, PTL DEF SystemSpec

\* The variables of the system keep their types.
THEOREM SystemTypeCorrect == SystemSpec => []SystemTypeOK
<1>1. SystemInv => SystemTypeOK
  BY DEF SystemInv, ProxyInv, IInv, CallInv, ClientInv, ClientTypes, SystemTypeOK
<1>2. QED
  BY <1>1, SystemInductive, PTL

\* The clients use the proxy as LeaseProxy allows: what is proved of the
\* proxy under ProxySpec holds of it in the system.
THEOREM SystemUsesProxy == SystemSpec => ProxySpec
<1>1. SystemInit => ProxyInit
  BY DEF SystemInit
<1>2. SystemInv => ClientTypes
  BY DEF SystemInv, ClientInv
<1>3. QED
  BY <1>1, <1>2, SystemStepIsProxyStep, SystemInductive, PTL DEF SystemSpec, ProxySpec

\* Between its calls every client holds exactly what the proxy has cached for
\* its resource, with any number of clients, threads and leases.
THEOREM ClientsAndCacheAgree == SystemSpec => []ClientAndCacheAgree
<1>1. SystemInv => ClientAndCacheAgree
  BY DEF SystemInv, ClientInv, AgreeInv
<1>2. QED
  BY <1>1, SystemInductive, PTL

\* A lease that a client gave up is never again held by anyone: no answer on
\* its way, no cache and no late grant brings it back.
THEOREM GivenUpNeverReturns == SystemSpec => []GivenUpForGood
<1>1. SystemInv => GivenUpForGood
  BY DEF SystemInv, ClientInv, ClientTypes, OwnInv, Owned, GivenUpForGood
<1>2. QED
  BY <1>1, SystemInductive, PTL

\* In the system too the worker refuses nothing, and a request that an issuer
\* answering NotReady itself has wedged stays wedged.
THEOREM SystemNeverRefused == SystemSpec => []NeverRefused /\ NotReadyWedges
BY SystemUsesProxy, WorkerNeverRefuses, NotReadyWedgesForEver, PTL

\* No lease is with two clients: neither held by two nor held by one while it
\* is cached for another or its grant is on the way to another.
THEOREM LeasesAreNotShared ==
  SystemSpec =>
    [](\A r, s \in Resources : r # s => held[r] = None \/
         held[r] \notin {held[s], cachedGrants[s], completed[<<"acquire", s>>]})
<1>1. SystemInv =>
        \A r, s \in Resources : r # s => held[r] = None \/
          held[r] \notin {held[s], cachedGrants[s], completed[<<"acquire", s>>]}
  BY DEF SystemInv, ClientInv, ClientTypes, OwnInv, Owned
<1> QED BY <1>1, SystemInductive, PTL
=============================================================================
