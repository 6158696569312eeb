----------------------------- MODULE LeaseProxy -----------------------------
(***************************************************************************)
(* Lease/SyncLeaseIssuerProxy on top of ThreadWorker: a synchronous        *)
(* ILeaseIssuer that never blocks.  A call takes the answer of an earlier  *)
(* request if there is one, else answers from its caches or "not ready",   *)
(* and asks the worker for what is missing.                                *)
(*                                                                         *)
(* m_Mutex is held for the whole of a call, but the worker's own mutex     *)
(* only inside TryTake and Enqueue, so the lease thread runs between the   *)
(* steps of a call:  take -> enqueue -> post -> done.  Leases are their    *)
(* ids; the three pending maps are one set of requests.                    *)
(***************************************************************************)
EXTENDS LeaseWorker

VARIABLES
  cachedGrants,  (* m_CachedGrantsByResource: the lease id granted, or None *)
  cachedLeases,  (* the keys of m_CachedLeasesById                          *)
  pending,       (* m_PendingAcquire/Renew/ReleaseRequests                  *)
  call           (* what each calling thread is doing inside the proxy      *)

proxyVars == <<cachedGrants, cachedLeases, pending, call>>
allProxyVars == <<workerVars, proxyVars>>

\* What a call may return: a grant, a renewed lease or success, or an error.
Returns == LeaseIds \cup {"ok", "failed", "notReady"}

NoCall == [stage |-> "idle", req |-> None, answer |-> None]

ProxyInit ==
  /\ Init
  /\ cachedGrants = [r \in Resources |-> None]
  /\ cachedLeases = {}
  /\ pending = {}
  /\ call = [c \in Callers |-> NoCall]

\* m_Mutex is free: no thread is inside a call.
Unlocked == \A c \in Callers : call[c].stage \notin {"enqueue", "post"}

\* The call of thread c about q goes on to the given stage, where a is what
\* it will return.
CallGoes(c, q, stage, a) ==
  call' = [call EXCEPT ![c] = [stage |-> stage, req |-> q, answer |-> a]]

\* TryTake: the answer leaves the worker, if there is one.
Take(c, q) ==
  /\ call[c].stage = "idle"
  /\ Unlocked
  /\ \/ TryTake(c, q)
     \/ completed[q] = None /\ UNCHANGED workerVars

\* There is nothing to take, or an error a caller cannot tell from that.
NotReady(q) == completed[q] \in {None, "notReady"}

InvalidateLeaseCache(id) ==
  /\ cachedLeases' = cachedLeases \ {id}
  /\ cachedGrants' = [r \in Resources |->
                        IF cachedGrants[r] = id THEN None ELSE cachedGrants[r]]

-----------------------------------------------------------------------------
AcquireGranted(c, r) ==
  LET q == <<"acquire", r>> IN
  /\ completed[q] \in LeaseIds
  /\ Take(c, q)
  /\ pending' = pending \ {q}
  /\ cachedGrants' = [cachedGrants EXCEPT ![r] = completed[q]]
  /\ cachedLeases' = cachedLeases \cup {completed[q]}
  /\ CallGoes(c, q, "done", completed[q])

\* Mutant: a failed acquire is not erased from the pending requests.
AcquireFailed_KeepsPending(c, r) ==
  LET q == <<"acquire", r>> IN
  /\ completed[q] = "failed"
  /\ Take(c, q)
  /\ CallGoes(c, q, "done", "failed")
  /\ UNCHANGED <<cachedGrants, cachedLeases, pending>>

AcquireFailed(c, r) ==
  LET q == <<"acquire", r>> IN
  /\ completed[q] = "failed"
  /\ Take(c, q)
  /\ pending' = pending \ {q}
  /\ CallGoes(c, q, "done", "failed")
  /\ UNCHANGED <<cachedGrants, cachedLeases>>

\* Mutant: a request is enqueued although it is recorded as pending.
AcquireNotReady_IgnoresPending(c, r) ==
  LET q == <<"acquire", r>> IN
  /\ NotReady(q)
  /\ Take(c, q)
  /\ \/ /\ cachedGrants[r] # None
        /\ CallGoes(c, q, "done", cachedGrants[r])
     \/ /\ cachedGrants[r] = None
        /\ CallGoes(c, q, "enqueue", "notReady")
  /\ UNCHANGED <<cachedGrants, cachedLeases, pending>>

AcquireNotReady(c, r) ==
  LET q == <<"acquire", r>> IN
  /\ NotReady(q)
  /\ Take(c, q)
  /\ \/ /\ cachedGrants[r] # None
        /\ CallGoes(c, q, "done", cachedGrants[r])
     \/ /\ cachedGrants[r] = None /\ q \in pending
        /\ CallGoes(c, q, "done", "notReady")
     \/ /\ cachedGrants[r] = None /\ q \notin pending
        /\ CallGoes(c, q, "enqueue", "notReady")
  /\ UNCHANGED <<cachedGrants, cachedLeases, pending>>

AcquireLease(c, r) ==
  AcquireGranted(c, r) \/ AcquireFailed(c, r) \/ AcquireNotReady(c, r)

-----------------------------------------------------------------------------
\* A renewed lease is returned, and the next renewal asked for at once.
RenewOk(c, id) ==
  LET q == <<"renew", id>> IN
  /\ completed[q] = "ok"
  /\ Take(c, q)
  /\ pending' = pending \ {q}
  /\ cachedLeases' = cachedLeases \cup {id}
  /\ CallGoes(c, q, "enqueue", "ok")
  /\ UNCHANGED cachedGrants

\* Mutant: a failed renewal leaves the caches as they are.
RenewFailed_KeepsCache(c, id) ==
  LET q == <<"renew", id>> IN
  /\ completed[q] = "failed"
  /\ Take(c, q)
  /\ pending' = pending \ {q}
  /\ CallGoes(c, q, "done", "failed")
  /\ UNCHANGED <<cachedGrants, cachedLeases>>

RenewFailed(c, id) ==
  LET q == <<"renew", id>> IN
  /\ completed[q] = "failed"
  /\ Take(c, q)
  /\ pending' = pending \ {q}
  /\ InvalidateLeaseCache(id)
  /\ CallGoes(c, q, "done", "failed")

\* Mutant: a cached lease is returned and its renewal never asked for.
RenewNotReady_NeverAsks(c, id) ==
  LET q == <<"renew", id>>
      a == IF id \in cachedLeases THEN "ok" ELSE "notReady"
  IN
  /\ NotReady(q)
  /\ Take(c, q)
  /\ CallGoes(c, q, IF q \in pending \/ a = "ok" THEN "done" ELSE "enqueue", a)
  /\ UNCHANGED <<cachedGrants, cachedLeases, pending>>

\* A cached lease is returned although its renewal has not been answered.
RenewNotReady(c, id) ==
  LET q == <<"renew", id>>
      a == IF id \in cachedLeases THEN "ok" ELSE "notReady"
  IN
  /\ NotReady(q)
  /\ Take(c, q)
  /\ CallGoes(c, q, IF q \in pending THEN "done" ELSE "enqueue", a)
  /\ UNCHANGED <<cachedGrants, cachedLeases, pending>>

RenewLease(c, id) == RenewOk(c, id) \/ RenewFailed(c, id) \/ RenewNotReady(c, id)

-----------------------------------------------------------------------------
ReleaseOk(c, id) ==
  LET q == <<"release", id>> IN
  /\ completed[q] = "ok"
  /\ Take(c, q)
  /\ pending' = pending \ {q}
  /\ InvalidateLeaseCache(id)
  /\ CallGoes(c, q, "done", "ok")

ReleaseFailed(c, id) ==
  LET q == <<"release", id>> IN
  /\ completed[q] = "failed"
  /\ Take(c, q)
  /\ pending' = pending \ {q}
  /\ CallGoes(c, q, "done", "failed")
  /\ UNCHANGED <<cachedGrants, cachedLeases>>

\* Mutant: the caches are kept until the release is answered.
ReleaseNotReady_KeepsCache(c, id) ==
  LET q == <<"release", id>> IN
  /\ NotReady(q)
  /\ Take(c, q)
  /\ CallGoes(c, q, IF q \in pending THEN "done" ELSE "enqueue", "notReady")
  /\ UNCHANGED <<cachedGrants, cachedLeases, pending>>

ReleaseNotReady(c, id) ==
  LET q == <<"release", id>> IN
  /\ NotReady(q)
  /\ Take(c, q)
  /\ \/ /\ q \in pending
        /\ CallGoes(c, q, "done", "notReady")
        /\ UNCHANGED <<cachedGrants, cachedLeases>>
     \/ /\ q \notin pending
        /\ InvalidateLeaseCache(id)
        /\ CallGoes(c, q, "enqueue", "notReady")
  /\ UNCHANGED pending

ReleaseLease(c, id) ==
  ReleaseOk(c, id) \/ ReleaseFailed(c, id) \/ ReleaseNotReady(c, id)

-----------------------------------------------------------------------------
\* The Enqueue of a call: refused when the worker still has the request (it
\* never has, see NeverRefused), else marked under the worker's mutex.
EnqueueMarks(c) ==
  /\ call[c].stage = "enqueue"
  /\ IF Busy(call[c].req)
     THEN UNCHANGED workerVars /\ CallGoes(c, call[c].req, "done", call[c].answer)
     ELSE /\ Enqueue(c, call[c].req)
          /\ CallGoes(c, call[c].req, "post", call[c].answer)
  /\ UNCHANGED <<cachedGrants, cachedLeases, pending>>

\* The event is posted, the request recorded as pending, m_Mutex dropped.
EnqueuePosts(c) ==
  /\ call[c].stage = "post"
  /\ Post(c)
  /\ pending' = pending \cup {call[c].req}
  /\ CallGoes(c, call[c].req, "done", call[c].answer)
  /\ UNCHANGED <<cachedGrants, cachedLeases>>

\* The caller has what the call returned.
Return(c) ==
  /\ call[c].stage = "done"
  /\ call' = [call EXCEPT ![c] = NoCall]
  /\ UNCHANGED <<workerVars, cachedGrants, cachedLeases, pending>>

FinishCall(c) == EnqueueMarks(c) \/ EnqueuePosts(c)

ProxyNext ==
  \/ LeaseThread /\ UNCHANGED proxyVars
  \/ \E c \in Callers :
       \/ \E r \in Resources : AcquireLease(c, r)
       \/ \E id \in LeaseIds : RenewLease(c, id) \/ ReleaseLease(c, id)
       \/ FinishCall(c)
       \/ Return(c)

ProxySpec == ProxyInit /\ [][ProxyNext]_allProxyVars

-----------------------------------------------------------------------------
(* Properties.                                                             *)

ProxyTypeOK ==
  /\ cachedGrants \in [Resources -> LeaseIds \cup {None}]
  /\ cachedLeases \subseteq LeaseIds
  /\ pending \subseteq Requests
  /\ call \in [Callers -> [stage  : {"idle", "enqueue", "post", "done"},
                           req    : Requests \cup {None},
                           answer : Returns \cup {None}]]

\* Some thread has marked q in the worker and not yet recorded it.
BeingPosted(q) == \E c \in Callers : call[c].stage = "post" /\ call[c].req = q

\* The proxy's idea of what is outstanding and the worker's agree, although
\* they are kept under two mutexes: a request is pending exactly while the
\* worker waits on it, serves it or holds its answer.  Otherwise a call would
\* answer "not ready" for ever, or lose an answer.  (Holds when the blocking
\* issuer never answers NotReady itself; see NotReadyWedges.)
PendingTracked ==
  \A q \in Requests : Busy(q) <=> q \in pending \/ BeingPosted(q)

\* The worker never refuses what the proxy enqueues.
NeverRefused ==
  \A c \in Callers : call[c].stage = "enqueue" => ~Busy(call[c].req)

\* A cached grant can be renewed from the cache: its lease is cached too.
GrantsHaveLeases ==
  \A r \in Resources : cachedGrants[r] # None => cachedGrants[r] \in cachedLeases

\* While a resource has a cached grant no second lease is acquired for it, so
\* no granted lease is overwritten and left to expire unrenewed.
NoSecondAcquire ==
  \A r \in Resources : cachedGrants[r] # None => ~Busy(<<"acquire", r>>)

\* Wedged: recorded as pending, unknown to the worker, nobody working on it.
Wedged(q) == q \in pending /\ ~Busy(q)

\* What an issuer that answers NotReady itself does to the proxy: the answer
\* is taken but not recognised, and no later call can get the request moving.
NotReadyWedges ==
  [][\A q \in Requests : Wedged(q) => Wedged(q)']_allProxyVars
=============================================================================
