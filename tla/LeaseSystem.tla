----------------------------- MODULE LeaseSystem -----------------------------
(***************************************************************************)
(* The lease stack in use: the station's clients of ILeaseIssuer (the      *)
(* video controller and the two UDP clients, one per resource), the proxy  *)
(* and worker between them and the lease thread, and the lease server.     *)
(*                                                                         *)
(* A client follows the protocol of Video/Controller.cpp: it acquires when *)
(* it holds nothing, renews what it holds, drops a lease whose renewal     *)
(* failed and releases when it stops.  The UDP clients and the server are  *)
(* libraries; they are modelled from how src/ uses them.  A gRPC call may  *)
(* take effect and still fail (RpcTimeout), and a lease may expire at the  *)
(* server at any time.                                                     *)
(***************************************************************************)
EXTENDS LeaseProxy

VARIABLES
  held,      (* the lease each client believes it holds, or None            *)
  stopped,   (* clients that were stopped and call nothing                  *)
  dropped,   (* leases some client has given up (history)                   *)
  issued,    (* leases the server has granted so far                        *)
  live       (* leases the server still honours                             *)

clientVars == <<held, stopped, dropped>>
serverVars == <<issued, live>>
systemVars == <<allProxyVars, clientVars, serverVars>>

SystemInit ==
  /\ ProxyInit
  /\ held = [r \in Resources |-> None]
  /\ stopped = {}
  /\ dropped = {}
  /\ issued = {}
  /\ live = {}

\* The request a client with resource r has in a call of its own.
About(r) == {<<"acquire", r>>, <<"renew", held[r]>>, <<"release", held[r]>>}

Calling(r) == \E c \in Callers : call[c].stage # "idle" /\ call[c].req \in About(r)

-----------------------------------------------------------------------------
(* Clients.                                                                *)

ClientAcquires(c, r) ==
  /\ r \notin stopped
  /\ ~Calling(r)
  /\ held[r] = None
  /\ AcquireLease(c, r)
  /\ UNCHANGED <<clientVars, serverVars>>

ClientRenews(c, r) ==
  /\ r \notin stopped
  /\ ~Calling(r)
  /\ held[r] # None
  /\ RenewLease(c, held[r])
  /\ UNCHANGED <<clientVars, serverVars>>

\* Stop with a lease: the answer of the release is ignored, the lease
\* forgotten.  Without one, an acquire that is underway is left behind.
ClientStops(c, r) ==
  /\ r \notin stopped
  /\ ~Calling(r)
  /\ held[r] # None
  /\ ReleaseLease(c, held[r])
  /\ stopped' = stopped \cup {r}
  /\ UNCHANGED <<held, dropped, serverVars>>

ClientStopsIdle(r) ==
  /\ r \notin stopped
  /\ ~Calling(r)
  /\ held[r] = None
  /\ stopped' = stopped \cup {r}
  /\ UNCHANGED <<allProxyVars, held, dropped, serverVars>>

ClientRestarts(r) ==
  /\ r \in stopped
  /\ ~Calling(r)
  /\ stopped' = stopped \ {r}
  /\ UNCHANGED <<allProxyVars, held, dropped, serverVars>>

\* A granted lease is kept; a lease is given up when its renewal failed or
\* its release was asked for.
Granted(c, r) == call[c].req = <<"acquire", r>> /\ call[c].answer \in LeaseIds

GivenUp(c, r) ==
  \/ call[c].req = <<"renew", held[r]>> /\ call[c].answer = "failed"
  \/ call[c].req = <<"release", held[r]>>

ClientReturns(c) ==
  /\ Return(c)
  /\ held' = [r \in Resources |-> IF Granted(c, r) THEN call[c].answer
                                  ELSE IF GivenUp(c, r) THEN None
                                  ELSE held[r]]
  /\ dropped' = dropped \cup {held[r] : r \in {x \in Resources : GivenUp(c, x)}}
  /\ UNCHANGED <<stopped, serverVars>>

-----------------------------------------------------------------------------
(* The server answers the call the lease thread is in.                     *)

\* A grant, which the station may never hear of.
ServerGrants(id) ==
  /\ pc = "call"
  /\ current[1] = "acquire"
  /\ id \notin issued
  /\ issued' = issued \cup {id}
  /\ live' = live \cup {id}
  /\ Complete(id) \/ Complete("failed")
  /\ UNCHANGED <<proxyVars, clientVars>>

\* The call is refused or does not reach the server.
ServerFails ==
  /\ \E error \in IssuerErrors : Complete(error)
  /\ UNCHANGED <<proxyVars, clientVars, serverVars>>

ServerRenews ==
  /\ pc = "call"
  /\ current[1] = "renew"
  /\ current[2] \in live
  /\ Complete("ok")
  /\ UNCHANGED <<proxyVars, clientVars, serverVars>>

ServerReleases ==
  /\ pc = "call"
  /\ current[1] = "release"
  /\ live' = live \ {current[2]}
  /\ Complete("ok") \/ Complete("failed")
  /\ UNCHANGED <<proxyVars, clientVars, issued>>

ServerAnswers ==
  \/ \E id \in LeaseIds : ServerGrants(id)
  \/ ServerFails
  \/ ServerRenews
  \/ ServerReleases

ServerExpires(id) ==
  /\ id \in live
  /\ live' = live \ {id}
  /\ UNCHANGED <<allProxyVars, clientVars, issued>>

\* Everything the lease thread does between two calls of the issuer.
LoopStep ==
  /\ Dispatch \/ (\E q \in Requests : Pick(q)) \/ Drained
  /\ UNCHANGED <<proxyVars, clientVars, serverVars>>

InsideProxy(c) == FinishCall(c) /\ UNCHANGED <<clientVars, serverVars>>

SystemNext ==
  \/ LoopStep
  \/ ServerAnswers
  \/ \E id \in LeaseIds : ServerExpires(id)
  \/ \E r \in Resources : ClientRestarts(r) \/ ClientStopsIdle(r)
  \/ \E c \in Callers :
       \/ InsideProxy(c)
       \/ ClientReturns(c)
       \/ \E r \in Resources :
            ClientAcquires(c, r) \/ ClientRenews(c, r) \/ ClientStops(c, r)

SystemSpec == SystemInit /\ [][SystemNext]_systemVars

\* The tick loop keeps calling for every client that was not stopped, calls
\* return, and the lease thread and the issuer make progress (FairSpec).
\* Nothing makes a client stop or restart, and no lease has to expire.
SystemFairSpec ==
  /\ SystemSpec
  /\ WF_systemVars(LoopStep)
  /\ WF_systemVars(ServerAnswers)
  /\ \A c \in Callers : WF_systemVars(InsideProxy(c)) /\ WF_systemVars(ClientReturns(c))
  /\ \A r \in Resources :
       WF_systemVars(\E c \in Callers : ClientAcquires(c, r) \/ ClientRenews(c, r))

-----------------------------------------------------------------------------
(* Properties.                                                             *)

SystemTypeOK ==
  /\ TypeOK
  /\ ProxyTypeOK
  /\ held \in [Resources -> LeaseIds \cup {None}]
  /\ stopped \subseteq Resources
  /\ dropped \subseteq LeaseIds
  /\ issued \subseteq LeaseIds
  /\ live \subseteq issued

\* Between calls a client holds exactly the lease the proxy has cached for
\* it: no client goes on with a lease the proxy has invalidated, and the
\* proxy hands out no grant its client has given up.
ClientAndCacheAgree ==
  \A r \in Resources : ~Calling(r) => held[r] = cachedGrants[r]

\* A lease that was given up (renewal failed, or released) never comes back,
\* neither to its client nor to another one.
GivenUpForGood ==
  \A r \in Resources : held[r] # None => held[r] \notin dropped

\* A client learns that its lease is gone: cached answers do not keep it
\* alive in the station for ever.
LossIsNoticed ==
  \A r \in Resources, id \in LeaseIds :
    held[r] = id /\ id \notin live ~> held[r] # id \/ r \in stopped

\* A client that keeps asking for a lease is not told "not ready" for ever.
AcquireIsAnswered ==
  \A r \in Resources :
    <<"acquire", r>> \in pending ~> <<"acquire", r>> \notin pending \/ r \in stopped
=============================================================================
