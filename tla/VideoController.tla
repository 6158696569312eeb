--------------------------- MODULE VideoController ---------------------------
(***************************************************************************)
(* Video/Controller on the controller thread: it takes the camera lease,   *)
(* renews it at half its duration, keeps one subscription to the stream    *)
(* and one GStreamer pipeline, and publishes a Status to the overlay.      *)
(*                                                                         *)
(* A tick calls four services in turn (lease issuer twice, subscription,   *)
(* pipeline builder); each call is a step here, and an error ends the tick *)
(* early.  Start, Stop and the endpoint slots are events of the same       *)
(* thread, so they run between ticks.  Deadlines are kept as the time that *)
(* is left until them, counted down as a tick begins.                      *)
(***************************************************************************)
EXTENDS Naturals

CONSTANTS
  LeaseIds,     (* the leases the issuer may grant                          *)
  Endpoints,    (* receive and subscription endpoints                       *)
  HalfLease,    (* half the duration of a lease, in units of time           *)
  RetryDelay,   (* m_Config.RetryDelay                                      *)
  LongestTick,  (* bound on the time between two ticks                      *)
  None          (* an absent value                                          *)

ASSUME VideoControllerAssumption ==
  /\ HalfLease \in Nat /\ RetryDelay \in Nat /\ LongestTick \in Nat
  /\ None \notin LeaseIds \cup Endpoints

VARIABLES
  phase,        (* how far the tick is: the call it makes next, or "idle"   *)
  started,      (* m_IsStarted                                              *)
  dirty,        (* m_IsDirty                                                *)
  lease,        (* m_LeaseGrant, or None                                    *)
  subscribed,   (* m_IsSubscribed                                           *)
  pipeline,     (* m_Pipeline: whether it runs and the endpoint it is for   *)
  receiveEp,    (* m_Config.ReceiveEndpoint                                 *)
  subscribeEp,  (* m_Config.SubscriptionEndpoint                            *)
  retryIn,      (* time left until m_NextRetryTime                          *)
  renewIn,      (* time left until m_NextLeaseRenewal                       *)
  published,    (* m_LastPublishedStatus, or None                           *)
  remote,       (* what the service streams: the last accepted Subscribe    *)
  leftBehind,   (* why it may stream what the controller does not know of   *)
  owed,         (* the leases granted and not asked back nor taken for lost *)
  overdue,      (* how long the issuer has not been asked for a due renewal *)
  calm          (* no service fails any more                                *)

config == <<receiveEp, subscribeEp>>
outside == <<remote, leftBehind, owed>>
history == <<outside, overdue>>
vars == <<phase, started, dirty, lease, subscribed, pipeline, config, retryIn,
          renewIn, published, history, calm>>

NoPipeline == [state |-> "none", ep |-> None]

Status(l, s, p) ==
  [started |-> started, lease |-> l, subscribed |-> s, running |-> p.state = "running"]

Init ==
  /\ phase = "idle"
  /\ started = FALSE /\ dirty = TRUE
  /\ lease = None /\ subscribed = FALSE
  /\ pipeline = NoPipeline
  /\ receiveEp \in Endpoints /\ subscribeEp \in Endpoints
  /\ retryIn = 0 /\ renewIn = 0
  /\ published = None
  /\ remote = None /\ leftBehind = "nothing" /\ owed = {} /\ overdue = 0
  /\ calm = FALSE

Left(time, dt) == IF time > dt THEN time - dt ELSE 0

\* The end of a tick that met an error: ScheduleRetry unless it was NotReady.
GiveUpTick(error) ==
  /\ phase' = "idle"
  /\ retryIn' = IF error = "notReady" THEN retryIn ELSE RetryDelay

ResetLeaseState == lease' = None /\ subscribed' = FALSE /\ renewIn' = 0

-----------------------------------------------------------------------------
(* The slots.                                                              *)

Start ==
  /\ phase = "idle"
  /\ ~started
  /\ started' = TRUE
  /\ dirty' = TRUE
  /\ retryIn' = 0
  /\ published' = [Status(lease, subscribed, pipeline) EXCEPT !.started = TRUE]
  /\ UNCHANGED <<phase, lease, subscribed, pipeline, config, renewIn, history, calm>>

\* The service is asked to end the stream the controller knows of.  The call
\* may fail, and nobody asks again.
Unsubscribe ==
  \/ subscribed /\ lease # None /\ remote' = None /\ leftBehind' = "nothing"
  \/ subscribed /\ lease # None /\ leftBehind' = "unsubscribe" /\ UNCHANGED remote
  \/ ~(subscribed /\ lease # None) /\ UNCHANGED <<remote, leftBehind>>

\* Mutant: the lease state is reset before the calls that need it.
Stop_ResetsFirst ==
  /\ phase = "idle"
  /\ started \/ pipeline # NoPipeline \/ lease # None
  /\ started' = FALSE
  /\ dirty' = TRUE
  /\ retryIn' = 0
  /\ pipeline' = NoPipeline
  /\ ResetLeaseState
  /\ published' = [Status(None, FALSE, NoPipeline) EXCEPT !.started = FALSE]
  /\ overdue' = 0
  /\ UNCHANGED <<phase, config, outside, calm>>

\* The lease is asked back; what ReleaseLease answers is ignored.
Stop ==
  /\ phase = "idle"
  /\ started \/ pipeline # NoPipeline \/ lease # None
  /\ started' = FALSE
  /\ dirty' = TRUE
  /\ retryIn' = 0
  /\ pipeline' = NoPipeline
  /\ Unsubscribe
  /\ owed' = owed \ {lease}
  /\ ResetLeaseState
  /\ published' = [Status(None, FALSE, NoPipeline) EXCEPT !.started = FALSE]
  /\ overdue' = 0
  /\ UNCHANGED <<phase, config, calm>>

SetReceiveEndpoint(ep) ==
  /\ phase = "idle"
  /\ receiveEp # ep
  /\ receiveEp' = ep
  /\ dirty' = TRUE
  /\ UNCHANGED <<phase, started, lease, subscribed, pipeline, subscribeEp, retryIn,
                 renewIn, published, history, calm>>

\* Mutant: a new endpoint does not end the subscription to the old one.
SetSubscriptionEndpoint_StaysSubscribed(ep) ==
  /\ phase = "idle"
  /\ subscribeEp # ep
  /\ subscribeEp' = ep
  /\ dirty' = TRUE
  /\ UNCHANGED <<phase, started, lease, subscribed, pipeline, receiveEp, retryIn,
                 renewIn, published, history, calm>>

\* The service is not told, and streams to the old endpoint.
SetSubscriptionEndpoint(ep) ==
  /\ phase = "idle"
  /\ subscribeEp # ep
  /\ subscribeEp' = ep
  /\ subscribed' = FALSE
  /\ leftBehind' = IF subscribed THEN "endpoint" ELSE leftBehind
  /\ dirty' = TRUE
  /\ UNCHANGED <<phase, started, lease, pipeline, receiveEp, retryIn, renewIn,
                 published, remote, owed, overdue, calm>>

-----------------------------------------------------------------------------
(* A tick, dt after the one before.                                        *)

\* The call a tick makes after the lease is there, and after it is renewed.
\* Mutant: the subscription comes before the renewal.
AfterAcquire_SubscribesFirst(left) ==
  IF ~subscribed THEN "subscribe" ELSE IF left = 0 THEN "renew" ELSE "pipeline"

AfterAcquire(left) == IF left = 0 THEN "renew"
                      ELSE IF ~subscribed THEN "subscribe" ELSE "pipeline"

AfterRenew == IF ~subscribed THEN "subscribe" ELSE "pipeline"

BeginTick(dt) ==
  /\ phase = "idle"
  /\ retryIn' = Left(retryIn, dt)
  /\ renewIn' = Left(renewIn, dt)
  /\ overdue' = IF lease = None \/ renewIn >= dt THEN 0
                ELSE overdue + (dt - renewIn)
  /\ phase' = IF ~started \/ retryIn' > 0 THEN "idle"
              ELSE IF lease = None THEN "acquire" ELSE AfterAcquire(renewIn')
  /\ UNCHANGED <<started, dirty, lease, subscribed, pipeline, config, published,
                 outside, calm>>

\* Mutant: a new lease does not mark the pipeline for a rebuild.
Acquired_NotDirty(l) ==
  /\ phase = "acquire"
  /\ lease' = l
  /\ subscribed' = FALSE
  /\ owed' = owed \cup {l}
  /\ renewIn' = HalfLease
  /\ phase' = IF HalfLease = 0 THEN "renew" ELSE "subscribe"
  /\ UNCHANGED <<started, dirty, pipeline, config, retryIn, published,
                 remote, leftBehind, overdue, calm>>

Acquired(l) ==
  /\ phase = "acquire"
  /\ lease' = l
  /\ subscribed' = FALSE
  /\ owed' = owed \cup {l}
  /\ dirty' = TRUE
  /\ renewIn' = HalfLease
  /\ phase' = IF HalfLease = 0 THEN "renew" ELSE "subscribe"
  /\ UNCHANGED <<started, pipeline, config, retryIn, published,
                 remote, leftBehind, overdue, calm>>

AcquireError(error) ==
  /\ phase = "acquire" /\ ~calm
  /\ GiveUpTick(error)
  /\ UNCHANGED <<started, dirty, lease, subscribed, pipeline, config, renewIn,
                 published, history, calm>>

Renewed ==
  /\ phase = "renew"
  /\ renewIn' = HalfLease
  /\ overdue' = 0
  /\ phase' = AfterRenew
  /\ UNCHANGED <<started, dirty, lease, subscribed, pipeline, config, retryIn,
                 published, outside, calm>>

\* NotReady: the answer is expected at a later tick, and this one goes on.
RenewNotReady ==
  /\ phase = "renew" /\ ~calm
  /\ overdue' = 0
  /\ phase' = AfterRenew
  /\ UNCHANGED <<started, dirty, lease, subscribed, pipeline, config, retryIn,
                 renewIn, published, outside, calm>>

LoseLease ==
  /\ owed' = owed \ {lease}
  /\ leftBehind' = IF subscribed THEN "lease" ELSE leftBehind

\* Mutant: the loss of the lease is not published.
RenewFailed_Unpublished ==
  /\ phase = "renew" /\ ~calm
  /\ ResetLeaseState
  /\ LoseLease
  /\ overdue' = 0
  /\ GiveUpTick("failed")
  /\ UNCHANGED <<started, dirty, pipeline, config, published, remote, calm>>

\* The lease is lost and the stream with it, as far as the controller knows; the
\* pipeline is left playing what it still receives.
RenewFailed ==
  /\ phase = "renew" /\ ~calm
  /\ ResetLeaseState
  /\ LoseLease
  /\ published' = Status(None, FALSE, pipeline)
  /\ overdue' = 0
  /\ GiveUpTick("failed")
  /\ UNCHANGED <<started, dirty, pipeline, config, remote, calm>>

Subscribed ==
  /\ phase = "subscribe"
  /\ subscribed' = TRUE
  /\ remote' = <<lease, subscribeEp>> /\ leftBehind' = "nothing"
  /\ phase' = "pipeline"
  /\ UNCHANGED <<started, dirty, lease, pipeline, config, retryIn, renewIn,
                 published, owed, overdue, calm>>

\* The call may have taken effect at the service although it failed.
SubscribeFailed ==
  /\ phase = "subscribe" /\ ~calm
  /\ \/ UNCHANGED <<remote, leftBehind>>
     \/ remote' = <<lease, subscribeEp>> /\ leftBehind' = "subscribe"
  /\ GiveUpTick("failed")
  /\ UNCHANGED <<started, dirty, lease, subscribed, pipeline, config, renewIn,
                 published, owed, overdue, calm>>

\* Mutant: a pipeline that does not run is kept as well.
PipelineKept_NotRunning ==
  /\ phase = "pipeline"
  /\ ~dirty
  /\ published' = Status(lease, subscribed, pipeline)
  /\ phase' = "idle"
  /\ UNCHANGED <<started, dirty, lease, subscribed, pipeline, config, retryIn,
                 renewIn, history, calm>>

\* A running pipeline that still fits is kept.
PipelineKept ==
  /\ phase = "pipeline"
  /\ ~dirty /\ pipeline.state = "running"
  /\ published' = Status(lease, subscribed, pipeline)
  /\ phase' = "idle"
  /\ UNCHANGED <<started, dirty, lease, subscribed, pipeline, config, retryIn,
                 renewIn, history, calm>>

\* RebuildPipeline and the publication that ends every tick that gets here.
\* A built pipeline that was told to play may still have failed to.
PipelineRebuilt ==
  /\ phase = "pipeline"
  /\ dirty \/ pipeline.state # "running"
  /\ pipeline' \in [state : {"running"} \cup IF calm THEN {} ELSE {"stopped"},
                    ep : {receiveEp}]
  /\ dirty' = FALSE
  /\ published' = Status(lease, subscribed, pipeline')
  /\ phase' = "idle"
  /\ UNCHANGED <<started, lease, subscribed, config, retryIn, renewIn, history, calm>>

\* The old pipeline does not stop (and stays as it is), Build throws (the old
\* one is kept, stopped), or the new one does not play.
RebuildFailed ==
  /\ phase = "pipeline" /\ ~calm
  /\ dirty \/ pipeline.state # "running"
  /\ \/ pipeline' = pipeline
     \/ pipeline.state = "running" /\ pipeline' = [pipeline EXCEPT !.state = "stopped"]
     \/ pipeline' = [state |-> "stopped", ep |-> receiveEp]
  /\ published' = Status(lease, subscribed, pipeline')
  /\ GiveUpTick("failed")
  /\ UNCHANGED <<started, dirty, lease, subscribed, config, renewIn, history, calm>>

TickStep ==
  \/ \E dt \in 1..LongestTick : BeginTick(dt)
  \/ \E l \in LeaseIds : Acquired(l)
  \/ \E error \in {"failed", "notReady"} : AcquireError(error)
  \/ Renewed \/ RenewNotReady \/ RenewFailed
  \/ Subscribed \/ SubscribeFailed
  \/ PipelineKept \/ PipelineRebuilt \/ RebuildFailed

-----------------------------------------------------------------------------
(* Around the controller.                                                  *)

\* The pipeline leaves its playing state without being told to.
PipelineEnds ==
  /\ pipeline.state = "running" /\ ~calm
  /\ pipeline' = [pipeline EXCEPT !.state = "stopped"]
  /\ UNCHANGED <<phase, started, dirty, lease, subscribed, config, retryIn, renewIn,
                 published, history, calm>>

\* From here on the network, the server and the window behave.
GetsCalm == ~calm /\ calm' = TRUE /\ UNCHANGED
  <<phase, started, dirty, lease, subscribed, pipeline, config, retryIn, renewIn,
    published, history>>

Next ==
  \/ TickStep
  \/ Start \/ Stop
  \/ \E ep \in Endpoints : SetReceiveEndpoint(ep) \/ SetSubscriptionEndpoint(ep)
  \/ PipelineEnds
  \/ GetsCalm

Spec == Init /\ [][Next]_vars

\* The TickRunner keeps ticking and every call of a tick returns.
FairSpec == Spec /\ WF_vars(TickStep)

-----------------------------------------------------------------------------
(* Properties.                                                             *)

Statuses == [started : BOOLEAN, lease : LeaseIds \cup {None},
             subscribed : BOOLEAN, running : BOOLEAN]

Reasons == {"nothing", "endpoint", "subscribe", "unsubscribe", "lease"}

TypeOK ==
  /\ phase \in {"idle", "acquire", "renew", "subscribe", "pipeline"}
  /\ started \in BOOLEAN /\ dirty \in BOOLEAN
  /\ lease \in LeaseIds \cup {None}
  /\ subscribed \in BOOLEAN
  /\ pipeline \in [state : {"none", "stopped", "running"}, ep : Endpoints \cup {None}]
  /\ receiveEp \in Endpoints /\ subscribeEp \in Endpoints
  /\ retryIn \in 0..RetryDelay
  /\ renewIn \in 0..HalfLease
  /\ published \in Statuses \cup {None}
  /\ remote \in (LeaseIds \X Endpoints) \cup {None}
  /\ leftBehind \in Reasons
  /\ owed \subseteq LeaseIds
  /\ overdue \in 0..(RetryDelay + LongestTick)
  /\ calm \in BOOLEAN

\* What the controller believes of its subscription is what it last agreed on
\* with the service: for the lease it has now, to the endpoint it has now.
SubscriptionIsCurrent == subscribed => remote = <<lease, subscribeEp>>

\* A pipeline that is not marked for a rebuild listens on the endpoint in
\* force, and one that outlived its lease is marked before a tick can take it
\* for that of the next lease, which is then still unpublished.
PipelineIsCurrent ==
  /\ ~dirty => pipeline.ep = receiveEp
  /\ lease # None /\ published.lease # lease => dirty

\* Once stopped the controller has asked back whatever it took, wherever the
\* stop fell among failing calls and changes of endpoint, and no tick after
\* the stop takes anything again.  Every lease it was ever granted was asked
\* back, unless a renewal of it had failed, which the code takes for its loss;
\* the pipeline is gone; and the service streams nothing, unless it is what
\* the controller was not told of or forgot: a Subscribe or an Unsubscribe that
\* failed, a subscription to an endpoint that was changed since (no
\* Unsubscribe is sent for it), or one of a lease taken for lost.
StoppedHoldsNothing ==
  ~started =>
    /\ owed = {} /\ lease = None
    /\ pipeline = NoPipeline
    /\ remote # None => leftBehind # "nothing"

\* The operator is never shown a camera lease that is not there, though most
\* early returns of a tick publish nothing; and between ticks a subscribed
\* controller has told of its lease.
StatusIsHonest ==
  published # None =>
    /\ published.lease # None => published.lease = lease
    /\ published.started = started
    /\ phase = "idle" /\ subscribed => published.lease = lease

\* Retries of a failing subscription or pipeline share m_NextRetryTime with
\* the renewals of the lease and hold them up, but not by more than one
\* RetryDelay: what is left of the delay and the time lost stay within it.
RenewalIsPrompt == phase = "idle" => overdue + retryIn <= RetryDelay

\* Whatever failed before, once the services behave the controller comes to a
\* pipeline that runs for the endpoint in force, under a lease and subscribed,
\* and the overlay that says there is no lease goes away.
Streaming ==
  /\ lease # None /\ subscribed
  /\ pipeline = [state |-> "running", ep |-> receiveEp]
  /\ published = Status(lease, TRUE, pipeline)

Recovers == started /\ calm ~> Streaming \/ ~started
=============================================================================
