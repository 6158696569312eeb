------------------------ MODULE VideoControllerProofs ------------------------
(***************************************************************************)
(* The safety properties of VideoController for every set of leases and    *)
(* endpoints and all durations.                                            *)
(***************************************************************************)
EXTENDS VideoController, TLAPS

\* The types, those of the times apart: the provers take numbers and Boolean
\* variables one at a time.
TimesOK ==
  /\ retryIn \in 0..RetryDelay
  /\ renewIn \in 0..HalfLease
  /\ overdue \in 0..(RetryDelay + LongestTick)

ValuesOK ==
  /\ phase \in {"idle", "acquire", "renew", "subscribe", "pipeline"}
  /\ started \in BOOLEAN /\ dirty \in BOOLEAN
  /\ lease \in LeaseIds \cup {None}
  /\ subscribed \in BOOLEAN
  /\ pipeline \in [state : {"none", "stopped", "running"}, ep : Endpoints \cup {None}]
  /\ receiveEp \in Endpoints /\ subscribeEp \in Endpoints
  /\ published \in Statuses \cup {None}
  /\ remote \in (LeaseIds \X Endpoints) \cup {None}
  /\ leftBehind \in Reasons
  /\ owed \subseteq LeaseIds
  /\ calm \in BOOLEAN

LEMMA TypeParts == TypeOK <=> TimesOK /\ ValuesOK
  BY Zenon DEF TypeOK, TimesOK, ValuesOK

\* Where in a tick the controller is says what it has: a tick past its first
\* guard is one of a started controller, and each call is made only when the
\* ones before it are done.
PhaseInv ==
  /\ phase # "idle" => started
  /\ phase = "acquire" => lease = None
  /\ phase \in {"renew", "subscribe", "pipeline"} => lease # None
  /\ phase = "subscribe" => ~subscribed
  /\ phase = "pipeline" => subscribed

\* In a tick the delay is over; the lost time is gone once the renewal is
\* behind the tick, and within bounds when the tick is about to ask for it.
OverdueInv ==
  /\ phase # "idle" => retryIn = 0
  /\ phase \in {"acquire", "subscribe", "pipeline"} => overdue = 0
  /\ phase = "renew" => overdue <= RetryDelay + LongestTick
  /\ lease = None => overdue = 0

\* There is no subscription without a lease, and neither once stopped.
LeaseInv ==
  /\ lease = None => ~subscribed
  /\ ~started => lease = None /\ pipeline = NoPipeline

\* What the controller has and what it knows of that.
HoldInv ==
  /\ PhaseInv
  /\ LeaseInv
  /\ SubscriptionIsCurrent
  /\ PipelineIsCurrent
  /\ StatusIsHonest

\* Every lease granted is held until it is asked back or lost; what the
\* service streams is known to the controller, or was left behind.
OutsideInv ==
  /\ owed = IF lease = None THEN {} ELSE {lease}
  /\ remote # None => subscribed \/ leftBehind # "nothing"

\* How the times relate.
TimeInv ==
  /\ TimesOK
  /\ OverdueInv
  /\ RenewalIsPrompt

IInv == ValuesOK /\ HoldInv /\ OutsideInv /\ TimeInv

-----------------------------------------------------------------------------
Pipelines == [state : {"none", "stopped", "running"}, ep : Endpoints \cup {None}]

\* Published statuses are well typed.
LEMMA StatusType ==
  ASSUME NEW l \in LeaseIds \cup {None}, NEW s \in BOOLEAN, NEW p \in Pipelines,
         started \in BOOLEAN
  PROVE  Status(l, s, p) \in Statuses
  BY DEF Status, Statuses, Pipelines

LEMMA NoPipelineType == NoPipeline \in Pipelines /\ NoPipeline.state = "none"
  BY DEF NoPipeline, Pipelines
-----------------------------------------------------------------------------
\* Values keep their types.
LEMMA ValuesStep == ValuesOK /\ HoldInv /\ [Next]_vars => ValuesOK'
<1> SUFFICES ASSUME ValuesOK, HoldInv, [Next]_vars
             PROVE  ValuesOK'
  OBVIOUS
<1> USE NoPipelineType DEF ValuesOK, HoldInv, PhaseInv, Pipelines, config, outside, history
<1>1. CASE Start
  BY <1>1, StatusType DEF Start, Status, Statuses
<1>2. CASE Stop
  <2>1. published' \in Statuses
    BY <1>2 DEF Stop, Status, Statuses
  <2>2. /\ remote' \in (LeaseIds \X Endpoints) \cup {None}
        /\ leftBehind' \in Reasons /\ owed' \subseteq LeaseIds
    BY <1>2 DEF Stop, Unsubscribe, Reasons
  <2> QED
    BY <1>2, <2>1, <2>2 DEF Stop, ResetLeaseState
<1>3. CASE \E ep \in Endpoints : SetReceiveEndpoint(ep)
  BY <1>3 DEF SetReceiveEndpoint
<1>4. CASE \E ep \in Endpoints : SetSubscriptionEndpoint(ep)
  BY <1>4 DEF SetSubscriptionEndpoint, Reasons
<1>5. CASE \E dt \in 1..LongestTick : BeginTick(dt)
  BY <1>5 DEF BeginTick, AfterAcquire
<1>6. CASE \E l \in LeaseIds : Acquired(l)
  BY <1>6 DEF Acquired
<1>7. CASE \E error \in {"failed", "notReady"} : AcquireError(error)
  BY <1>7 DEF AcquireError, GiveUpTick
<1>8. CASE Renewed
  BY <1>8 DEF Renewed, AfterRenew
<1>9. CASE RenewNotReady
  BY <1>9 DEF RenewNotReady, AfterRenew
<1>10. CASE RenewFailed
  BY <1>10, StatusType DEF RenewFailed, LoseLease, Reasons, ResetLeaseState, GiveUpTick
<1>11. CASE Subscribed
  BY <1>11 DEF Subscribed, Reasons
<1>12. CASE SubscribeFailed
  BY <1>12 DEF SubscribeFailed, Reasons, GiveUpTick
<1>13. CASE PipelineKept
  BY <1>13, StatusType DEF PipelineKept
<1>14. CASE PipelineRebuilt
  <2>1. pipeline' \in Pipelines
    BY <1>14 DEF PipelineRebuilt
  <2>2. published' \in Statuses
    BY <1>14, <2>1, StatusType DEF PipelineRebuilt
  <2> QED
    BY <1>14, <2>1, <2>2 DEF PipelineRebuilt
<1>15. CASE RebuildFailed
  <2>1. pipeline' \in Pipelines
    BY <1>15 DEF RebuildFailed
  <2>2. published' \in Statuses
    BY <1>15, <2>1, StatusType DEF RebuildFailed
  <2> QED
    BY <1>15, <2>1, <2>2 DEF RebuildFailed, GiveUpTick
<1>16. CASE PipelineEnds
  BY <1>16 DEF PipelineEnds
<1>17. CASE GetsCalm
  BY <1>17 DEF GetsCalm
<1>18. CASE UNCHANGED vars
  BY <1>18 DEF vars
<1> QED
  BY <1>1, <1>2, <1>3, <1>4, <1>5, <1>6, <1>7, <1>8, <1>9,
     <1>10, <1>11, <1>12, <1>13, <1>14, <1>15, <1>16, <1>17, <1>18 DEF Next, TickStep

\* The controller keeps what it has and what it knows of it in step.
LEMMA HoldStep == ValuesOK /\ HoldInv /\ [Next]_vars => HoldInv'
<1> SUFFICES ASSUME ValuesOK, HoldInv, [Next]_vars
             PROVE  HoldInv'
  OBVIOUS
<1> USE VideoControllerAssumption
    DEF ValuesOK, HoldInv, PhaseInv, LeaseInv,
        SubscriptionIsCurrent, PipelineIsCurrent, StatusIsHonest, config, outside, history
<1>1. CASE Start
  BY <1>1 DEF Start, Status, Statuses
<1>2. CASE Stop
  BY <1>2 DEF Stop, Unsubscribe, ResetLeaseState, Status, Statuses, NoPipeline
<1>3. CASE \E ep \in Endpoints : SetReceiveEndpoint(ep)
  BY <1>3 DEF SetReceiveEndpoint
<1>4. CASE \E ep \in Endpoints : SetSubscriptionEndpoint(ep)
  BY <1>4 DEF SetSubscriptionEndpoint
<1>5. CASE \E dt \in 1..LongestTick : BeginTick(dt)
  BY <1>5 DEF BeginTick, AfterAcquire
<1>6. CASE \E l \in LeaseIds : Acquired(l)
  <2> PICK l \in LeaseIds : Acquired(l)
    BY <1>6
  <2>1. lease = None /\ started /\ lease' = l /\ ~subscribed' /\ dirty'
    BY DEF Acquired
  <2>2. UNCHANGED <<started, pipeline, receiveEp, published, remote>>
    BY DEF Acquired
  <2>3. phase' = "renew" \/ phase' = "subscribe"
    BY DEF Acquired
  <2>4. published # None => published.lease = None /\ published.started = started
    BY <2>1
  <2> QED
    BY <2>1, <2>2, <2>3, <2>4
<1>7. CASE \E error \in {"failed", "notReady"} : AcquireError(error)
  <2>1. phase = "acquire" /\ phase' = "idle" /\ lease = None /\ ~subscribed
    BY <1>7 DEF AcquireError, GiveUpTick
  <2>2. UNCHANGED <<started, dirty, lease, subscribed, pipeline, receiveEp,
                    subscribeEp, published, remote>>
    BY <1>7 DEF AcquireError
  <2> QED
    BY <2>1, <2>2
<1>8. CASE Renewed
  BY <1>8 DEF Renewed, AfterRenew
<1>9. CASE RenewNotReady
  BY <1>9 DEF RenewNotReady, AfterRenew
<1>10. CASE RenewFailed
  <2>1. phase = "renew" /\ phase' = "idle" /\ lease' = None /\ ~subscribed'
    BY <1>10 DEF RenewFailed, ResetLeaseState, GiveUpTick
  <2>2. UNCHANGED <<started, dirty, pipeline, receiveEp>>
    BY <1>10 DEF RenewFailed
  <2>3. published' = Status(None, FALSE, pipeline)
    BY <1>10 DEF RenewFailed
  <2>4. published'.lease = None /\ published'.started = started
    BY <2>3 DEF Status
  <2> QED
    BY <2>1, <2>2, <2>4
<1>11. CASE Subscribed
  BY <1>11 DEF Subscribed
<1>12. CASE SubscribeFailed
  BY <1>12 DEF SubscribeFailed, GiveUpTick
<1>13. CASE PipelineKept
  <2>1. phase = "pipeline" /\ phase' = "idle" /\ started /\ lease # None
    BY <1>13 DEF PipelineKept
  <2>2. UNCHANGED <<started, dirty, lease, subscribed, pipeline, receiveEp,
                    subscribeEp, remote>>
    BY <1>13 DEF PipelineKept
  <2>3. published'.lease = lease /\ published'.started = started
    BY <1>13 DEF PipelineKept, Status
  <2> QED
    BY <2>1, <2>2, <2>3
<1>14. CASE PipelineRebuilt
  <2>1. phase = "pipeline" /\ phase' = "idle" /\ started /\ lease # None
    BY <1>14 DEF PipelineRebuilt
  <2>2. UNCHANGED <<started, lease, subscribed, receiveEp, subscribeEp, remote>>
    BY <1>14 DEF PipelineRebuilt
  <2>3. published'.lease = lease /\ published'.started = started
    BY <1>14 DEF PipelineRebuilt, Status
  <2>4. pipeline'.ep = receiveEp
    BY <1>14 DEF PipelineRebuilt
  <2> QED
    BY <2>1, <2>2, <2>3, <2>4
<1>15. CASE RebuildFailed
  <2>1. phase = "pipeline" /\ phase' = "idle" /\ started /\ lease # None
    BY <1>15 DEF RebuildFailed, GiveUpTick
  <2>2. UNCHANGED <<started, dirty, lease, subscribed, receiveEp, subscribeEp, remote>>
    BY <1>15 DEF RebuildFailed
  <2>3. published'.lease = lease /\ published'.started = started
    BY <1>15 DEF RebuildFailed, Status
  <2>4. pipeline'.ep = pipeline.ep \/ pipeline'.ep = receiveEp
    BY <1>15 DEF RebuildFailed
  <2> QED
    BY <2>1, <2>2, <2>3, <2>4
<1>16. CASE PipelineEnds
  BY <1>16 DEF PipelineEnds, NoPipeline
<1>17. CASE GetsCalm
  BY <1>17 DEF GetsCalm
<1>18. CASE UNCHANGED vars
  BY <1>18 DEF vars
<1> QED
  BY <1>1, <1>2, <1>3, <1>4, <1>5, <1>6, <1>7, <1>8, <1>9,
     <1>10, <1>11, <1>12, <1>13, <1>14, <1>15, <1>16, <1>17, <1>18 DEF Next, TickStep

\* What the issuer granted and what the service streams is accounted for: by
\* the calls that change it, and by those that let it go.
LEMMA OutsideStep == ValuesOK /\ HoldInv /\ OutsideInv /\ [Next]_vars => OutsideInv'
<1> SUFFICES ASSUME ValuesOK, HoldInv, OutsideInv, [Next]_vars
             PROVE  OutsideInv'
  OBVIOUS
<1> USE VideoControllerAssumption
<1>1. lease = None => owed = {} /\ ~subscribed
  BY DEF OutsideInv, HoldInv, LeaseInv
<1>2. CASE Stop
  <2>1. lease' = None /\ owed' = {}
    BY <1>1, <1>2 DEF Stop, ResetLeaseState, OutsideInv
  <2>2. remote' # None => leftBehind' # "nothing"
    BY <1>1, <1>2 DEF Stop, Unsubscribe, OutsideInv
  <2> QED
    BY <2>1, <2>2 DEF OutsideInv
<1>3. CASE RenewFailed
  <2>1. lease' = None /\ owed' = {} /\ remote' = remote
    BY <1>1, <1>3 DEF RenewFailed, ResetLeaseState, LoseLease, OutsideInv
  <2>2. remote # None => leftBehind' # "nothing"
    BY <1>3 DEF RenewFailed, LoseLease, OutsideInv
  <2> QED
    BY <2>1, <2>2 DEF OutsideInv
<1>4. CASE \E l \in LeaseIds : Acquired(l)
  <2> PICK l \in LeaseIds : Acquired(l)
    BY <1>4
  <2>1. /\ lease = None /\ lease' = l /\ lease' # None /\ owed' = {l}
        /\ UNCHANGED <<remote, leftBehind>>
    BY <1>1 DEF Acquired, HoldInv, PhaseInv
  <2> QED
    BY <1>1, <2>1 DEF OutsideInv
<1>5. CASE \E ep \in Endpoints : SetSubscriptionEndpoint(ep)
  BY <1>5 DEF SetSubscriptionEndpoint, OutsideInv
<1>6. CASE Subscribed
  BY <1>6 DEF Subscribed, OutsideInv
<1>7. CASE SubscribeFailed
  BY <1>7 DEF SubscribeFailed, OutsideInv
<1>8. CASE UNCHANGED <<outside, lease, subscribed>>
  BY <1>8 DEF outside, OutsideInv
<1>9. \/ Stop \/ RenewFailed \/ (\E l \in LeaseIds : Acquired(l))
      \/ (\E ep \in Endpoints : SetSubscriptionEndpoint(ep))
      \/ Subscribed \/ SubscribeFailed
      \/ UNCHANGED <<outside, lease, subscribed>>
  BY DEF Next, TickStep, Start, SetReceiveEndpoint, BeginTick, AcquireError, Renewed,
         RenewNotReady, PipelineKept, PipelineRebuilt, RebuildFailed, PipelineEnds,
         GetsCalm, vars, history
<1> QED
  BY <1>2, <1>3, <1>4, <1>5, <1>6, <1>7, <1>8, <1>9

\* No tick loses more time than the delay that holds the renewal up.
LEMMA TimeStep == ValuesOK /\ HoldInv /\ TimeInv /\ [Next]_vars => TimeInv'
<1> SUFFICES ASSUME ValuesOK, HoldInv, TimeInv, [Next]_vars
             PROVE  TimeInv'
  OBVIOUS
<1> USE VideoControllerAssumption
    DEF TimeInv, TimesOK, OverdueInv, RenewalIsPrompt, HoldInv, PhaseInv, LeaseInv,
        config, outside, history
<1>1. CASE Start
  BY <1>1 DEF Start
<1>2. CASE Stop
  BY <1>2 DEF Stop, ResetLeaseState
<1>3. CASE \E ep \in Endpoints : SetReceiveEndpoint(ep)
  BY <1>3 DEF SetReceiveEndpoint
<1>4. CASE \E ep \in Endpoints : SetSubscriptionEndpoint(ep)
  BY <1>4 DEF SetSubscriptionEndpoint
<1>5. CASE \E dt \in 1..LongestTick : BeginTick(dt)
  BY <1>5 DEF BeginTick, AfterAcquire, Left
<1>6. CASE \E l \in LeaseIds : Acquired(l)
  BY <1>6 DEF Acquired
<1>7. CASE \E error \in {"failed", "notReady"} : AcquireError(error)
  BY <1>7 DEF AcquireError, GiveUpTick
<1>8. CASE Renewed
  BY <1>8 DEF Renewed, AfterRenew
<1>9. CASE RenewNotReady
  BY <1>9 DEF RenewNotReady, AfterRenew
<1>10. CASE RenewFailed
  BY <1>10 DEF RenewFailed, ResetLeaseState, GiveUpTick
<1>11. CASE Subscribed
  BY <1>11 DEF Subscribed
<1>12. CASE SubscribeFailed
  BY <1>12 DEF SubscribeFailed, GiveUpTick
<1>13. CASE PipelineKept
  BY <1>13 DEF PipelineKept
<1>14. CASE PipelineRebuilt
  BY <1>14 DEF PipelineRebuilt
<1>15. CASE RebuildFailed
  BY <1>15 DEF RebuildFailed, GiveUpTick
<1>16. CASE PipelineEnds
  BY <1>16 DEF PipelineEnds
<1>17. CASE GetsCalm
  BY <1>17 DEF GetsCalm
<1>18. CASE UNCHANGED vars
  BY <1>18 DEF vars
<1> QED
  BY <1>1, <1>2, <1>3, <1>4, <1>5, <1>6, <1>7, <1>8, <1>9,
     <1>10, <1>11, <1>12, <1>13, <1>14, <1>15, <1>16, <1>17, <1>18 DEF Next, TickStep

-----------------------------------------------------------------------------
LEMMA InitIInv == Init => IInv
<1> USE VideoControllerAssumption
<1> SUFFICES ASSUME Init PROVE IInv
  OBVIOUS
<1>1. ValuesOK
  BY NoPipelineType DEF Init, ValuesOK, Pipelines, Reasons
<1>2. HoldInv
  BY DEF Init, HoldInv, PhaseInv, LeaseInv, SubscriptionIsCurrent,
         PipelineIsCurrent, StatusIsHonest
<1>3. TimeInv
  BY DEF Init, TimeInv, TimesOK, OverdueInv, RenewalIsPrompt
<1>4. OutsideInv
  BY DEF Init, OutsideInv
<1> QED
  BY <1>1, <1>2, <1>3, <1>4 DEF IInv

LEMMA Inductive == Spec => []IInv
<1>1. IInv /\ [Next]_vars => IInv'
  BY ValuesStep, HoldStep, OutsideStep, TimeStep DEF IInv
<1> QED
  BY InitIInv, <1>1, PTL DEF Spec

\* The state of the controller keeps its type; above all no deadline is ever
\* further away than the delay or the half lease it was set to, and a renewal
\* is never overdue for longer than a delay and a tick.
THEOREM VideoTypeCorrect == Spec => []TypeOK
<1>1. IInv => TypeOK
  BY TypeParts DEF IInv, TimeInv
<1> QED
  BY Inductive, <1>1, PTL

\* m_IsSubscribed is never left over from another lease or endpoint
\* (Controller.cpp:119-133, 259-276, 321-326).
THEOREM SubscriptionStaysCurrent == Spec => []SubscriptionIsCurrent
<1>1. IInv => SubscriptionIsCurrent
  BY DEF IInv, HoldInv
<1> QED
  BY Inductive, <1>1, PTL

\* m_IsDirty is set whenever the pipeline is not the one to keep
\* (Controller.cpp:104-117, 217-231, 278-307).
THEOREM PipelineStaysCurrent == Spec => []PipelineIsCurrent
<1>1. IInv => PipelineIsCurrent
  BY DEF IInv, HoldInv
<1> QED
  BY Inductive, <1>1, PTL

\* Whatever was granted by the issuer was asked back by Stop or taken for lost
\* before, a stream that goes on was left behind in one of the ways that
\* leftBehind names, and no later tick of the stopped controller takes anything
\* (Controller.cpp:60-102, 119-133, 154-157, 233-276).
THEOREM StopReleasesEverything == Spec => []StoppedHoldsNothing
<1>1. IInv => StoppedHoldsNothing
  BY DEF IInv, HoldInv, LeaseInv, OutsideInv, StoppedHoldsNothing
<1> QED
  BY Inductive, <1>1, PTL

\* The overlay never shows a lease that is gone, on whatever path a tick
\* returned (Controller.cpp:145-205, 309-319).
THEOREM StatusStaysHonest == Spec => []StatusIsHonest
<1>1. IInv => StatusIsHonest
  BY DEF IInv, HoldInv
<1> QED
  BY Inductive, <1>1, PTL

\* However ticks and errors fall, a renewal that is due reaches the issuer
\* within one RetryDelay and the tick that follows it
\* (Controller.cpp:145-205, 233-257, 328-331).
THEOREM RenewalStaysPrompt == Spec => []RenewalIsPrompt
<1>1. IInv => RenewalIsPrompt
  BY DEF IInv, TimeInv
<1> QED
  BY Inductive, <1>1, PTL
=============================================================================
