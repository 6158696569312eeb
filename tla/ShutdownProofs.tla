--------------------------- MODULE ShutdownProofs ---------------------------
(***************************************************************************)
(* Theorems about Shutdown, for every bound on the events: the order in    *)
(* which threads and subsystems go, whatever the queue of the controller   *)
(* thread holds and whatever a tick is doing when the application quits.   *)
(***************************************************************************)
EXTENDS Shutdown, TLAPS

\* What waits in the queue of the controller thread: the one call the GUI
\* thread waits for, and the start of the runner, once.
QueueInv ==
  /\ \A i \in DOMAIN queue : queue[i] \in Steps => queue[i] = gui /\ ~replied
  /\ \A i, j \in DOMAIN queue : queue[i] = queue[j] => i = j
  /\ ctl = "starting" \/ restarted => \A i \in DOMAIN queue : queue[i] # "start"

\* The GUI thread knows that the runner has handled its Stop.
StopIsHandled == gui \notin {"serving", "stopRunner"} \/ (gui = "stopRunner" /\ replied)

\* Stop ends the loop before the next tick, and is undone by a Start only.
StopInv ==
  /\ StopIsHandled => stopRequested \/ restarted
  /\ stopRequested => ~InTick
  /\ ctl = "starting" => ~restarted

IInv == TypeOK /\ QueueInv /\ StopInv /\ NoTickOnDestroyed /\ LostOnlyWithItsEvent

-----------------------------------------------------------------------------
(* Queues.                                                                 *)

\* What is in a queue after one more event was posted.
LEMMA PostedEvents ==
  ASSUME NEW S, NEW q \in Seq(S), NEW e \in S
  PROVE  /\ Append(q, e) \in Seq(S)
         /\ DOMAIN Append(q, e) = DOMAIN q \cup {Len(q) + 1}
         /\ Append(q, e)[Len(q) + 1] = e /\ Len(q) + 1 \notin DOMAIN q
         /\ \A i \in DOMAIN q : Append(q, e)[i] = q[i]
OBVIOUS

\* What is in a queue after its first event was taken.
LEMMA TakenEvents ==
  ASSUME NEW S, NEW q \in Seq(S), q # <<>>
  PROVE  /\ Tail(q) \in Seq(S)
         /\ 1 \in DOMAIN q /\ Head(q) = q[1]
         /\ \A i \in DOMAIN Tail(q) :
              i + 1 \in DOMAIN q /\ i + 1 # 1 /\ Tail(q)[i] = q[i + 1]
         /\ \A i, j \in DOMAIN Tail(q) : i + 1 = j + 1 => i = j
OBVIOUS

\* A release that is queued has its event.
LEMMA ReleasesFacts ==
  ASSUME TypeOK, LostOnlyWithItsEvent, NEW c \in Clients, Releases(c), lease' = lease
  PROVE  /\ leased' \subseteq Clients /\ unsent' \subseteq Clients
         /\ events' \in 0..MaxEvents
         /\ LostOnlyWithItsEvent'
<1> USE ShutdownAssumption DEF TypeOK
<1>1. CASE c \in leased
  <2>1. leased' = leased \ {c} /\ unsent' = unsent \cup {c} /\ events < MaxEvents
        /\ events' = events + 1
    BY <1>1 DEF Releases
  <2>2. events' \in 0..MaxEvents /\ events' > 0
    BY <2>1
  <2> QED BY <2>1, <2>2 DEF LostOnlyWithItsEvent
<1>2. CASE c \notin leased
  BY <1>2 DEF Releases, LostOnlyWithItsEvent
<1> QED BY <1>1, <1>2

-----------------------------------------------------------------------------

LEMMA InitIInv == Init => IInv
<1> SUFFICES ASSUME Init PROVE IInv
  OBVIOUS
<1>1. queue = <<>>
  BY DEF Init
<1>2. TypeOK
  <2>1. queue \in Seq(Steps \cup {"start"})
    BY <1>1
  <2>2. events \in 0..MaxEvents
    BY ShutdownAssumption DEF Init
  <2> QED BY <2>1, <2>2 DEF Init, TypeOK
<1> QED BY <1>1, <1>2
        DEF Init, IInv, QueueInv, StopInv, StopIsHandled, NoTickOnDestroyed,
            LostOnlyWithItsEvent, InTick

\* The GUI thread posts a call, having heard the answer to the one before.
LEMMA CallKeepsInv ==
  ASSUME IInv, NEW step \in Steps, Call(step),
         \/ gui = "serving" /\ step = "stopRunner"
         \/ gui \in Steps /\ gui # "delete" /\ replied /\ step # "stopRunner",
         UNCHANGED <<ctl, stopRequested, restarted, ctlQuit, leaseVars>>
  PROVE  IInv'
<1> USE DEF IInv
<1>1. queue' = Append(queue, step) /\ gui' = step /\ replied' = FALSE
  BY DEF Call
<1>2. queue \in Seq(Steps \cup {"start"})
  BY DEF TypeOK
<1>3. TypeOK'
  <2>1. queue' \in Seq(Steps \cup {"start"})
    BY <1>1, <1>2, PostedEvents
  <2> QED BY <1>1, <2>1 DEF TypeOK, leaseVars
<1>4. \A i \in DOMAIN queue : queue[i] = "start"
  BY <1>2 DEF QueueInv, Steps
<1>5. QueueInv'
  BY <1>1, <1>2, <1>4, PostedEvents DEF QueueInv, Steps
<1>6. StopInv'
  BY <1>1 DEF StopInv, StopIsHandled, InTick, Steps
<1>7. NoTickOnDestroyed' /\ LostOnlyWithItsEvent'
  BY <1>1 DEF NoTickOnDestroyed, LostOnlyWithItsEvent, leaseVars, Steps
<1> QED BY <1>3, <1>5, <1>6, <1>7

\* The controller thread handles the call the GUI thread waits for.
LEMMA HandleKeepsInv ==
  ASSUME IInv, NEW step \in Steps, Handle(step), ctl \in {"loop", "sleeping"}
  PROVE  IInv'
<1> USE DEF IInv
<1>1. /\ queue # <<>> /\ Head(queue) = step /\ queue' = Tail(queue)
      /\ replied' = TRUE /\ stopRequested' = (stopRequested \/ step = "stopRunner")
      /\ UNCHANGED <<gui, ctl, restarted, ctlQuit, lease, leaseQuit>>
  BY DEF Handle
<1>2. queue \in Seq(Steps \cup {"start"})
  BY DEF TypeOK
<1>3. gui = step
  BY <1>1, <1>2, TakenEvents DEF QueueInv
<1>4. /\ leased' \subseteq Clients /\ unsent' \subseteq Clients
      /\ events' \in 0..MaxEvents /\ LostOnlyWithItsEvent'
  <2>1. CASE step = "stopVideo"
    BY <1>1, <2>1, ReleasesFacts DEF Handle, Clients
  <2>2. CASE step # "stopVideo"
    BY <1>1, <2>2 DEF Handle, TypeOK, LostOnlyWithItsEvent
  <2> QED BY <2>1, <2>2
<1>5. TypeOK'
  <2>1. queue' \in Seq(Steps \cup {"start"})
    BY <1>1, <1>2, TakenEvents
  <2>2. stopRequested' \in BOOLEAN
    BY <1>1 DEF TypeOK
  <2> QED BY <1>1, <1>4, <2>1, <2>2 DEF TypeOK
<1>6. \A i \in DOMAIN queue' : queue'[i] = "start"
  <2>1. ASSUME NEW i \in DOMAIN queue' PROVE queue'[i] \notin Steps
    <3>1. i + 1 \in DOMAIN queue /\ i + 1 # 1 /\ queue'[i] = queue[i + 1]
          /\ 1 \in DOMAIN queue /\ queue[1] = gui
      BY <1>1, <1>2, <1>3, TakenEvents
    <3> QED BY <3>1 DEF QueueInv
  <2> QED BY <1>5, <2>1 DEF TypeOK
<1>7. QueueInv'
  BY <1>1, <1>2, <1>6, TakenEvents DEF QueueInv, Steps
<1>8. StopInv'
  BY <1>1, <1>3 DEF StopInv, StopIsHandled, InTick, Steps
<1>9. NoTickOnDestroyed'
  BY <1>1 DEF NoTickOnDestroyed
<1> QED BY <1>4, <1>5, <1>7, <1>8, <1>9

\* The GUI thread goes on without a call: it was answered, or makes none.
LEMMA GuiStepKeepsInv ==
  ASSUME IInv,
         GuiQuitsControllers \/ GuiJoinsControllers \/ GuiDestroysControl
           \/ GuiDestroysTelemetry \/ GuiQuitsLease \/ GuiExits
  PROVE  IInv'
<1> USE DEF IInv
<1>1. /\ gui \in {"delete", "join", "destroyControl", "destroyTelemetry", "quitLease", "joinLease"}
      /\ gui' \in {"join", "destroyControl", "destroyTelemetry", "quitLease", "joinLease", "exited"}
      /\ gui = "delete" => replied
      /\ gui = "delete" <=> gui' = "join"
      /\ UNCHANGED <<replied, ctl, queue, stopRequested, restarted, lease>>
  BY DEF GuiQuitsControllers, GuiJoinsControllers, GuiDestroysControl, GuiDestroysTelemetry,
         GuiQuitsLease, GuiExits, ctlVars, leaseVars
<1>2. /\ leased' \subseteq Clients /\ unsent' \subseteq Clients
      /\ events' \in 0..MaxEvents /\ LostOnlyWithItsEvent'
  <2>1. CASE GuiDestroysControl
    BY <1>1, <2>1, ReleasesFacts DEF GuiDestroysControl, Clients
  <2>2. CASE GuiDestroysTelemetry
    BY <1>1, <2>2, ReleasesFacts DEF GuiDestroysTelemetry, Clients
  <2>3. CASE ~GuiDestroysControl /\ ~GuiDestroysTelemetry
    BY <2>3 DEF GuiQuitsControllers, GuiJoinsControllers, GuiQuitsLease, GuiExits,
                leaseVars, TypeOK, LostOnlyWithItsEvent
  <2> QED BY <2>1, <2>2, <2>3
<1>3. ctlQuit' \in BOOLEAN /\ leaseQuit' \in BOOLEAN
  BY DEF GuiQuitsControllers, GuiJoinsControllers, GuiDestroysControl, GuiDestroysTelemetry,
         GuiQuitsLease, GuiExits, ctlVars, leaseVars, TypeOK
<1>4. TypeOK'
  BY <1>1, <1>2, <1>3 DEF TypeOK
<1>5. QueueInv'
  BY <1>1 DEF QueueInv, Steps
<1>6. StopInv'
  BY <1>1 DEF StopInv, StopIsHandled, InTick
<1>7. NoTickOnDestroyed'
  <2>1. gui' \in {"destroyControl", "destroyTelemetry", "quitLease", "joinLease", "exited"}
          => ctl = "finished"
    BY <1>1 DEF NoTickOnDestroyed, GuiQuitsControllers, GuiJoinsControllers, GuiDestroysControl,
                GuiDestroysTelemetry, GuiQuitsLease, GuiExits
  <2>2. gui' = "exited" => lease = "finished"
    BY <1>1 DEF GuiQuitsControllers, GuiJoinsControllers, GuiDestroysControl,
                GuiDestroysTelemetry, GuiQuitsLease, GuiExits
  <2> QED BY <1>1, <2>1, <2>2 DEF NoTickOnDestroyed
<1> QED BY <1>2, <1>4, <1>5, <1>6, <1>7

\* The start of the runner is posted once, and runs once.
LEMMA StartKeepsInv ==
  ASSUME IInv, ThreadStarts \/ LoopStartsRunner
  PROVE  IInv'
<1> USE DEF IInv
<1>1. queue \in Seq(Steps \cup {"start"})
  BY DEF TypeOK
<1>2. /\ UNCHANGED <<gui, replied, leaseVars, ctlQuit>>
      /\ ctl # "finished" /\ ctl' \in {"loop", "ticking"}
  BY DEF ThreadStarts, LoopStartsRunner, guiVars
<1>3. NoTickOnDestroyed' /\ LostOnlyWithItsEvent'
  BY <1>2 DEF NoTickOnDestroyed, LostOnlyWithItsEvent, leaseVars
<1>4. CASE ThreadStarts
  <2>1. /\ ctl = "starting" /\ ctl' = "loop" /\ queue' = Append(queue, "start")
        /\ UNCHANGED <<stopRequested, restarted>> /\ ~restarted
    BY <1>4 DEF ThreadStarts, StopInv
  <2>2. \A i \in DOMAIN queue : queue[i] # "start"
    BY <2>1 DEF QueueInv
  <2>3. TypeOK'
    <3>1. queue' \in Seq(Steps \cup {"start"})
      BY <1>1, <2>1, PostedEvents
    <3> QED BY <1>2, <2>1, <3>1 DEF TypeOK, leaseVars
  <2>4. QueueInv'
    BY <1>1, <1>2, <2>1, <2>2, PostedEvents DEF QueueInv, Steps
  <2>5. StopInv'
    BY <1>2, <2>1 DEF StopInv, StopIsHandled, InTick
  <2> QED BY <1>3, <2>3, <2>4, <2>5
<1>5. CASE LoopStartsRunner
  <2>1. /\ queue # <<>> /\ Head(queue) = "start" /\ queue' = Tail(queue)
        /\ stopRequested' = FALSE /\ restarted' = stopRequested
    BY <1>5 DEF LoopStartsRunner
  <2>2. ~restarted /\ \A i \in DOMAIN queue' : queue'[i] # "start"
    <3>1. 1 \in DOMAIN queue /\ queue[1] = "start"
      BY <1>1, <2>1, TakenEvents
    <3> QED BY <1>1, <2>1, <3>1, TakenEvents DEF QueueInv
  <2>3. TypeOK'
    <3>1. queue' \in Seq(Steps \cup {"start"})
      BY <1>1, <2>1, TakenEvents
    <3>2. stopRequested' \in BOOLEAN /\ restarted' \in BOOLEAN
      BY <2>1 DEF TypeOK
    <3> QED BY <1>2, <3>1, <3>2 DEF TypeOK, leaseVars
  <2>4. QueueInv'
    BY <1>1, <1>2, <2>1, <2>2, TakenEvents DEF QueueInv
  <2>5. StopInv'
    BY <1>2, <2>1, <2>2 DEF StopInv, StopIsHandled, InTick
  <2> QED BY <1>3, <2>3, <2>4, <2>5
<1> QED BY <1>4, <1>5

\* Of the other steps of the controller thread none begins a tick once the
\* runner was asked to stop.
LEMMA LoopKeepsInv ==
  ASSUME IInv, GuiBuildsTail \/ TickEnds \/ TickBuilds \/ SleepEnds \/ LoopEnds
  PROVE  IInv'
<1> USE DEF IInv
<1>1. /\ UNCHANGED <<gui, replied, queue, stopRequested, restarted, ctlQuit, lease, unsent, leaseQuit>>
      /\ ctl \notin {"starting", "finished"}
      /\ ctl' \in {"loop", "ticking", "building", "sleeping", "finished"}
      /\ ctl' \in {"ticking", "building"} => InTick \/ ~stopRequested
  BY DEF GuiBuildsTail, TickEnds, TickBuilds, SleepEnds, LoopEnds, guiVars, leaseVars, InTick
<1>2. leased' \subseteq Clients
  BY DEF GuiBuildsTail, TickEnds, TickBuilds, SleepEnds, LoopEnds, leaseVars, Holders, TypeOK
<1>3. events' \in 0..MaxEvents /\ (events > 0 => events' > 0)
  <2>1. events' = events \/ events' = 1
    BY DEF GuiBuildsTail, TickEnds, TickBuilds, SleepEnds, LoopEnds, leaseVars
  <2> QED BY <2>1, ShutdownAssumption DEF TypeOK
<1>4. TypeOK'
  BY <1>1, <1>2, <1>3 DEF TypeOK
<1>5. QueueInv'
  BY <1>1 DEF QueueInv
<1>6. StopInv'
  BY <1>1 DEF StopInv, StopIsHandled, InTick
<1>7. NoTickOnDestroyed' /\ LostOnlyWithItsEvent'
  BY <1>1, <1>3 DEF NoTickOnDestroyed, LostOnlyWithItsEvent
<1> QED BY <1>4, <1>5, <1>6, <1>7

\* The lease thread takes an event before it rests, and rests with nothing
\* left to send.
LEMMA LeaseKeepsInv ==
  ASSUME IInv, LeaseThread
  PROVE  IInv'
<1> USE DEF IInv
<1>1. UNCHANGED <<guiVars, ctlVars, leased, leaseQuit>>
  BY DEF LeaseThread, LeaseWakes, LeaseServes, LeaseRests, LeaseEnds
<1>2. /\ lease # "finished" /\ lease' \in {"idle", "working", "finished"}
      /\ unsent' \subseteq unsent
  BY DEF LeaseThread, LeaseWakes, LeaseServes, LeaseRests, LeaseEnds
<1>3. events' \in 0..MaxEvents
  <2>1. events' = events \/ (events > 0 /\ events' = events - 1)
    BY DEF LeaseThread, LeaseWakes, LeaseServes, LeaseRests, LeaseEnds
  <2> QED BY <2>1, ShutdownAssumption DEF TypeOK
<1>4. LostOnlyWithItsEvent'
  BY DEF LeaseThread, LeaseWakes, LeaseServes, LeaseRests, LeaseEnds, LostOnlyWithItsEvent
<1>5. TypeOK'
  BY <1>1, <1>2, <1>3 DEF TypeOK, guiVars, ctlVars
<1>6. QueueInv' /\ StopInv' /\ NoTickOnDestroyed'
  BY <1>1, <1>2 DEF QueueInv, StopInv, StopIsHandled, InTick, NoTickOnDestroyed, guiVars, ctlVars
<1> QED BY <1>4, <1>5, <1>6

LEMMA StepIInv == IInv /\ [Next]_vars => IInv'
<1> SUFFICES ASSUME IInv, [Next]_vars PROVE IInv'
  OBVIOUS
<1>1. CASE GuiQuits
  BY <1>1, CallKeepsInv DEF GuiQuits, Steps
<1>2. CASE GuiCallsNext
  BY <1>2, CallKeepsInv DEF GuiCallsNext, Steps
<1>3. CASE LoopHandles \/ SleepHandles
  BY <1>3, HandleKeepsInv DEF LoopHandles, SleepHandles
<1>4. CASE UNCHANGED vars
  BY <1>4 DEF vars, guiVars, ctlVars, leaseVars, IInv, TypeOK, QueueInv, StopInv, StopIsHandled,
              InTick, NoTickOnDestroyed, LostOnlyWithItsEvent
<1> QED BY <1>1, <1>2, <1>3, <1>4, GuiStepKeepsInv, StartKeepsInv, LoopKeepsInv, LeaseKeepsInv
        DEF Next, GuiShutdown, ControllerThread

LEMMA Inductive == Spec => []IInv
BY InitIInv, StepIInv, PTL DEF Spec

-----------------------------------------------------------------------------
\* The variables keep their types, the number of waiting events its bound.
THEOREM TypeCorrect == Spec => []TypeOK
<1>1. IInv => TypeOK
  BY DEF IInv
<1> QED BY <1>1, Inductive, PTL

\* No subsystem is destroyed while a tick may use it, and the lease worker
\* not while its thread runs.
THEOREM NothingTicksOnDestroyed == Spec => []NoTickOnDestroyed
<1>1. IInv => NoTickOnDestroyed
  BY DEF IInv
<1> QED BY <1>1, Inductive, PTL

\* Once Stop was answered the controllers tick no more, unless the start of
\* the runner was queued behind its stop.
THEOREM NothingTicksAfterStop == Spec => []NoTickAfterStop
<1>1. IInv => NoTickAfterStop
  BY DEF IInv, StopInv, StopIsHandled, NoTickAfterStop
<1> QED BY <1>1, Inductive, PTL

\* A release is left behind only together with the event that would have had
\* it sent.
THEOREM ReleasesKeepTheirEvents == Spec => []LostOnlyWithItsEvent
<1>1. IInv => LostOnlyWithItsEvent
  BY DEF IInv
<1> QED BY <1>1, Inductive, PTL
=============================================================================
