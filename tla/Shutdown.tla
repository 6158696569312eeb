------------------------------ MODULE Shutdown ------------------------------
(***************************************************************************)
(* How the station starts its threads and ends (main.cpp, TickRunner,      *)
(* QmlVideoSinkTailFactory).  aboutToQuit runs on the GUI thread: it calls *)
(* into the controller thread with BlockingQueuedConnection, one call      *)
(* after the other, quits and joins that thread, destroys the subsystems,  *)
(* whose UDP clients release their leases, and quits and joins the lease   *)
(* thread.  A controller tick may itself wait for the GUI thread, which    *)
(* builds the tail of the video pipeline.                                  *)
(*                                                                         *)
(* Time::Manager is a library: Run ticks and sleeps until it is stopped;   *)
(* whether a Run that begins after Stop ends at once is left open.  So is  *)
(* whether a thread that was told to quit still delivers the events it     *)
(* has: QThread::quit is no event and is not ordered after them.           *)
(***************************************************************************)
EXTENDS Naturals, Sequences

CONSTANT MaxEvents   (* bound on ProcessPending events waiting, >= 4        *)

ASSUME ShutdownAssumption == MaxEvents \in Nat /\ MaxEvents >= 4

VARIABLES
  gui,            (* the call of aboutToQuit the GUI thread is in           *)
  replied,        (* its blocking call has been handled                     *)
  ctl,            (* what the controller thread is doing                    *)
  queue,          (* the events it has not handled                          *)
  stopRequested,  (* TickRunner::m_StopRequested                            *)
  restarted,      (* Start was handled after Stop (history)                 *)
  ctlQuit,        (* controllerThread.quit() was called                     *)
  leased,         (* the clients that hold a lease                          *)
  lease,          (* what the lease thread is doing                         *)
  unsent,         (* releases queued in the worker                          *)
  events,         (* its ProcessPending events                              *)
  leaseQuit       (* leaseThread.quit() was called                          *)

guiVars == <<gui, replied>>
ctlVars == <<ctl, queue, stopRequested, restarted, ctlQuit>>
leaseVars == <<leased, lease, unsent, events, leaseQuit>>
vars == <<guiVars, ctlVars, leaseVars>>

\* The clients that release their lease as they stop or are destroyed.
Clients == {"video", "control", "telemetry"}

Init ==
  /\ gui = "serving" /\ replied = FALSE
  /\ ctl = "starting" /\ queue = <<>>
  /\ stopRequested = FALSE /\ restarted = FALSE /\ ctlQuit = FALSE
  /\ leased = {} /\ lease = "idle" /\ unsent = {} /\ events = 0
  /\ leaseQuit = FALSE

\* A client gives its lease back: the release is queued and an event posted.
Releases(c) ==
  IF c \in leased
  THEN /\ leased' = leased \ {c}
       /\ unsent' = unsent \cup {c}
       /\ events < MaxEvents /\ events' = events + 1
  ELSE UNCHANGED <<leased, unsent, events>>

-----------------------------------------------------------------------------
(* The GUI thread.                                                         *)

\* Its event loop builds the tail a controller tick is waiting for.
GuiBuildsTail ==
  /\ gui = "serving" /\ ctl = "building"
  /\ ctl' = "sleeping"
  /\ UNCHANGED <<guiVars, queue, stopRequested, restarted, ctlQuit, leaseVars>>

\* invokeMethod(..., BlockingQueuedConnection): the event, then the wait.
Call(step) ==
  /\ gui' = step
  /\ replied' = FALSE
  /\ queue' = Append(queue, step)

GuiQuits ==
  /\ gui = "serving"
  /\ Call("stopRunner")
  /\ UNCHANGED <<ctl, stopRequested, restarted, ctlQuit, leaseVars>>

\* Mutant: the calls are queued and not waited for.
GuiCallsNext_NotBlocking ==
  /\ \/ gui = "stopRunner" /\ Call("stopVideo")
     \/ gui = "stopVideo" /\ Call("stopTelemetry")
     \/ gui = "stopTelemetry" /\ Call("delete")
  /\ UNCHANGED <<ctl, stopRequested, restarted, ctlQuit, leaseVars>>

\* The objects of the controller thread are deleted in a row of such calls;
\* one stands for all.
GuiCallsNext ==
  /\ replied
  /\ \/ gui = "stopRunner" /\ Call("stopVideo")
     \/ gui = "stopVideo" /\ Call("stopTelemetry")
     \/ gui = "stopTelemetry" /\ Call("delete")
  /\ UNCHANGED <<ctl, stopRequested, restarted, ctlQuit, leaseVars>>

\* Mutant: the controller thread is joined but not told to quit.
GuiQuitsControllers_NoQuit ==
  /\ gui = "delete" /\ replied
  /\ gui' = "join"
  /\ UNCHANGED <<replied, ctlVars, leaseVars>>

GuiQuitsControllers ==
  /\ gui = "delete" /\ replied
  /\ gui' = "join"
  /\ ctlQuit' = TRUE
  /\ UNCHANGED <<replied, ctl, queue, stopRequested, restarted, leaseVars>>

\* Mutant: controllerThread.wait() is missing.
GuiJoinsControllers_NoWait ==
  /\ gui = "join"
  /\ gui' = "destroyControl"
  /\ UNCHANGED <<replied, ctlVars, leaseVars>>

GuiJoinsControllers ==
  /\ gui = "join" /\ ctl = "finished"
  /\ gui' = "destroyControl"
  /\ UNCHANGED <<replied, ctlVars, leaseVars>>

GuiDestroysControl ==
  /\ gui = "destroyControl"
  /\ Releases("control")
  /\ gui' = "destroyTelemetry"
  /\ UNCHANGED <<replied, ctlVars, lease, leaseQuit>>

GuiDestroysTelemetry ==
  /\ gui = "destroyTelemetry"
  /\ Releases("telemetry")
  /\ gui' = "quitLease"
  /\ UNCHANGED <<replied, ctlVars, lease, leaseQuit>>

GuiQuitsLease ==
  /\ gui = "quitLease"
  /\ leaseQuit' = TRUE
  /\ gui' = "joinLease"
  /\ UNCHANGED <<replied, ctlVars, leased, lease, unsent, events>>

GuiExits ==
  /\ gui = "joinLease" /\ lease = "finished"
  /\ gui' = "exited"
  /\ UNCHANGED <<replied, ctlVars, leaseVars>>

GuiShutdown ==
  \/ GuiCallsNext \/ GuiQuitsControllers \/ GuiJoinsControllers
  \/ GuiDestroysControl \/ GuiDestroysTelemetry \/ GuiQuitsLease \/ GuiExits

-----------------------------------------------------------------------------
(* The controller thread.                                                  *)

\* It emits QThread::started, whose slots are queued behind what is there.
ThreadStarts ==
  /\ ctl = "starting"
  /\ ctl' = "loop"
  /\ queue' = Append(queue, "start")
  /\ UNCHANGED <<guiVars, stopRequested, restarted, ctlQuit, leaseVars>>

\* TickRunner::Start clears the flag and does not return while Run runs.
LoopStartsRunner ==
  /\ ctl = "loop" /\ queue # <<>> /\ Head(queue) = "start"
  /\ queue' = Tail(queue)
  /\ stopRequested' = FALSE
  /\ restarted' = stopRequested
  /\ ctl' \in {"ticking"} \cup IF stopRequested THEN {"loop"} ELSE {}
  /\ UNCHANGED <<guiVars, ctlQuit, leaseVars>>

\* A blocking call of the GUI thread is handled, and that thread wakes up.
Handle(step) ==
  /\ queue # <<>> /\ Head(queue) = step
  /\ queue' = Tail(queue)
  /\ replied' = TRUE
  /\ stopRequested' = (stopRequested \/ step = "stopRunner")
  /\ IF step = "stopVideo" THEN Releases("video") ELSE UNCHANGED <<leased, unsent, events>>
  /\ UNCHANGED <<gui, ctl, restarted, ctlQuit, lease, leaseQuit>>

Steps == {"stopRunner", "stopVideo", "stopTelemetry", "delete"}

\* In the outer event loop, and in the processEvents of SleepUntil.
LoopHandles == ctl = "loop" /\ \E step \in Steps : Handle(step)

SleepHandles == ctl = "sleeping" /\ \E step \in Steps : Handle(step)

\* The clients a tick may leave with a lease: the video controller not once
\* its Stop was handled.
Holders == IF gui \in {"serving", "stopRunner"} \/ (gui = "stopVideo" /\ ~replied)
           THEN Clients ELSE Clients \ {"video"}

\* In a tick clients gain and lose leases, and may ask the worker for more.
TickEnds ==
  /\ ctl = "ticking"
  /\ ctl' = "sleeping"
  /\ leased' \in SUBSET Holders
  /\ events' \in {events, IF events = 0 THEN 1 ELSE events}
  /\ UNCHANGED <<guiVars, queue, stopRequested, restarted, ctlQuit, lease, unsent,
                 leaseQuit>>

\* The tick rebuilds the video pipeline and waits for the GUI thread.
TickBuilds ==
  /\ ctl = "ticking"
  /\ ctl' = "building"
  /\ UNCHANGED <<guiVars, queue, stopRequested, restarted, ctlQuit, leaseVars>>

\* SleepUntil returns, with events left if the deadline has passed.
SleepEnds ==
  /\ ctl = "sleeping"
  /\ ctl' = IF stopRequested THEN "loop" ELSE "ticking"
  /\ UNCHANGED <<guiVars, queue, stopRequested, restarted, ctlQuit, leaseVars>>

LoopEnds ==
  /\ ctl = "loop" /\ ctlQuit
  /\ ctl' = "finished"
  /\ UNCHANGED <<guiVars, queue, stopRequested, restarted, ctlQuit, leaseVars>>

ControllerThread ==
  \/ ThreadStarts \/ LoopStartsRunner \/ LoopHandles \/ SleepHandles
  \/ TickEnds \/ TickBuilds \/ SleepEnds \/ LoopEnds

-----------------------------------------------------------------------------
(* The lease thread: ProcessPending serves releases until none is left.    *)

\* Mutant: ProcessPending runs without an event.
LeaseWakes_NoEvent ==
  /\ lease = "idle"
  /\ events' = events - 1
  /\ lease' = "working"
  /\ UNCHANGED <<guiVars, ctlVars, leased, unsent, leaseQuit>>

LeaseWakes ==
  /\ lease = "idle" /\ events > 0
  /\ events' = events - 1
  /\ lease' = "working"
  /\ UNCHANGED <<guiVars, ctlVars, leased, unsent, leaseQuit>>

LeaseServes(c) ==
  /\ lease = "working" /\ c \in unsent
  /\ unsent' = unsent \ {c}
  /\ UNCHANGED <<guiVars, ctlVars, leased, lease, events, leaseQuit>>

\* Mutant: ProcessPending returns with releases left.
LeaseRests_Early ==
  /\ lease = "working"
  /\ lease' = "idle"
  /\ UNCHANGED <<guiVars, ctlVars, leased, unsent, events, leaseQuit>>

LeaseRests ==
  /\ lease = "working" /\ unsent = {}
  /\ lease' = "idle"
  /\ UNCHANGED <<guiVars, ctlVars, leased, unsent, events, leaseQuit>>

LeaseEnds ==
  /\ lease = "idle" /\ leaseQuit
  /\ lease' = "finished"
  /\ UNCHANGED <<guiVars, ctlVars, leased, unsent, events, leaseQuit>>

LeaseThread ==
  LeaseWakes \/ (\E c \in Clients : LeaseServes(c)) \/ LeaseRests \/ LeaseEnds

Next == GuiBuildsTail \/ GuiQuits \/ GuiShutdown \/ ControllerThread \/ LeaseThread

Spec == Init /\ [][Next]_vars

\* Threads run and issuer calls return.  The last conjunct is an assumption on
\* the load: again and again a tick ends before the deadline of the next one,
\* since SleepUntil handles no event otherwise.
FairSpec ==
  /\ Spec
  /\ WF_vars(GuiBuildsTail) /\ WF_vars(GuiShutdown)
  /\ WF_vars(ControllerThread) /\ WF_vars(LeaseThread)
  /\ SF_vars(SleepHandles)

-----------------------------------------------------------------------------
(* Properties.                                                             *)

TypeOK ==
  /\ gui \in Steps \cup {"serving", "join", "destroyControl", "destroyTelemetry",
                          "quitLease", "joinLease", "exited"}
  /\ replied \in BOOLEAN
  /\ ctl \in {"starting", "loop", "ticking", "building", "sleeping", "finished"}
  /\ queue \in Seq(Steps \cup {"start"})
  /\ stopRequested \in BOOLEAN /\ restarted \in BOOLEAN /\ ctlQuit \in BOOLEAN
  /\ leased \subseteq Clients /\ unsent \subseteq Clients
  /\ lease \in {"idle", "working", "finished"}
  /\ events \in 0..MaxEvents
  /\ leaseQuit \in BOOLEAN

InTick == ctl \in {"ticking", "building"}

\* What a tick works on is there: the subsystems are destroyed only once the
\* controller thread is gone, and the lease worker once its own thread is.
NoTickOnDestroyed ==
  /\ gui \in {"destroyControl", "destroyTelemetry", "quitLease", "joinLease",
              "exited"} => ctl = "finished"
  /\ gui = "exited" => lease = "finished"

\* Stop waits for the tick that is underway, and after it the controllers are
\* stopped and deleted with no tick between - unless the runner was started
\* by an event queued behind its Stop.
NoTickAfterStop ==
  gui \in {"stopVideo", "stopTelemetry", "delete", "join"} /\ InTick => restarted

\* A release the lease thread never saw was left behind with its event: no
\* release is lost to a scan that missed it.
LostOnlyWithItsEvent == unsent # {} => events > 0 \/ lease = "working"

\* What the comment in main.cpp:1111-1112 says of the telemetry client: it is
\* destroyed "before the lease worker shuts down so the release request can
\* still be processed".
TelemetryReleaseIsProcessed == gui = "exited" => "telemetry" \notin unsent

\* The station ends, but for two ways to hang: each thread waits for the
\* other one, or the tick loop runs that was started after it was stopped.
CrossWait == gui # "serving" /\ ctl = "building"

OnlyKnownHangs == gui # "serving" ~> gui = "exited" \/ CrossWait \/ restarted
=============================================================================
