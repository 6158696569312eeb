------------------------------ MODULE Telemetry ------------------------------
(***************************************************************************)
(* Telemetry from the submarine to the operator's eyes.  On the controller *)
(* thread a tick first lets Composition::RemoteTelemetry look at its lease *)
(* and then has Telemetry::Controller refresh the snapshot controllers,    *)
(* which read their providers and emit what differs from their last        *)
(* snapshot.  Signals to the view models wait in the GUI thread's queue;   *)
(* the lease is told to the TimeController through the controller thread's *)
(* own queue, which is emptied only while the tick runner sleeps.          *)
(*                                                                         *)
(* The time panel is the operator's only sign that telemetry has stopped,  *)
(* the other panels keep their last value.  Of those this module has the   *)
(* camera's, whose overlay hides the picture, and one that stands for the  *)
(* rest (a motor).  The time view model's hasLease and the camera's        *)
(* streaming flag and subscribers, which no QML reads, are left out.  Time *)
(* passes in units between ticks; ages are counted up to AgeLimit, from    *)
(* where on they compare alike.                                            *)
(***************************************************************************)
EXTENDS Integers, Sequences

CONSTANTS
  LeaseIds,          (* leases the telemetry client may hold                *)
  Uptimes,           (* uptimes the submarine may report                    *)
  UnitsPerSecond,    (* of those uptimes                                    *)
  WarningThreshold,  (* ages in units of time between ticks                 *)
  ErrorThreshold,
  LongestTick,       (* bound on the time between two ticks                 *)
  CameraStatuses,    (* what the camera may report: [operational, faults]   *)
  MotorStates,       (* what a motor may report: [operational, effort,      *)
                     (* direction, faults]                                  *)
  MaxSignals,        (* bound on the signals that wait in the GUI thread    *)
  MaxEvents,         (* bound on the calls that wait in the controllers'    *)
  None               (* an absent value                                     *)

ASSUME TelemetryAssumption ==
  /\ Uptimes \subseteq Nat /\ UnitsPerSecond \in Nat \ {0}
  /\ WarningThreshold \in Nat /\ ErrorThreshold \in Nat /\ LongestTick \in Nat
  /\ WarningThreshold <= ErrorThreshold
  /\ None \notin LeaseIds /\ None \notin Nat
  /\ CameraStatuses \subseteq [operational : {"Stopped", "Streaming", "Faulted"},
                               faults : SUBSET {"network", "source", "config"}]
  /\ None \notin CameraStatuses /\ None \notin MotorStates
  /\ MaxSignals \in Nat /\ MaxEvents \in Nat

VARIABLES
  started,     (* Telemetry::Controller's m_IsStarted                       *)
  reported,    (* RemoteTelemetry's m_LastLeaseId, or "nothing" before one  *)
  events,      (* leases in calls of TimeController::LeaseStateChanged      *)
  leaseId,     (* TimeController's m_LeaseId, m_LastTelemetryUptime         *)
  lastUptime,
  changeAge,   (* uptime of the tick minus m_LastTelemetryChangeAt          *)
  hadLease,
  lastTime,    (* what it published last, or None                           *)
  cameraSeen,  (* m_LastStatus of the VideoStatusController, or None        *)
  motorSeen,   (* m_LastState of a MotorController, or None                 *)
  signals,     (* SnapshotChanged signals on their way to the GUI thread    *)
  timeView,    (* what the three view models show                           *)
  cameraView,
  motorView,
  source,      (* the uptime the providers last had to offer (history)      *)
  sourceAge,   (* for how long it has not changed (history)                 *)
  leaseAge     (* time since the TimeController got its lease, or its first *)
               (* reading under it (history)                                *)

timeController == <<leaseId, lastUptime, changeAge, hadLease, lastTime>>
views == <<timeView, cameraView, motorView>>
history == <<source, sourceAge, leaseAge>>
vars == <<started, reported, events, timeController, cameraSeen, motorSeen,
          signals, views, history>>

AgeLimit == ErrorThreshold + LongestTick + 1
Older(age, dt) == IF age + dt > AgeLimit THEN AgeLimit ELSE age + dt

\* The text "NO LEASE"; other texts are the seconds they say.
NoLease == None

\* The initial values of MotorsViewModel.
NoMotor == [operational |-> "Operational", drive |-> 0, faults |-> {}]

Init ==
  /\ started = FALSE
  /\ reported = "nothing" /\ events = <<>>
  /\ leaseId = None /\ lastUptime = None /\ changeAge = 0 /\ hadLease = FALSE
  /\ lastTime = None
  /\ cameraSeen = None /\ motorSeen = None
  /\ signals = <<>>
  /\ timeView = [text |-> NoLease, fault |-> "Normal"]
  /\ cameraView = [operational |-> "Stopped", fault |-> FALSE, summary |-> "",
                   hasSnapshot |-> FALSE]
  /\ motorView = NoMotor
  /\ source = None /\ sourceAge = AgeLimit /\ leaseAge = 0

-----------------------------------------------------------------------------
(* What the controllers make of a reading.                                 *)

\* Whole seconds; the formatting as hours, minutes and seconds is injective.
FormatUptime(uptime) == uptime \div UnitsPerSecond

SelectFaultState(age, hasLease) ==
  IF ~hasLease \/ age > ErrorThreshold THEN "Fault"
  ELSE IF age > WarningThreshold THEN "Warning" ELSE "Normal"

\* Mutant: a camera without faults has no summary of them.
ToFaultSummary_Empty(faults) ==
  IF faults \cap {"source", "config"} # {} THEN "CAMERA ERROR"
  ELSE IF "network" \in faults THEN "NETWORK ERROR" ELSE ""

ToFaultSummary(faults) ==
  IF "network" \in faults /\ faults \cap {"source", "config"} = {}
  THEN "NETWORK ERROR" ELSE "CAMERA ERROR"

\* The arguments of VideoStatusController::SnapshotChanged.
CameraSnapshot(status) ==
  [operational |-> status.operational, fault |-> status.faults # {},
   summary |-> ToFaultSummary(status.faults)]

\* The arguments of MotorController::SnapshotChanged.
MotorSnapshot(state) ==
  [operational |-> state.operational, drive |-> state.effort * state.direction,
   faults |-> state.faults]

\* Mutant: an answer that is an error is news as well.
IsNews_Errors(reading) == reading # lastUptime

\* The provider answers with an uptime it had not answered with before.
IsNews(reading) == reading # None /\ reading # lastUptime

\* TimeController::Refresh when it has a lease.
RefreshUptime(dt, reading) ==
  /\ lastUptime' = IF IsNews(reading) THEN reading ELSE lastUptime
  /\ changeAge' = IF IsNews(reading) \/ ~hadLease THEN 0 ELSE Older(changeAge, dt)
  /\ hadLease' = TRUE
  /\ lastTime' = [text |-> FormatUptime(IF lastUptime' = None THEN 0 ELSE lastUptime'),
                  fault |-> SelectFaultState(changeAge', TRUE)]

RefreshNoLease(dt) ==
  /\ changeAge' = Older(changeAge, dt)
  /\ hadLease' = FALSE
  /\ lastTime' = [text |-> NoLease, fault |-> SelectFaultState(0, FALSE)]
  /\ UNCHANGED lastUptime

RefreshTime(dt, reading) ==
  /\ IF leaseId = None THEN RefreshNoLease(dt) ELSE RefreshUptime(dt, reading)
  /\ UNCHANGED leaseId

\* The last snapshot of the other controllers: errors leave it as it is.
Refreshed(last, reading) == IF reading = None THEN last ELSE reading

\* Mutant: the time is published when its text changed.
Publish_TextOnly(topic, old, new, snapshot) ==
  IF new = old \/ (topic = "time" /\ old # None /\ new.text = old.text)
  THEN <<>> ELSE <<[topic |-> topic, snapshot |-> snapshot]>>

\* The signal a refresh emits: what it has now if that differs from before.
Publish(topic, old, new, snapshot) ==
  IF new = old THEN <<>> ELSE <<[topic |-> topic, snapshot |-> snapshot]>>

-----------------------------------------------------------------------------
(* The controller thread.                                                  *)

Start == ~started /\ started' = TRUE /\ UNCHANGED
  <<reported, events, timeController, cameraSeen, motorSeen, signals, views, history>>

Stop == started /\ started' = FALSE /\ UNCHANGED
  <<reported, events, timeController, cameraSeen, motorSeen, signals, views, history>>

\* Mutant: the composition reports the leases it gets, not their loss.
ReportLease_OnlyNew(lease) ==
  /\ reported' = lease
  /\ events' = IF lease \in {reported, None} THEN events ELSE Append(events, lease)

\* RemoteTelemetry::Tick: the lease of its client, if it is another one.
ReportLease(lease) ==
  /\ reported' = lease
  /\ events' = IF lease = reported THEN events ELSE Append(events, lease)

\* Telemetry::Controller::Tick, in its order of motors, time and camera.
RefreshAll(dt, uptime, camera, motor) ==
  /\ motorSeen' = Refreshed(motorSeen, motor)
  /\ RefreshTime(dt, uptime)
  /\ cameraSeen' = Refreshed(cameraSeen, camera)
  /\ signals' = signals \o Publish("motor", motorSeen, motorSeen', MotorSnapshot(motorSeen'))
                       \o Publish("time", lastTime, lastTime', lastTime')
                       \o Publish("camera", cameraSeen, cameraSeen', CameraSnapshot(cameraSeen'))

\* A tick, dt after the one before: the client has this lease, the providers
\* answer with these readings or, where they are None, with errors.
Tick(dt, lease, uptime, camera, motor) ==
  /\ started
  /\ Len(signals) < MaxSignals /\ Len(events) < MaxEvents
  /\ ReportLease(lease)
  /\ RefreshAll(dt, uptime, camera, motor)
  /\ source' = IF uptime = None THEN source ELSE uptime
  /\ sourceAge' = IF source' # source THEN 0 ELSE Older(sourceAge, dt)
  /\ leaseAge' = IF leaseId = None \/ (lastUptime = None /\ uptime # None)
                 THEN 0 ELSE Older(leaseAge, dt)
  /\ UNCHANGED <<started, views>>

\* TimeController::LeaseStateChanged, while the tick runner sleeps.
LeaseStateChanged ==
  /\ events # <<>>
  /\ events' = Tail(events)
  /\ leaseId' = Head(events)
  /\ lastUptime' = IF leaseId' = None THEN None ELSE lastUptime
  /\ leaseAge' = IF leaseId' = None THEN 0 ELSE leaseAge
  /\ UNCHANGED <<started, reported, changeAge, hadLease, lastTime, cameraSeen,
                 motorSeen, signals, views, source, sourceAge>>

-----------------------------------------------------------------------------
(* The GUI thread: SetSnapshot of the view models.                         *)

Delivers(topic) == signals # <<>> /\ Head(signals).topic = topic

SetTime ==
  /\ Delivers("time")
  /\ timeView' = Head(signals).snapshot
  /\ UNCHANGED <<cameraView, motorView>>

\* A snapshot that brings nothing new is dropped, and then does not count as
\* one either.
SetCamera ==
  LET new == Head(signals).snapshot IN
  /\ Delivers("camera")
  /\ cameraView' = IF \A field \in DOMAIN new : cameraView[field] = new[field]
                   THEN cameraView
                   ELSE [cameraView EXCEPT !.operational = new.operational,
                           !.fault = new.fault, !.summary = new.summary,
                           !.hasSnapshot = TRUE]
  /\ UNCHANGED <<timeView, motorView>>

SetMotor ==
  /\ Delivers("motor")
  /\ motorView' = Head(signals).snapshot
  /\ UNCHANGED <<timeView, cameraView>>

SetSnapshot ==
  /\ SetTime \/ SetCamera \/ SetMotor
  /\ signals' = Tail(signals)
  /\ UNCHANGED <<started, reported, events, timeController, cameraSeen, motorSeen, history>>

\* What QML makes of the camera's view model.
IsOverlayVisible ==
  cameraView.hasSnapshot /\ (cameraView.fault \/ cameraView.operational = "Stopped")

OverlayMessage ==
  IF cameraView.fault THEN cameraView.summary
  ELSE IF cameraView.operational = "Stopped" THEN "CAMERA OFF" ELSE ""

-----------------------------------------------------------------------------
Readings == [uptime : Uptimes \cup {None}, camera : CameraStatuses \cup {None},
             motor : MotorStates \cup {None}]

TickStep ==
  \E dt \in 1..LongestTick, lease \in LeaseIds \cup {None}, r \in Readings :
    Tick(dt, lease, r.uptime, r.camera, r.motor)

Next == Start \/ Stop \/ TickStep \/ LeaseStateChanged \/ SetSnapshot

Spec == Init /\ [][Next]_vars

\* The tick runner ticks while it is not stopped, sleeps between ticks long
\* enough to take what is queued, and the GUI thread serves its queue.
FairSpec ==
  /\ Spec
  /\ WF_vars(TickStep) /\ WF_vars(LeaseStateChanged) /\ WF_vars(SetSnapshot)

-----------------------------------------------------------------------------
(* Properties.                                                             *)

Times == [text : {FormatUptime(uptime) : uptime \in Uptimes \cup {0}} \cup {NoLease},
          fault : {"Normal", "Warning", "Fault"}]
Cameras == {CameraSnapshot(status) : status \in CameraStatuses}
Motors == {MotorSnapshot(state) : state \in MotorStates}
Signals == [topic : {"time"}, snapshot : Times]
           \cup [topic : {"camera"}, snapshot : Cameras]
           \cup [topic : {"motor"}, snapshot : Motors]

LeaseTypes ==
  /\ reported \in LeaseIds \cup {None, "nothing"}
  /\ events \in Seq(LeaseIds \cup {None})
  /\ leaseId \in LeaseIds \cup {None}

TimeTypes ==
  /\ started \in BOOLEAN /\ hadLease \in BOOLEAN
  /\ lastUptime \in Uptimes \cup {None} /\ source \in Uptimes \cup {None}
  /\ lastTime \in Times \cup {None}

AgeTypes == {changeAge, sourceAge, leaseAge} \subseteq 0..AgeLimit

SnapshotTypes ==
  /\ cameraSeen \in CameraStatuses \cup {None}
  /\ motorSeen \in MotorStates \cup {None}
  /\ signals \in Seq(Signals)

ViewTypes ==
  /\ timeView \in Times
  /\ cameraView \in [operational : {"Stopped", "Streaming", "Faulted"}, fault : BOOLEAN,
                     summary : {"", "NETWORK ERROR", "CAMERA ERROR"}, hasSnapshot : BOOLEAN]
  /\ motorView \in Motors \cup {NoMotor}

TypeOK == LeaseTypes /\ TimeTypes /\ AgeTypes /\ SnapshotTypes /\ ViewTypes

\* The colour of the time panel is what the operator judges the telemetry by,
\* and it is counted from what the TimeController happened to see, across
\* errors, restarts of the submarine and leases lost and regained between two
\* refreshes.  It is still honest: no colour is fresher than the data the
\* providers offer, but for the grace of a new lease, and none is staler.
ColourIsHonest ==
  lastTime # None /\ lastTime.text # NoLease =>
    /\ lastTime.fault = "Normal" =>
         sourceAge <= WarningThreshold \/ leaseAge <= WarningThreshold + LongestTick
    /\ lastTime.fault = "Warning" =>
         sourceAge <= ErrorThreshold \/ leaseAge <= ErrorThreshold + LongestTick
    /\ lastTime.fault = "Fault" => sourceAge > ErrorThreshold

Waiting(topic) == \E i \in 1..Len(signals) : signals[i].topic = topic

\* Snapshots are sent once, when they change: one that is lost, overtaken or
\* not sent is never made good.  Once the queue holds no other, each panel
\* shows what its controller holds.
ViewsFollow ==
  /\ lastTime # None /\ ~Waiting("time") => timeView = lastTime
  /\ motorSeen # None /\ ~Waiting("motor") => motorView = MotorSnapshot(motorSeen)

\* The overlay hides a picture that is not to be trusted: a camera that is
\* stopped or faulty is said to be, from the first snapshot on, and one that
\* streams is not hidden.  (The view model drops a first snapshot that equals
\* its initial values; that of a stopped camera differs in its summary only.)
CameraStateIsShown ==
  cameraSeen # None /\ ~Waiting("camera") =>
    /\ IsOverlayVisible <=> cameraSeen.faults # {} \/ cameraSeen.operational = "Stopped"
    /\ cameraSeen.faults = {"network"} => OverlayMessage = "NETWORK ERROR"
    /\ cameraSeen.faults # {} => OverlayMessage # "CAMERA OFF"
    /\ cameraSeen = [operational |-> "Stopped", faults |-> {}] =>
         OverlayMessage = "CAMERA OFF"

\* The loss of the lease reaches the operator through both queues, unless it
\* is over before.
LossIsShown ==
  reported = None ~> timeView.text = NoLease \/ reported # None \/ ~started
=============================================================================
