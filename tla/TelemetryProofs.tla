--------------------------- MODULE TelemetryProofs ---------------------------
(***************************************************************************)
(* The safety of Telemetry for any thresholds, leases and readings and for  *)
(* queues of any length: the views follow the controllers although every    *)
(* snapshot is sent once, the camera's state is not hidden, and the colour  *)
(* of the time panel is honest.                                             *)
(***************************************************************************)
EXTENDS Telemetry, TLAPS

(* A queue of signals is judged by the last signal of each topic.           *)

\* What a panel shows once this queue is delivered is "now".
Follows(queue, topic, shown, now) ==
  /\ (\A i \in 1..Len(queue) : queue[i].topic # topic) => shown = now
  /\ \A i \in 1..Len(queue) :
       /\ queue[i].topic = topic
       /\ \A j \in 1..Len(queue) : j > i => queue[j].topic # topic
       => queue[i].snapshot = now

\* A signal that says something else goes behind what is waiting.
LEMMA FollowsOther ==
  ASSUME NEW queue \in Seq(Signals), NEW topic, NEW shown, NEW now,
         NEW signal \in Signals, signal.topic # topic,
         Follows(queue, topic, shown, now)
  PROVE  Follows(queue \o <<signal>>, topic, shown, now)
<1> DEFINE longer == queue \o <<signal>>
<1>1. /\ Len(queue) \in Nat /\ Len(longer) = Len(queue) + 1
      /\ \A i \in 1..Len(queue) : longer[i] = queue[i]
      /\ longer[Len(queue) + 1] = signal
  OBVIOUS
<1>2. ASSUME \A i \in 1..Len(longer) : longer[i].topic # topic
      PROVE  shown = now
  <2>1. \A i \in 1..Len(queue) : queue[i].topic # topic
    BY <1>1, <1>2
  <2> QED BY <2>1 DEF Follows
<1>3. ASSUME NEW i \in 1..Len(longer), longer[i].topic = topic,
             \A j \in 1..Len(longer) : j > i => longer[j].topic # topic
      PROVE  longer[i].snapshot = now
  <2>1. i \in 1..Len(queue)
    BY <1>1, <1>3
  <2>2. \A j \in 1..Len(queue) : j > i => queue[j].topic # topic
    BY <1>1, <1>3
  <2>3. longer[i] = queue[i]
    BY <1>1, <2>1
  <2>4. queue[i].snapshot = now
    BY <2>1, <2>2, <2>3, <1>3 DEF Follows
  <2> QED BY <2>3, <2>4
<1> HIDE DEF longer
<1>4. Follows(longer, topic, shown, now)
  BY <1>2, <1>3 DEF Follows
<1> QED BY <1>4 DEF longer

\* A signal of the topic is the last word on it, whatever is shown.
LEMMA FollowsThis ==
  ASSUME NEW queue \in Seq(Signals), NEW topic, NEW shown, NEW now,
         NEW signal \in Signals, signal.topic = topic, signal.snapshot = now
  PROVE  Follows(queue \o <<signal>>, topic, shown, now)
<1> DEFINE longer == queue \o <<signal>>
<1>1. /\ Len(queue) \in Nat /\ Len(longer) = Len(queue) + 1
      /\ longer[Len(queue) + 1] = signal
  OBVIOUS
<1> HIDE DEF longer
<1>2. Len(queue) + 1 \in 1..Len(longer)
  BY <1>1
<1>3. ~ \A i \in 1..Len(longer) : longer[i].topic # topic
  BY <1>1, <1>2
<1>4. ASSUME NEW i \in 1..Len(longer),
             \A j \in 1..Len(longer) : j > i => longer[j].topic # topic
      PROVE  longer[i].snapshot = now
  <2>1. ~(Len(queue) + 1 > i)
    BY <1>1, <1>2, <1>4
  <2>2. i = Len(queue) + 1
    BY <1>1, <2>1
  <2> QED BY <1>1, <2>2
<1>5. Follows(longer, topic, shown, now)
  BY <1>3, <1>4 DEF Follows
<1> QED BY <1>5 DEF longer

\* Delivering a signal of the topic shows it.
LEMMA FollowsShown ==
  ASSUME NEW queue \in Seq(Signals), queue # <<>>, NEW topic, NEW shown, NEW now,
         Head(queue).topic = topic, Follows(queue, topic, shown, now)
  PROVE  Follows(Tail(queue), topic, Head(queue).snapshot, now)
<1> DEFINE rest == Tail(queue)
<1>1. /\ Len(queue) \in Nat \ {0} /\ Len(rest) = Len(queue) - 1
      /\ \A i \in 1..Len(rest) : rest[i] = queue[i + 1]
      /\ Head(queue) = queue[1]
  OBVIOUS
<1> HIDE DEF rest
<1>2. ASSUME \A i \in 1..Len(rest) : rest[i].topic # topic
      PROVE  Head(queue).snapshot = now
  <2>1. ASSUME NEW j \in 1..Len(queue), j > 1
        PROVE  queue[j].topic # topic
    <3>1. j - 1 \in 1..Len(rest) /\ (j - 1) + 1 = j
      BY <1>1, <2>1
    <3>2. rest[j - 1] = queue[j]
      BY <1>1, <3>1
    <3> QED BY <1>2, <3>1, <3>2
  <2>2. 1 \in 1..Len(queue) /\ queue[1].topic = topic
    BY <1>1
  <2> QED BY <1>1, <2>1, <2>2 DEF Follows
<1>3. ASSUME NEW i \in 1..Len(rest), rest[i].topic = topic,
             \A j \in 1..Len(rest) : j > i => rest[j].topic # topic
      PROVE  rest[i].snapshot = now
  <2>1. i + 1 \in 1..Len(queue) /\ rest[i] = queue[i + 1]
    BY <1>1
  <2>2. ASSUME NEW j \in 1..Len(queue), j > i + 1
        PROVE  queue[j].topic # topic
    <3>1. j - 1 \in 1..Len(rest) /\ (j - 1) + 1 = j /\ j - 1 > i
      BY <1>1, <2>2
    <3>2. rest[j - 1] = queue[j]
      BY <1>1, <3>1
    <3> QED BY <1>3, <3>1, <3>2
  <2> QED BY <1>3, <2>1, <2>2 DEF Follows
<1>4. Follows(rest, topic, Head(queue).snapshot, now)
  BY <1>2, <1>3 DEF Follows
<1> QED BY <1>4 DEF rest

\* Delivering another one leaves the panel and what is waiting for it.
LEMMA FollowsPassed ==
  ASSUME NEW queue \in Seq(Signals), queue # <<>>, NEW topic, NEW shown, NEW now,
         Head(queue).topic # topic, Follows(queue, topic, shown, now)
  PROVE  Follows(Tail(queue), topic, shown, now)
<1> DEFINE rest == Tail(queue)
<1>1. /\ Len(queue) \in Nat \ {0} /\ Len(rest) = Len(queue) - 1
      /\ \A i \in 1..Len(rest) : rest[i] = queue[i + 1]
      /\ Head(queue) = queue[1]
  OBVIOUS
<1> HIDE DEF rest
<1>2. ASSUME \A i \in 1..Len(rest) : rest[i].topic # topic
      PROVE  shown = now
  <2>1. ASSUME NEW j \in 1..Len(queue)
        PROVE  queue[j].topic # topic
    <3>1. CASE j = 1
      BY <1>1, <3>1
    <3>2. CASE j # 1
      <4>1. j - 1 \in 1..Len(rest) /\ (j - 1) + 1 = j
        BY <1>1, <3>2
      <4>2. rest[j - 1] = queue[j]
        BY <1>1, <4>1
      <4> QED BY <1>2, <4>1, <4>2
    <3> QED BY <3>1, <3>2
  <2> QED BY <2>1 DEF Follows
<1>3. ASSUME NEW i \in 1..Len(rest), rest[i].topic = topic,
             \A j \in 1..Len(rest) : j > i => rest[j].topic # topic
      PROVE  rest[i].snapshot = now
  <2>1. i + 1 \in 1..Len(queue) /\ rest[i] = queue[i + 1]
    BY <1>1
  <2>2. ASSUME NEW j \in 1..Len(queue), j > i + 1
        PROVE  queue[j].topic # topic
    <3>1. j - 1 \in 1..Len(rest) /\ (j - 1) + 1 = j /\ j - 1 > i
      BY <1>1, <2>2
    <3>2. rest[j - 1] = queue[j]
      BY <1>1, <3>1
    <3> QED BY <1>3, <3>1, <3>2
  <2> QED BY <1>3, <2>1, <2>2 DEF Follows
<1>4. Follows(rest, topic, shown, now)
  BY <1>2, <1>3 DEF Follows
<1> QED BY <1>4 DEF rest

-----------------------------------------------------------------------------
(* Types.                                                                   *)

\* Ages are capped where they stop to matter; older than an older one is older.
LEMMA OlderFacts ==
  ASSUME NEW dt \in 1..LongestTick
  PROVE  /\ \A age \in 0..AgeLimit : Older(age, dt) \in 0..AgeLimit
         /\ \A a, b \in 0..AgeLimit : a <= b => Older(a, dt) <= Older(b, dt)
         /\ \A a, b \in 0..AgeLimit :
              a <= b + LongestTick => Older(a, dt) <= Older(b, dt) + LongestTick
         /\ Older(0, dt) <= LongestTick
         /\ 0 \in 0..AgeLimit
BY TelemetryAssumption DEF Older, AgeLimit

\* What refreshing the time gives, with a lease and without.
LEMMA RefreshTimeType ==
  ASSUME TypeOK, NEW dt \in 1..LongestTick, NEW reading \in Uptimes \cup {None},
         RefreshTime(dt, reading)
  PROVE  /\ leaseId' \in LeaseIds \cup {None} /\ lastUptime' \in Uptimes \cup {None}
         /\ changeAge' \in 0..AgeLimit /\ hadLease' \in BOOLEAN
         /\ lastTime' \in Times
<1> USE TelemetryAssumption
<1>1. leaseId' = leaseId /\ (RefreshNoLease(dt) \/ RefreshUptime(dt, reading))
  BY DEF RefreshTime
<1>2. CASE RefreshNoLease(dt)
  <2>1. changeAge' \in 0..AgeLimit
    BY <1>2, OlderFacts DEF RefreshNoLease, TypeOK, AgeTypes
  <2>2. lastTime' \in Times
    BY <1>2 DEF RefreshNoLease, Times, SelectFaultState
  <2>3. hadLease' \in BOOLEAN
    BY <1>2 DEF RefreshNoLease
  <2>4. leaseId' \in LeaseIds \cup {None} /\ lastUptime' \in Uptimes \cup {None}
    BY <1>1, <1>2 DEF RefreshNoLease, TypeOK, LeaseTypes, TimeTypes
  <2> QED BY <2>1, <2>2, <2>3, <2>4
<1>3. CASE RefreshUptime(dt, reading)
  <2>1. changeAge' \in 0..AgeLimit
    <3>1. changeAge' = 0 \/ changeAge' = Older(changeAge, dt)
      BY <1>3, Zenon DEF RefreshUptime
    <3> QED BY <3>1, OlderFacts DEF TypeOK, AgeTypes
  <2>2. lastUptime' \in Uptimes \cup {None}
    BY <1>3 DEF RefreshUptime, IsNews, TypeOK, TimeTypes
  <2>3. lastTime' \in Times
    BY <1>3, <2>2 DEF RefreshUptime, Times, SelectFaultState
  <2>4. hadLease' \in BOOLEAN
    BY <1>3 DEF RefreshUptime
  <2>5. leaseId' \in LeaseIds \cup {None}
    BY <1>1 DEF TypeOK, LeaseTypes
  <2> QED BY <2>1, <2>2, <2>3, <2>4, <2>5
<1> QED BY <1>1, <1>2, <1>3

\* A refresh that has something to tell tells it at the end of the queue.
LEMMA PublishType ==
  ASSUME NEW queue \in Seq(Signals), NEW topic, NEW old, NEW new, NEW snapshot,
         new # old => [topic |-> topic, snapshot |-> snapshot] \in Signals
  PROVE  queue \o Publish(topic, old, new, snapshot) \in Seq(Signals)
BY DEF Publish

\* Snapshots are of the types the signals have.
LEMMA SignalTypes ==
  /\ \A time \in Times : [topic |-> "time", snapshot |-> time] \in Signals
  /\ \A status \in CameraStatuses :
       [topic |-> "camera", snapshot |-> CameraSnapshot(status)] \in Signals
  /\ \A state \in MotorStates :
       [topic |-> "motor", snapshot |-> MotorSnapshot(state)] \in Signals
BY DEF Signals, Cameras, Motors

\* The queue after a tick, as each controller in turn leaves it.
motorQueue == signals \o Publish("motor", motorSeen, motorSeen', MotorSnapshot(motorSeen'))
timeQueue == motorQueue \o Publish("time", lastTime, lastTime', lastTime')
cameraQueue == timeQueue \o Publish("camera", cameraSeen, cameraSeen', CameraSnapshot(cameraSeen'))

\* The types of what a tick leaves behind.
LEMMA RefreshAllType ==
  ASSUME TypeOK, NEW dt \in 1..LongestTick, NEW uptime \in Uptimes \cup {None},
         NEW camera \in CameraStatuses \cup {None}, NEW motor \in MotorStates \cup {None},
         RefreshAll(dt, uptime, camera, motor)
  PROVE  /\ lastTime' \in Times
         /\ motorSeen' \in MotorStates \cup {None} /\ cameraSeen' \in CameraStatuses \cup {None}
         /\ motorSeen' # motorSeen => motorSeen' \in MotorStates
         /\ cameraSeen' # cameraSeen => cameraSeen' \in CameraStatuses
         /\ motorQueue \in Seq(Signals) /\ timeQueue \in Seq(Signals)
         /\ cameraQueue \in Seq(Signals) /\ signals' = cameraQueue
<1>1. lastTime' \in Times
  BY RefreshTimeType DEF RefreshAll
<1>2. /\ motorSeen' \in MotorStates \cup {None}
      /\ motorSeen' # motorSeen => motorSeen' \in MotorStates
  BY DEF RefreshAll, Refreshed, TypeOK, SnapshotTypes
<1>3. /\ cameraSeen' \in CameraStatuses \cup {None}
      /\ cameraSeen' # cameraSeen => cameraSeen' \in CameraStatuses
  BY DEF RefreshAll, Refreshed, TypeOK, SnapshotTypes
<1>4. motorQueue \in Seq(Signals)
  BY <1>2, SignalTypes, PublishType DEF TypeOK, SnapshotTypes, motorQueue
<1>5. timeQueue \in Seq(Signals)
  BY <1>1, <1>4, SignalTypes, PublishType DEF timeQueue
<1>6. cameraQueue \in Seq(Signals)
  BY <1>3, <1>5, SignalTypes, PublishType DEF cameraQueue
<1>7. signals' = cameraQueue
  BY DEF RefreshAll, motorQueue, timeQueue, cameraQueue
<1> QED BY <1>1, <1>2, <1>3, <1>4, <1>5, <1>6, <1>7

\* The initial state.
LEMMA InitType == Init => TypeOK
<1> SUFFICES ASSUME Init PROVE TypeOK
  OBVIOUS
<1>1. LeaseTypes
  <2>1. reported = "nothing" /\ events = <<>> /\ leaseId = None
    BY DEF Init
  <2> QED BY <2>1 DEF LeaseTypes
<1>2. TimeTypes
  BY DEF Init, TimeTypes
<1>3. AgeTypes
  <2>1. changeAge = 0 /\ leaseAge = 0 /\ sourceAge = AgeLimit
    BY DEF Init
  <2> QED BY <2>1, TelemetryAssumption DEF AgeTypes, AgeLimit
<1>4. SnapshotTypes
  <2>1. cameraSeen = None /\ motorSeen = None /\ signals = <<>>
    BY DEF Init
  <2> QED BY <2>1 DEF SnapshotTypes
<1>5. ViewTypes
  BY DEF Init, ViewTypes, Times
<1> QED BY <1>1, <1>2, <1>3, <1>4, <1>5 DEF TypeOK

\* A tick.
LEMMA TickType ==
  ASSUME TypeOK, NEW dt \in 1..LongestTick, NEW lease \in LeaseIds \cup {None},
         NEW uptime \in Uptimes \cup {None}, NEW camera \in CameraStatuses \cup {None},
         NEW motor \in MotorStates \cup {None}, Tick(dt, lease, uptime, camera, motor)
  PROVE  TypeOK'
<1>1. RefreshAll(dt, uptime, camera, motor) /\ RefreshTime(dt, uptime)
  BY DEF Tick, RefreshAll
<1>2. /\ leaseId' \in LeaseIds \cup {None} /\ lastUptime' \in Uptimes \cup {None}
      /\ changeAge' \in 0..AgeLimit /\ hadLease' \in BOOLEAN /\ lastTime' \in Times
  BY <1>1, RefreshTimeType
<1>3. SnapshotTypes'
  BY <1>1, RefreshAllType DEF SnapshotTypes
<1>4. LeaseTypes'
  <2>1. reported' \in LeaseIds \cup {None, "nothing"}
    BY DEF Tick, ReportLease
  <2>2. events' = events \/ events' = Append(events, lease)
    BY DEF Tick, ReportLease
  <2>3. events' \in Seq(LeaseIds \cup {None})
    BY <2>2 DEF TypeOK, LeaseTypes
  <2> QED BY <1>2, <2>1, <2>3 DEF LeaseTypes
<1>5. TimeTypes'
  <2>1. started' \in BOOLEAN
    BY DEF Tick, TypeOK, TimeTypes
  <2>2. source' \in Uptimes \cup {None}
    BY DEF Tick, TypeOK, TimeTypes
  <2> QED BY <1>2, <2>1, <2>2 DEF TimeTypes
<1>6. AgeTypes'
  <2>1. /\ sourceAge' = 0 \/ sourceAge' = Older(sourceAge, dt)
        /\ leaseAge' = 0 \/ leaseAge' = Older(leaseAge, dt)
    BY DEF Tick
  <2>2. sourceAge' \in 0..AgeLimit /\ leaseAge' \in 0..AgeLimit
    BY <2>1, OlderFacts DEF TypeOK, AgeTypes
  <2> QED BY <1>2, <2>2 DEF AgeTypes
<1>7. ViewTypes'
  BY DEF Tick, views, TypeOK, ViewTypes
<1> QED BY <1>3, <1>4, <1>5, <1>6, <1>7 DEF TypeOK

\* The call that tells the TimeController of its lease.
LEMMA LeaseStateChangedType ==
  ASSUME TypeOK, LeaseStateChanged
  PROVE  TypeOK'
<1>1. LeaseTypes'
  <2>1. /\ events # <<>> /\ events' = Tail(events) /\ leaseId' = Head(events)
        /\ reported' = reported
    BY DEF LeaseStateChanged
  <2> QED BY <2>1 DEF TypeOK, LeaseTypes
<1>2. TimeTypes'
  <2>1. lastUptime' \in Uptimes \cup {None}
    BY DEF LeaseStateChanged, TypeOK, TimeTypes
  <2>2. UNCHANGED <<started, hadLease, source, lastTime>>
    BY DEF LeaseStateChanged
  <2> QED BY <2>1, <2>2 DEF TypeOK, TimeTypes
<1>3. AgeTypes'
  <2>1. leaseAge' = 0 \/ leaseAge' = leaseAge
    BY DEF LeaseStateChanged
  <2>2. changeAge' = changeAge /\ sourceAge' = sourceAge
    BY DEF LeaseStateChanged
  <2> QED BY <2>1, <2>2, TelemetryAssumption DEF TypeOK, AgeTypes, AgeLimit
<1>4. SnapshotTypes'
  BY DEF LeaseStateChanged, TypeOK, SnapshotTypes
<1>5. ViewTypes'
  BY DEF LeaseStateChanged, views, TypeOK, ViewTypes
<1> QED BY <1>1, <1>2, <1>3, <1>4, <1>5 DEF TypeOK

\* What a signal brings to the view model of its topic.
LEMMA DeliveredType ==
  ASSUME TypeOK, signals # <<>>
  PROVE  /\ Head(signals) \in Signals /\ Tail(signals) \in Seq(Signals)
         /\ Delivers("time") => Head(signals).snapshot \in Times
         /\ Delivers("camera") => Head(signals).snapshot \in Cameras
         /\ Delivers("motor") => Head(signals).snapshot \in Motors
<1>1. Head(signals) \in Signals /\ Tail(signals) \in Seq(Signals)
  <2>1. \A queue \in Seq(Signals) : queue # <<>> =>
          Head(queue) \in Signals /\ Tail(queue) \in Seq(Signals)
    OBVIOUS
  <2> QED BY <2>1 DEF TypeOK, SnapshotTypes
<1> QED BY <1>1 DEF Signals, Delivers

\* The camera's view model shows what it was given, and from the first
\* snapshot on it says so: none is like its initial values.
CameraShown == [operational |-> cameraView.operational, fault |-> cameraView.fault,
                summary |-> cameraView.summary]

LEMMA CameraSnapshotType ==
  \A new \in Cameras :
    /\ new \in [operational : {"Stopped", "Streaming", "Faulted"}, fault : BOOLEAN,
                 summary : {"NETWORK ERROR", "CAMERA ERROR"}]
    /\ DOMAIN new = {"operational", "fault", "summary"}
<1> SUFFICES ASSUME NEW status \in CameraStatuses
             PROVE  LET new == CameraSnapshot(status) IN
                    /\ new \in [operational : {"Stopped", "Streaming", "Faulted"},
                                fault : BOOLEAN, summary : {"NETWORK ERROR", "CAMERA ERROR"}]
                    /\ DOMAIN new = {"operational", "fault", "summary"}
  BY DEF Cameras
<1>1. status.operational \in {"Stopped", "Streaming", "Faulted"}
  BY TelemetryAssumption
<1>2. ToFaultSummary(status.faults) \in {"NETWORK ERROR", "CAMERA ERROR"}
  BY DEF ToFaultSummary
<1>3. (status.faults # {}) \in BOOLEAN
  OBVIOUS
<1> QED BY <1>1, <1>2, <1>3 DEF CameraSnapshot

LEMMA SetCameraShows ==
  ASSUME TypeOK, SetCamera
  PROVE  /\ CameraShown' = Head(signals).snapshot
         /\ cameraView' \in [operational : {"Stopped", "Streaming", "Faulted"}, fault : BOOLEAN,
                     summary : {"", "NETWORK ERROR", "CAMERA ERROR"}, hasSnapshot : BOOLEAN]
         /\ cameraView.hasSnapshot \/ cameraView.summary = "" => cameraView'.hasSnapshot
<1> DEFINE new == Head(signals).snapshot
<1>1. /\ new \in [operational : {"Stopped", "Streaming", "Faulted"}, fault : BOOLEAN,
                   summary : {"NETWORK ERROR", "CAMERA ERROR"}]
      /\ DOMAIN new = {"operational", "fault", "summary"}
  BY DeliveredType, CameraSnapshotType DEF SetCamera, Delivers
<1>2. \/ /\ \A field \in DOMAIN new : cameraView[field] = new[field]
         /\ cameraView' = cameraView
      \/ cameraView' = [cameraView EXCEPT !.operational = new.operational,
                          !.fault = new.fault, !.summary = new.summary,
                          !.hasSnapshot = TRUE]
  BY DEF SetCamera
<1> HIDE DEF new
<1>3. CASE /\ \A field \in DOMAIN new : cameraView[field] = new[field]
           /\ cameraView' = cameraView
  <2>1. /\ cameraView.operational = new.operational /\ cameraView.fault = new.fault
        /\ cameraView.summary = new.summary
    BY <1>1, <1>3
  <2>2. CameraShown' = new
    BY <1>1, <1>3, <2>1 DEF CameraShown
  <2> QED BY <1>1, <1>3, <2>1, <2>2 DEF TypeOK, ViewTypes, new
<1>4. CASE cameraView' = [cameraView EXCEPT !.operational = new.operational,
                          !.fault = new.fault, !.summary = new.summary,
                          !.hasSnapshot = TRUE]
  <2>1. /\ cameraView' \in [operational : {"Stopped", "Streaming", "Faulted"}, fault : BOOLEAN,
                     summary : {"", "NETWORK ERROR", "CAMERA ERROR"}, hasSnapshot : BOOLEAN]
        /\ cameraView'.operational = new.operational /\ cameraView'.fault = new.fault
        /\ cameraView'.summary = new.summary /\ cameraView'.hasSnapshot
    BY <1>1, <1>4 DEF TypeOK, ViewTypes
  <2>2. CameraShown' = new
    BY <1>1, <2>1 DEF CameraShown
  <2> QED BY <2>1, <2>2 DEF new
<1> QED BY <1>2, <1>3, <1>4

\* The delivery of a signal.
LEMMA SetSnapshotType ==
  ASSUME TypeOK, SetSnapshot
  PROVE  TypeOK'
<1>1. signals # <<>> /\ signals' = Tail(signals)
  BY DEF SetSnapshot, SetTime, SetCamera, SetMotor, Delivers
<1>2. ViewTypes'
  <2>1. CASE SetTime
    BY <1>1, <2>1, DeliveredType DEF SetTime, TypeOK, ViewTypes
  <2>2. CASE SetCamera
    BY <1>1, <2>2, SetCameraShows DEF SetCamera, TypeOK, ViewTypes
  <2>3. CASE SetMotor
    BY <1>1, <2>3, DeliveredType DEF SetMotor, TypeOK, ViewTypes
  <2> QED BY <2>1, <2>2, <2>3 DEF SetSnapshot
<1>3. SnapshotTypes'
  BY <1>1, DeliveredType DEF SetSnapshot, TypeOK, SnapshotTypes
<1>4. LeaseTypes'
  BY DEF SetSnapshot, timeController, TypeOK, LeaseTypes
<1>5. TimeTypes'
  BY DEF SetSnapshot, timeController, history, TypeOK, TimeTypes
<1>6. AgeTypes'
  BY DEF SetSnapshot, timeController, history, TypeOK, AgeTypes
<1> QED BY <1>2, <1>3, <1>4, <1>5, <1>6 DEF TypeOK

\* A step that changes nothing of this.
LEMMA SameType ==
  ASSUME TypeOK, started' \in BOOLEAN,
         UNCHANGED <<reported, events, timeController, cameraSeen, motorSeen, signals,
                     views, history>>
  PROVE  TypeOK'
<1>1. LeaseTypes'
  BY DEF timeController, TypeOK, LeaseTypes
<1>2. TimeTypes'
  BY DEF timeController, history, TypeOK, TimeTypes
<1>3. AgeTypes'
  BY DEF timeController, history, TypeOK, AgeTypes
<1>4. SnapshotTypes'
  BY DEF TypeOK, SnapshotTypes
<1>5. ViewTypes'
  BY DEF views, TypeOK, ViewTypes
<1> QED BY <1>1, <1>2, <1>3, <1>4, <1>5 DEF TypeOK

LEMMA NextType == TypeOK /\ [Next]_vars => TypeOK'
<1> SUFFICES ASSUME TypeOK, [Next]_vars PROVE TypeOK'
  OBVIOUS
<1>1. CASE Start \/ Stop
  BY <1>1, SameType DEF Start, Stop
<1>2. CASE TickStep
  BY <1>2, TickType DEF TickStep, Readings
<1>3. CASE LeaseStateChanged
  BY <1>3, LeaseStateChangedType
<1>4. CASE SetSnapshot
  BY <1>4, SetSnapshotType
<1>5. CASE UNCHANGED vars
  BY <1>5, SameType DEF vars, TypeOK, TimeTypes
<1> QED BY <1>1, <1>2, <1>3, <1>4, <1>5 DEF Next

\* Every variable keeps its type, whatever the providers answer.
THEOREM TelemetryTypeCorrect == Spec => []TypeOK
BY InitType, NextType, PTL DEF Spec

-----------------------------------------------------------------------------
(* What is shown once the queue is delivered.                               *)

\* Without this for what still waits in the queue, nothing could be said of
\* what is shown when it has been delivered.
ViewsInv ==
  /\ lastTime # None => Follows(signals, "time", timeView, lastTime)
  /\ motorSeen # None => Follows(signals, "motor", motorView, MotorSnapshot(motorSeen))
  /\ cameraSeen # None => Follows(signals, "camera", CameraShown, CameraSnapshot(cameraSeen))
  /\ cameraView.hasSnapshot \/ cameraView.summary = ""

\* A controller publishes behind what is waiting for others.
LEMMA PublishPasses ==
  ASSUME NEW queue \in Seq(Signals), NEW topic, NEW shown, NEW now,
         NEW other, NEW old, NEW new, NEW snapshot, other # topic,
         new # old => [topic |-> other, snapshot |-> snapshot] \in Signals,
         Follows(queue, topic, shown, now)
  PROVE  Follows(queue \o Publish(other, old, new, snapshot), topic, shown, now)
<1>1. CASE new = old
  <2>1. queue \o <<>> = queue
    OBVIOUS
  <2> QED BY <1>1, <2>1 DEF Publish
<1>2. CASE new # old
  <2> DEFINE signal == [topic |-> other, snapshot |-> snapshot]
  <2>1. signal \in Signals /\ signal.topic # topic
    BY <1>2
  <2>2. Follows(queue \o <<signal>>, topic, shown, now)
    BY <2>1, FollowsOther
  <2> QED BY <1>2, <2>2 DEF Publish
<1> QED BY <1>1, <1>2

\* Its own panel follows it: what it has changed is the last word, or nothing
\* has changed.
LEMMA PublishTells ==
  ASSUME NEW queue \in Seq(Signals), NEW topic, NEW shown, NEW now,
         NEW old, NEW new,
         new # old => [topic |-> topic, snapshot |-> now] \in Signals,
         new = old => Follows(queue, topic, shown, now)
  PROVE  Follows(queue \o Publish(topic, old, new, now), topic, shown, now)
<1>1. CASE new = old
  <2>1. queue \o <<>> = queue
    OBVIOUS
  <2> QED BY <1>1, <2>1 DEF Publish
<1>2. CASE new # old
  <2> DEFINE signal == [topic |-> topic, snapshot |-> now]
  <2>1. signal \in Signals /\ signal.topic = topic /\ signal.snapshot = now
    BY <1>2
  <2>2. Follows(queue \o <<signal>>, topic, shown, now)
    BY <2>1, FollowsThis
  <2> QED BY <1>2, <2>2 DEF Publish
<1> QED BY <1>1, <1>2

\* A tick publishes what it changes, in three topics one behind the other.
LEMMA TickViews ==
  ASSUME TypeOK, ViewsInv, NEW dt \in 1..LongestTick, NEW uptime \in Uptimes \cup {None},
         NEW camera \in CameraStatuses \cup {None}, NEW motor \in MotorStates \cup {None},
         RefreshAll(dt, uptime, camera, motor), UNCHANGED views
  PROVE  ViewsInv'
<1>1. /\ lastTime' \in Times /\ signals \in Seq(Signals)
      /\ motorSeen' # motorSeen => motorSeen' \in MotorStates
      /\ cameraSeen' # cameraSeen => cameraSeen' \in CameraStatuses
      /\ motorQueue \in Seq(Signals) /\ timeQueue \in Seq(Signals)
      /\ signals' = cameraQueue
  BY RefreshAllType DEF TypeOK, SnapshotTypes
<1>2. /\ lastTime' # lastTime => [topic |-> "time", snapshot |-> lastTime'] \in Signals
      /\ motorSeen' # motorSeen =>
           [topic |-> "motor", snapshot |-> MotorSnapshot(motorSeen')] \in Signals
      /\ cameraSeen' # cameraSeen =>
           [topic |-> "camera", snapshot |-> CameraSnapshot(cameraSeen')] \in Signals
  BY <1>1, SignalTypes
<1>3. timeView' = timeView /\ motorView' = motorView /\ CameraShown' = CameraShown
      /\ cameraView' = cameraView
  BY DEF views, CameraShown
<1>4. ASSUME lastTime' # None
      PROVE  Follows(cameraQueue, "time", timeView, lastTime')
  <2>1. ASSUME lastTime' = lastTime
        PROVE  Follows(motorQueue, "time", timeView, lastTime')
    <3>1. Follows(signals, "time", timeView, lastTime')
      BY <1>4, <2>1 DEF ViewsInv
    <3> QED BY <1>1, <1>2, <3>1, PublishPasses DEF motorQueue
  <2>2. Follows(timeQueue, "time", timeView, lastTime')
    BY <1>1, <1>2, <2>1, PublishTells DEF timeQueue
  <2> QED BY <1>1, <1>2, <2>2, PublishPasses DEF cameraQueue
<1>5. ASSUME motorSeen' # None
      PROVE  Follows(cameraQueue, "motor", motorView, MotorSnapshot(motorSeen'))
  <2>1. motorSeen' = motorSeen =>
          Follows(signals, "motor", motorView, MotorSnapshot(motorSeen'))
    BY <1>5 DEF ViewsInv
  <2>2. Follows(motorQueue, "motor", motorView, MotorSnapshot(motorSeen'))
    BY <1>1, <1>2, <2>1, PublishTells DEF motorQueue
  <2>3. Follows(timeQueue, "motor", motorView, MotorSnapshot(motorSeen'))
    BY <1>1, <1>2, <2>2, PublishPasses DEF timeQueue
  <2> QED BY <1>1, <1>2, <2>3, PublishPasses DEF cameraQueue
<1>6. ASSUME cameraSeen' # None
      PROVE  Follows(cameraQueue, "camera", CameraShown, CameraSnapshot(cameraSeen'))
  <2>1. ASSUME cameraSeen' = cameraSeen
        PROVE  Follows(timeQueue, "camera", CameraShown, CameraSnapshot(cameraSeen'))
    <3>1. Follows(signals, "camera", CameraShown, CameraSnapshot(cameraSeen'))
      BY <1>6, <2>1 DEF ViewsInv
    <3>2. Follows(motorQueue, "camera", CameraShown, CameraSnapshot(cameraSeen'))
      BY <1>1, <1>2, <3>1, PublishPasses DEF motorQueue
    <3> QED BY <1>1, <1>2, <3>2, PublishPasses DEF timeQueue
  <2> QED BY <1>1, <1>2, <2>1, PublishTells DEF cameraQueue
<1> QED BY <1>1, <1>3, <1>4, <1>5, <1>6 DEF ViewsInv

\* Delivery shows what was said last, or brings it nearer.
LEMMA SetSnapshotViews ==
  ASSUME TypeOK, ViewsInv, SetSnapshot
  PROVE  ViewsInv'
<1>1. /\ signals \in Seq(Signals) /\ signals # <<>> /\ signals' = Tail(signals)
      /\ UNCHANGED <<lastTime, motorSeen, cameraSeen>>
  BY DEF SetSnapshot, SetTime, SetCamera, SetMotor, Delivers, TypeOK, SnapshotTypes,
         timeController
<1>2. CASE SetTime
  <2>1. /\ Head(signals).topic = "time" /\ timeView' = Head(signals).snapshot
        /\ UNCHANGED <<cameraView, motorView>>
    BY <1>2 DEF SetTime, Delivers
  <2>2. lastTime # None => Follows(signals', "time", timeView', lastTime)
    BY <1>1, <2>1, FollowsShown DEF ViewsInv
  <2>3. motorSeen # None => Follows(signals', "motor", motorView, MotorSnapshot(motorSeen))
    BY <1>1, <2>1, FollowsPassed DEF ViewsInv
  <2>4. cameraSeen # None =>
          Follows(signals', "camera", CameraShown, CameraSnapshot(cameraSeen))
    BY <1>1, <2>1, FollowsPassed DEF ViewsInv
  <2>5. CameraShown' = CameraShown
    BY <2>1 DEF CameraShown
  <2> QED BY <1>1, <2>1, <2>2, <2>3, <2>4, <2>5 DEF ViewsInv
<1>3. CASE SetMotor
  <2>1. /\ Head(signals).topic = "motor" /\ motorView' = Head(signals).snapshot
        /\ UNCHANGED <<timeView, cameraView>>
    BY <1>3 DEF SetMotor, Delivers
  <2>2. lastTime # None => Follows(signals', "time", timeView, lastTime)
    BY <1>1, <2>1, FollowsPassed DEF ViewsInv
  <2>3. motorSeen # None => Follows(signals', "motor", motorView', MotorSnapshot(motorSeen))
    BY <1>1, <2>1, FollowsShown DEF ViewsInv
  <2>4. cameraSeen # None =>
          Follows(signals', "camera", CameraShown, CameraSnapshot(cameraSeen))
    BY <1>1, <2>1, FollowsPassed DEF ViewsInv
  <2>5. CameraShown' = CameraShown
    BY <2>1 DEF CameraShown
  <2> QED BY <1>1, <2>1, <2>2, <2>3, <2>4, <2>5 DEF ViewsInv
<1>4. CASE SetCamera
  <2>1. Head(signals).topic = "camera" /\ UNCHANGED <<timeView, motorView>>
    BY <1>4 DEF SetCamera, Delivers
  <2>2. CameraShown' = Head(signals).snapshot /\ cameraView'.hasSnapshot
    BY <1>4, SetCameraShows DEF ViewsInv
  <2>3. lastTime # None => Follows(signals', "time", timeView, lastTime)
    BY <1>1, <2>1, FollowsPassed DEF ViewsInv
  <2>4. motorSeen # None => Follows(signals', "motor", motorView, MotorSnapshot(motorSeen))
    BY <1>1, <2>1, FollowsPassed DEF ViewsInv
  <2>5. cameraSeen # None =>
          Follows(signals', "camera", CameraShown', CameraSnapshot(cameraSeen))
    BY <1>1, <2>1, <2>2, FollowsShown DEF ViewsInv
  <2> QED BY <1>1, <2>1, <2>2, <2>3, <2>4, <2>5 DEF ViewsInv
<1> QED BY <1>2, <1>3, <1>4 DEF SetSnapshot

\* Nothing was published before the first tick.
LEMMA InitViews == Init => ViewsInv
<1>1. Init => lastTime = None /\ motorSeen = None /\ cameraSeen = None
  BY DEF Init
<1>2. ASSUME Init
      PROVE  cameraView.summary = ""
  <2>1. cameraView = [operational |-> "Stopped", fault |-> FALSE, summary |-> "",
                      hasSnapshot |-> FALSE]
    BY <1>2 DEF Init
  <2> QED BY <2>1
<1> QED BY <1>1, <1>2 DEF ViewsInv

LEMMA NextViews == TypeOK /\ ViewsInv /\ [Next]_vars => ViewsInv'
<1> SUFFICES ASSUME TypeOK, ViewsInv, [Next]_vars PROVE ViewsInv'
  OBVIOUS
<1>1. CASE TickStep
  BY <1>1, TickViews DEF TickStep, Readings, Tick
<1>2. CASE SetSnapshot
  BY <1>2, SetSnapshotViews
<1>3. CASE Start \/ Stop \/ LeaseStateChanged \/ UNCHANGED vars
  <2>1. UNCHANGED <<lastTime, motorSeen, cameraSeen, signals, timeView, cameraView, motorView>>
    BY <1>3 DEF Start, Stop, LeaseStateChanged, vars, timeController, views
  <2> QED BY <2>1 DEF ViewsInv, CameraShown
<1> QED BY <1>1, <1>2, <1>3 DEF Next

\* What waits in the queue is the only difference between panels and controllers.
LEMMA ViewsInvariant == Spec => [](TypeOK /\ ViewsInv)
<1>1. Init => TypeOK /\ ViewsInv
  BY InitType, InitViews
<1>2. TypeOK /\ ViewsInv /\ [Next]_vars => (TypeOK /\ ViewsInv)'
  BY NextType, NextViews
<1> QED BY <1>1, <1>2, PTL DEF Spec

\* With no signal waiting for them, the time and motor panels show what their
\* controllers hold, however many signals were sent and in whatever order the
\* threads ran.
THEOREM ViewsAlwaysFollow == Spec => []ViewsFollow
<1>1. ViewsInv => ViewsFollow
  BY DEF ViewsInv, ViewsFollow, Follows, Waiting
<1> QED BY <1>1, ViewsInvariant, PTL

\* The overlay never hides a streaming picture nor leaves a faulty one, and the
\* fault it names is the camera's.
THEOREM CameraStateAlwaysShown == Spec => []CameraStateIsShown
<1>1. TypeOK /\ ViewsInv => CameraStateIsShown
  <2> SUFFICES ASSUME TypeOK, ViewsInv, cameraSeen # None, ~Waiting("camera")
               PROVE  /\ IsOverlayVisible <=>
                           cameraSeen.faults # {} \/ cameraSeen.operational = "Stopped"
                      /\ cameraSeen.faults = {"network"} => OverlayMessage = "NETWORK ERROR"
                      /\ cameraSeen.faults # {} => OverlayMessage # "CAMERA OFF"
                      /\ cameraSeen = [operational |-> "Stopped", faults |-> {}] =>
                           OverlayMessage = "CAMERA OFF"
    BY DEF CameraStateIsShown
  <2>1. cameraSeen \in CameraStatuses
    BY DEF TypeOK, SnapshotTypes
  <2>2. CameraShown = CameraSnapshot(cameraSeen)
    BY DEF ViewsInv, Follows, Waiting
  <2>3. /\ cameraView.operational = cameraSeen.operational
        /\ cameraView.fault = (cameraSeen.faults # {})
        /\ cameraView.summary = ToFaultSummary(cameraSeen.faults)
    BY <2>2 DEF CameraShown, CameraSnapshot
  <2>4. ToFaultSummary(cameraSeen.faults) \in {"NETWORK ERROR", "CAMERA ERROR"}
    BY DEF ToFaultSummary
  <2>5. cameraView.hasSnapshot
    BY <2>3, <2>4 DEF ViewsInv
  <2>6. IsOverlayVisible <=>
          cameraSeen.faults # {} \/ cameraSeen.operational = "Stopped"
    BY <2>3, <2>5 DEF IsOverlayVisible
  <2>7. cameraSeen.faults = {"network"} => OverlayMessage = "NETWORK ERROR"
    BY <2>3 DEF OverlayMessage, ToFaultSummary
  <2>8. cameraSeen.faults # {} => OverlayMessage # "CAMERA OFF"
    BY <2>3, <2>4 DEF OverlayMessage
  <2>9. cameraSeen = [operational |-> "Stopped", faults |-> {}] =>
          OverlayMessage = "CAMERA OFF"
    <3>1. ASSUME cameraSeen = [operational |-> "Stopped", faults |-> {}]
          PROVE  cameraSeen.operational = "Stopped" /\ ~(cameraSeen.faults # {})
      BY <3>1
    <3>2. ASSUME ~(cameraSeen.faults # {})
          PROVE  ~cameraView.fault
      BY <2>3, <3>2
    <3> QED BY <2>3, <3>1, <3>2 DEF OverlayMessage
  <2> QED BY <2>6, <2>7, <2>8, <2>9
<1> QED BY <1>1, ViewsInvariant, PTL

-----------------------------------------------------------------------------
(* The colour of the time panel.                                            *)

\* The TimeController's age is counted from what it saw, the data's age from
\* what there was to see.  They differ only while the lease, or what was seen
\* under it, is younger than both.
ColourInv ==
  /\ lastUptime \in {None, source}
  /\ leaseId = None => lastUptime = None /\ leaseAge = 0
  /\ ~hadLease => leaseAge = 0
  /\ hadLease =>
       /\ changeAge <= sourceAge
       /\ sourceAge <= changeAge \/ leaseAge <= changeAge + LongestTick
  /\ lastTime # None /\ lastTime.text # NoLease =>
       hadLease /\ lastTime.fault = SelectFaultState(changeAge, TRUE)

LEMMA InitColour == Init => ColourInv
BY DEF Init, ColourInv

\* A tick without a lease.
LEMMA TickColourNoLease ==
  ASSUME TypeOK, ColourInv, NEW dt \in 1..LongestTick, NEW lease \in LeaseIds \cup {None},
         NEW uptime \in Uptimes \cup {None}, NEW camera \in CameraStatuses \cup {None},
         NEW motor \in MotorStates \cup {None}, Tick(dt, lease, uptime, camera, motor),
         leaseId = None
  PROVE  ColourInv'
<1>1. RefreshNoLease(dt) /\ leaseId' = leaseId
  BY DEF Tick, RefreshAll, RefreshTime
<1>2. leaseAge' = 0 /\ lastUptime = None /\ lastUptime' = None
  BY <1>1 DEF Tick, ColourInv, RefreshNoLease
<1>3. ~hadLease'
  BY <1>1 DEF RefreshNoLease
<1>4. lastTime'.text = NoLease
  BY <1>1 DEF RefreshNoLease
<1> QED BY <1>1, <1>2, <1>3, <1>4 DEF ColourInv

\* A tick with one.
LEMMA TickColourLease ==
  ASSUME TypeOK, ColourInv, NEW dt \in 1..LongestTick, NEW lease \in LeaseIds \cup {None},
         NEW uptime \in Uptimes \cup {None}, NEW camera \in CameraStatuses \cup {None},
         NEW motor \in MotorStates \cup {None}, Tick(dt, lease, uptime, camera, motor),
         leaseId # None
  PROVE  ColourInv'
<1>1. RefreshUptime(dt, uptime) /\ leaseId' = leaseId
  BY DEF Tick, RefreshAll, RefreshTime
<1>2. hadLease' /\ lastTime'.fault = SelectFaultState(changeAge', TRUE)
  BY <1>1 DEF RefreshUptime
<1>3. changeAge \in 0..AgeLimit /\ sourceAge \in 0..AgeLimit /\ leaseAge \in 0..AgeLimit
  BY DEF TypeOK, AgeTypes
<1>4. lastUptime' \in {None, source'}
  <2>1. CASE IsNews(uptime)
    BY <1>1, <2>1 DEF RefreshUptime, IsNews, Tick
  <2>2. CASE ~IsNews(uptime)
    BY <1>1, <2>2 DEF RefreshUptime, IsNews, Tick, ColourInv
  <2> QED BY <2>1, <2>2
<1>5. \/ sourceAge' = 0 /\ IsNews(uptime)
      \/ sourceAge' = Older(sourceAge, dt) /\ source' = source
  BY DEF Tick, ColourInv, IsNews
<1>6. \/ leaseAge' = 0
      \/ /\ leaseAge' = Older(leaseAge, dt)
         /\ ~(lastUptime = None /\ uptime # None)
  BY DEF Tick
<1>7. sourceAge' \in 0..AgeLimit /\ leaseAge' \in 0..AgeLimit
  BY <1>3, <1>5, <1>6, OlderFacts
<1>8. /\ changeAge' <= sourceAge'
      /\ sourceAge' <= changeAge' \/ leaseAge' <= changeAge' + LongestTick
  <2>1. CASE IsNews(uptime)
    <3>1. changeAge' = 0
      BY <1>1, <2>1 DEF RefreshUptime
    <3>2. sourceAge' = 0 \/ leaseAge' = 0
      BY <2>1, <1>6 DEF Tick, IsNews, ColourInv
    <3> QED BY <1>7, <3>1, <3>2, TelemetryAssumption
  <2>2. CASE ~IsNews(uptime) /\ ~hadLease
    <3>1. changeAge' = 0
      BY <1>1, <2>2 DEF RefreshUptime
    <3>2. leaseAge = 0
      BY <2>2 DEF ColourInv
    <3>3. leaseAge' <= LongestTick
      BY <1>6, <3>2, OlderFacts, TelemetryAssumption
    <3> QED BY <1>7, <3>1, <3>3, TelemetryAssumption
  <2>3. CASE ~IsNews(uptime) /\ hadLease
    <3>1. changeAge' = Older(changeAge, dt)
      BY <1>1, <2>3 DEF RefreshUptime
    <3>2. sourceAge' = Older(sourceAge, dt)
      BY <1>5, <2>3
    <3>3. /\ changeAge <= sourceAge
          /\ sourceAge <= changeAge \/ leaseAge <= changeAge + LongestTick
      BY <2>3 DEF ColourInv
    <3>4. changeAge' <= sourceAge'
      BY <1>3, <3>1, <3>2, <3>3, OlderFacts
    <3>5. sourceAge <= changeAge => sourceAge' <= changeAge'
      BY <1>3, <3>1, <3>2, OlderFacts
    <3>6. changeAge' \in 0..AgeLimit
      BY <1>3, <3>1, OlderFacts
    <3>7. leaseAge <= changeAge + LongestTick => leaseAge' <= changeAge' + LongestTick
      BY <1>3, <1>6, <3>1, <3>6, OlderFacts, TelemetryAssumption
    <3> QED BY <3>3, <3>4, <3>5, <3>7
  <2> QED BY <2>1, <2>2, <2>3
<1> QED BY <1>1, <1>2, <1>4, <1>8 DEF ColourInv

\* The call that brings a lease, or its loss.
LEMMA LeaseStateChangedColour ==
  ASSUME TypeOK, ColourInv, LeaseStateChanged
  PROVE  ColourInv'
<1>1. UNCHANGED <<source, sourceAge, changeAge, hadLease, lastTime>>
  BY DEF LeaseStateChanged
<1>2. leaseAge' = 0 \/ leaseAge' = leaseAge
  BY DEF LeaseStateChanged
<1>3. leaseId' = None => lastUptime' = None /\ leaseAge' = 0
  BY DEF LeaseStateChanged
<1>4. lastUptime' \in {None, source'}
  BY DEF LeaseStateChanged, ColourInv
<1>5. ~hadLease' => leaseAge' = 0
  BY <1>1, <1>2 DEF ColourInv
<1>6. hadLease' =>
       /\ changeAge' <= sourceAge'
       /\ sourceAge' <= changeAge' \/ leaseAge' <= changeAge' + LongestTick
  <2>1. 0 <= changeAge + LongestTick
    BY TelemetryAssumption DEF TypeOK, AgeTypes
  <2> QED BY <1>1, <1>2, <2>1 DEF ColourInv
<1>7. lastTime' # None /\ lastTime'.text # NoLease =>
        hadLease' /\ lastTime'.fault = SelectFaultState(changeAge', TRUE)
  BY <1>1 DEF ColourInv
<1> QED BY <1>3, <1>4, <1>5, <1>6, <1>7 DEF ColourInv

LEMMA NextColour == TypeOK /\ ColourInv /\ [Next]_vars => ColourInv'
<1> SUFFICES ASSUME TypeOK, ColourInv, [Next]_vars PROVE ColourInv'
  OBVIOUS
<1>1. CASE TickStep
  <2>1. PICK dt \in 1..LongestTick, lease \in LeaseIds \cup {None}, r \in Readings :
          Tick(dt, lease, r.uptime, r.camera, r.motor)
    BY <1>1 DEF TickStep
  <2>2. /\ r.uptime \in Uptimes \cup {None} /\ r.camera \in CameraStatuses \cup {None}
        /\ r.motor \in MotorStates \cup {None}
    BY DEF Readings
  <2> QED BY <2>1, <2>2, TickColourNoLease, TickColourLease
<1>2. CASE LeaseStateChanged
  BY <1>2, LeaseStateChangedColour
<1>3. CASE Start \/ Stop \/ SetSnapshot \/ UNCHANGED vars
  <2>1. UNCHANGED <<leaseId, lastUptime, changeAge, hadLease, lastTime, source, sourceAge,
                    leaseAge>>
    BY <1>3 DEF Start, Stop, SetSnapshot, vars, timeController, history
  <2> QED BY <2>1 DEF ColourInv
<1> QED BY <1>1, <1>2, <1>3 DEF Next

\* The colour of the time panel is honest, whatever the thresholds, and
\* whatever leases come and go and readings fail.
THEOREM ColourAlwaysHonest == Spec => []ColourIsHonest
<1>1. Init => TypeOK /\ ColourInv
  BY InitType, InitColour
<1>2. TypeOK /\ ColourInv /\ [Next]_vars => (TypeOK /\ ColourInv)'
  BY NextType, NextColour
<1>3. TypeOK /\ ColourInv => ColourIsHonest
  <2> SUFFICES ASSUME TypeOK, ColourInv, lastTime # None, lastTime.text # NoLease
               PROVE  /\ lastTime.fault = "Normal" =>
                           \/ sourceAge <= WarningThreshold
                           \/ leaseAge <= WarningThreshold + LongestTick
                      /\ lastTime.fault = "Warning" =>
                           \/ sourceAge <= ErrorThreshold
                           \/ leaseAge <= ErrorThreshold + LongestTick
                      /\ lastTime.fault = "Fault" => sourceAge > ErrorThreshold
    BY DEF ColourIsHonest
  <2>1. /\ lastTime.fault = "Normal" => ~(changeAge > WarningThreshold)
        /\ lastTime.fault = "Warning" => ~(changeAge > ErrorThreshold)
        /\ lastTime.fault = "Fault" => changeAge > ErrorThreshold
    BY DEF ColourInv, SelectFaultState
  <2>2. /\ changeAge <= sourceAge
        /\ sourceAge <= changeAge \/ leaseAge <= changeAge + LongestTick
    BY DEF ColourInv
  <2>3. changeAge \in Nat /\ sourceAge \in Nat /\ leaseAge \in Nat
    BY TelemetryAssumption DEF TypeOK, AgeTypes, AgeLimit
  <2> QED BY <2>1, <2>2, <2>3, TelemetryAssumption
<1> QED BY <1>1, <1>2, <1>3, PTL DEF Spec
=============================================================================
