-------------------------- MODULE OperatorControl --------------------------
(***************************************************************************)
(* Control/Controller and its view models.  What the operator wants of the *)
(* submarine, the intents, changes in two ways: in a tick, from axes that  *)
(* are integrated over time and the key that centres the gimbal, and on    *)
(* requests from the panels.  Every tick submits the intents as a command. *)
(* The panels are in the GUI thread and the controller in the controller   *)
(* thread: requests and signals wait in the event queues of the two.       *)
(*                                                                         *)
(* Lamp, pitch, ballast and depth are counted in steps small enough that   *)
(* every speed is a whole number of steps per unit of time.  The inputs    *)
(* are bound before the first tick, as Start of the input controller is    *)
(* queued before that of the tick runner, and stay bound.                  *)
(***************************************************************************)
EXTENDS Integers, Sequences

CONSTANTS
  LampMax, LampSpeed, LampStep,  (* LampStep: of the panel's buttons         *)
  PitchMax, PitchSpeed,          (* the gimbal turns from -PitchMax          *)
  BallastMax, BallastSpeed,
  DepthSpeed,
  MaxDepth,       (* bound on the depth target, which the code does not bound *)
  Cameras,        (* what may be wanted of the camera                       *)
  Axes,           (* what the axes may read in a tick                       *)
  Deltas,         (* time between two ticks                                 *)
  FirstCamera,    (* the intent for the camera at the start                 *)
  MaxRequests,    (* bound on the controller's waiting requests             *)
  MaxSignals      (* bound on the signals that wait before an action        *)

Modes == {"keep", "ballast", "depth"}

ASSUME ControlAssumption ==
  /\ LampMax \in Nat /\ LampSpeed \in Nat /\ LampStep \in Nat
  /\ PitchMax \in Nat /\ PitchSpeed \in Nat
  /\ BallastMax \in Nat /\ BallastSpeed \in Nat
  /\ DepthSpeed \in Nat /\ MaxDepth \in Nat
  /\ \A c \in Cameras : c.enabled \in BOOLEAN /\ c.autoFocus \in BOOLEAN /\
       c = [enabled |-> c.enabled, autoFocus |-> c.autoFocus, focus |-> c.focus,
            profile |-> c.profile]
  /\ Axes \subseteq [lamp : -1..1, pitch : -1..1, ballast : -1..1] /\ Deltas \subseteq Nat
  /\ FirstCamera \in Cameras
  /\ MaxRequests \in Nat /\ MaxSignals \in Nat

VARIABLES
  intent,         (* lamp, pitch, camera, hold and vertical                 *)
  published,      (* a tick has signalled all intents: m_HasPublished...    *)
  centreKey,      (* m_LastGimbalCenterKeyState, "unread" without snapshot  *)
  sent,           (* the last command that the sink took                    *)
  requests,       (* waiting for the controller                             *)
  signals,        (* waiting for the panels                                 *)
  shown,          (* what the panels show of the intents                    *)
  asked           (* hold, mode and camera last asked for (history)         *)

vars == <<intent, published, centreKey, sent, requests, signals, shown, asked>>

Clamp(x, low, high) == IF x < low THEN low ELSE IF x > high THEN high ELSE x

NonNegative(x) == IF x < 0 THEN 0 ELSE x

\* A signal, or a request, that is about topic and carries value.
Signal(topic, value) == [topic |-> topic, value |-> value]

\* Of the command that is submitted for an intent, what the panels decide: of
\* the camera nothing but that it is off when it is off.  The targets are
\* those of the intent in the same tick.
Command(i) ==
  [hold |-> i.hold, mode |-> i.vertical.mode,
   camera |-> IF i.camera.enabled THEN <<i.camera>> ELSE <<>>]

NothingSent == <<>>

Init ==
  /\ intent = [lamp |-> 0, pitch |-> 0, camera |-> FirstCamera, hold |-> FALSE,
               vertical |-> [mode |-> "ballast", ballast |-> 0, depth |-> 0]]
  /\ published = FALSE /\ centreKey = "unread" /\ sent = NothingSent
  /\ requests = <<>> /\ signals = <<>>
  /\ shown = intent
  /\ asked = [camera |-> intent.camera, hold |-> intent.hold, mode |-> intent.vertical.mode]

-----------------------------------------------------------------------------
(* The panels.                                                             *)

Ask(slot, value) ==
  /\ Len(requests) < MaxRequests /\ Len(signals) <= MaxSignals
  /\ requests' = Append(requests, Signal(slot, value))
  /\ UNCHANGED <<intent, published, centreKey, sent, signals, shown>>

AskLamp == \E step \in {LampStep, -LampStep} : Ask("lamp", step) /\ UNCHANGED asked

AskHold == \E on \in BOOLEAN : Ask("hold", on) /\ asked' = [asked EXCEPT !.hold = on]

AskMode == \E m \in Modes : Ask("mode", m) /\ asked' = [asked EXCEPT !.mode = m]

\* Enable, disable, focus and profile: each sets one field of the camera.  The
\* focus slider is off while the panel shows auto focus.
AskCamera ==
  \E field \in DOMAIN FirstCamera : \E c \in Cameras :
    /\ field = "focus" => ~shown.camera.autoFocus
    /\ c = [asked.camera EXCEPT ![field] = c[field]]
    /\ Ask(field, c[field])
    /\ asked' = [asked EXCEPT !.camera = c]

HearSignal ==
  /\ signals # <<>>
  /\ shown' = [shown EXCEPT ![Head(signals).topic] = Head(signals).value]
  /\ signals' = Tail(signals)
  /\ UNCHANGED <<intent, published, centreKey, sent, requests, asked>>

-----------------------------------------------------------------------------
(* The controller's slots.                                                 *)

\* Mutant: an intent is changed without a signal.
Set_Silent(topic, value) ==
  /\ intent' = [intent EXCEPT ![topic] = value]
  /\ UNCHANGED signals

\* Each slot sets one intent and signals it, unless it is what it was.
Set(topic, value) ==
  /\ intent' = [intent EXCEPT ![topic] = value]
  /\ signals' = IF intent[topic] = value THEN signals
                ELSE Append(signals, Signal(topic, value))

\* Mutant: a station that keeps its depth ignores the request.
SetMode_NotFromKeep(m) ==
  Set("vertical", IF intent.vertical.mode = "keep" THEN intent.vertical
                  ELSE [intent.vertical EXCEPT !.mode = m])

\* SetVertical...Mode: the targets of all modes are kept.
SetMode(m) == Set("vertical", [intent.vertical EXCEPT !.mode = m])

HandleRequest ==
  /\ requests # <<>>
  /\ requests' = Tail(requests)
  /\ LET slot == Head(requests).topic
         value == Head(requests).value
     IN
     \/ slot = "lamp" /\ Set("lamp", Clamp(intent.lamp + value, 0, LampMax))
     \/ slot = "hold" /\ Set("hold", value)
     \/ slot = "mode" /\ SetMode(value)
     \/ /\ slot \in DOMAIN intent.camera
        /\ Set("camera", [intent.camera EXCEPT ![slot] = value])
  /\ UNCHANGED <<published, centreKey, sent, shown, asked>>

-----------------------------------------------------------------------------
(* The tick.  What it reads: axes gives the value of each, pressed the key *)
(* that centres the gimbal.                                                *)

\* Mutant: the lamp is integrated without a limit.
NextLamp_Unclamped(axis, delta) == intent.lamp + axis * LampSpeed * delta

NextLamp(axis, delta) == Clamp(intent.lamp + axis * LampSpeed * delta, 0, LampMax)

TurnedPitch(axis, delta) ==
  Clamp(intent.pitch + axis * PitchSpeed * delta, -PitchMax, PitchMax)

\* The gimbal is centred when the key is seen to go down.
Centres(pressed) == pressed /\ centreKey # "pressed"

\* The ballast axis moves the target of the mode in force.
NextVertical(axis, delta) ==
  LET v == intent.vertical IN
  CASE v.mode = "ballast" ->
         [v EXCEPT !.ballast = Clamp(v.ballast + axis * BallastSpeed * delta, 0, BallastMax)]
    [] v.mode = "depth" ->
         [v EXCEPT !.depth = NonNegative(v.depth + axis * DepthSpeed * delta)]
    [] v.mode = "keep" -> v

\* The signals of an intent that changes from old to new.
Changed(topic, old, new) == IF old = new THEN <<>> ELSE <<Signal(topic, new)>>

\* A movement that Horizontal::Api::Command rejects ends the tick before the
\* intents are published for the first time and before the command is
\* submitted.  A command the sink does not take is only logged, and the next
\* tick submits anew.
Tick(axes, pressed, delta, accepted) ==
  LET turned == TurnedPitch(axes.pitch, delta)
      pitch == IF Centres(pressed) THEN 0 ELSE turned
      lamp == NextLamp(axes.lamp, delta)
      vertical == NextVertical(axes.ballast, delta)
  IN
  /\ Len(signals) <= MaxSignals /\ vertical.depth <= MaxDepth
  /\ intent' = [intent EXCEPT !.lamp = lamp, !.pitch = pitch, !.vertical = vertical]
  /\ centreKey' = IF pressed THEN "pressed" ELSE "released"
  /\ published' = (published \/ accepted)
  /\ sent' \in {sent} \cup IF accepted THEN {Command(intent')} ELSE {}
  /\ signals' = signals
       \o Changed("lamp", intent.lamp, lamp)
       \o Changed("pitch", intent.pitch, turned) \o Changed("pitch", turned, pitch)
       \o Changed("vertical", intent.vertical, vertical)
       \o IF published \/ ~accepted THEN <<>>
          ELSE <<Signal("camera", intent.camera), Signal("pitch", pitch),
                 Signal("hold", intent.hold), Signal("vertical", vertical)>>
  /\ UNCHANGED <<requests, shown, asked>>

AcceptedTick ==
  \E axes \in Axes, pressed \in BOOLEAN, delta \in Deltas : Tick(axes, pressed, delta, TRUE)

RejectedTick ==
  \E axes \in Axes, pressed \in BOOLEAN, delta \in Deltas : Tick(axes, pressed, delta, FALSE)

Next ==
  \/ AskLamp \/ AskHold \/ AskMode \/ AskCamera
  \/ HearSignal \/ HandleRequest
  \/ AcceptedTick \/ RejectedTick

Spec == Init /\ [][Next]_vars

-----------------------------------------------------------------------------
(* Properties.                                                             *)

Vertical == [mode : Modes, ballast : 0..BallastMax, depth : 0..MaxDepth]

Intents ==
  [lamp : 0..LampMax, pitch : -PitchMax..PitchMax, camera : Cameras,
   hold : BOOLEAN, vertical : Vertical]

TypeOK ==
  /\ intent \in Intents /\ shown \in Intents
  /\ published \in BOOLEAN
  /\ centreKey \in {"unread", "pressed", "released"}
  /\ sent \in {NothingSent} \cup
       [hold : BOOLEAN, mode : Modes, camera : {<<>>} \cup {<<c>> : c \in Cameras}]
  /\ Len(requests) <= MaxRequests
  /\ asked \in [camera : Cameras, hold : BOOLEAN, mode : Modes]

\* No intent, and so no command, leaves its range, however long an axis is held
\* and however buttons and ticks alternate; nor does what the panels show of it.
IntentsInRange == {intent, shown} \subseteq Intents

\* Who knows old of topic knows new once it has heard all signals of queue:
\* the last one about topic tells it, or there is none and nothing to tell.
ComesTo(old, queue, topic, new) ==
  \/ /\ old = new
     /\ \A i \in DOMAIN queue : queue[i].topic # topic
  \/ \E i \in DOMAIN queue :
       /\ queue[i].topic = topic /\ queue[i].value = new
       /\ \A j \in i+1 .. Len(queue) : queue[j].topic # topic

\* Whatever has been heard of the intents, once all signals that wait have
\* been heard the panels show the intents the controller works with.
PanelsFollow ==
  \A topic \in DOMAIN intent : ComesTo(shown[topic], signals, topic, intent[topic])

\* The submarine has been told what the operator asked for.
Told ==
  sent = Command([intent EXCEPT !.hold = asked.hold, !.camera = asked.camera,
                                !.vertical.mode = asked.mode])

\* No request is lost or overtaken between the panel and the command: what a
\* tick newly tells the submarine while no request waits is all that was last
\* asked for, whatever the axes, the key, rejected ticks and commands the sink
\* did not take did meanwhile.
LastWordIsSent == [][sent' # sent /\ requests = <<>> => Told']_vars
=============================================================================
