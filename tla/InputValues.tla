---------------------------- MODULE InputValues ----------------------------
(***************************************************************************)
(* What an axis of the station reads, from the keys of the keyboard and    *)
(* the stick of the gamepad to the value that the control reads: the       *)
(* controller thread runs in rounds, in the order in which main.cpp adds   *)
(* its tickables - the gamepad, the keyboard, the input controller, whose  *)
(* axes look at their sources, and then the control.  A capture that ends  *)
(* while the keyboard ticks replaces the keyboard's source of the axis     *)
(* there and then, between two key events.                                 *)
(*                                                                         *)
(* Keyboard and AxisMultiplexor are the parts; the axis is the one input   *)
(* whose binding changes here, and captures of keys are of other inputs.   *)
(***************************************************************************)
EXTENDS Keyboard, AxisMultiplexor, Integers

CONSTANTS
  KeyboardAxis, GamepadAxis,  (* the sources                                *)
  Stick                       (* what the gamepad's axis may read           *)

Axes == {KeyboardAxis, GamepadAxis}

ASSUME InputValuesAssumption ==
  /\ Neutral = 0 /\ Neutral \in Stick /\ Stick \subseteq Int
  /\ KeyboardAxis # GamepadAxis /\ NoSource \notin Axes

VARIABLES
  round,          (* who of the controller thread is next to tick           *)
  stick,          (* what the gamepad's axis reads, bound or not            *)
  axisKeys,       (* positive and negative key of the keyboard's axis       *)
  mover           (* the source that was last seen to move (history)        *)

vars == <<keyboardVars, muxVars, round, stick, axisKeys, mover>>

AxisBindings == {b \in Keys \X Keys : b[1] # b[2]}

\* Axis::GetValue of the keyboard, bound to keys, when those in pressed are.
KeysRead(keys, pressed) ==
  IF keys = None \/ (keys[1] \in pressed <=> keys[2] \in pressed) THEN Neutral
  ELSE IF keys[1] \in pressed THEN 1 ELSE -1

Readings(keys, pressed, position) ==
  [s \in Axes |-> IF s = KeyboardAxis THEN KeysRead(keys, pressed) ELSE position]

Read == Readings(axisKeys, keyStates, stick)

\* The sources UpdateProxy finds.
SourcesOf(keys, gamepad) ==
  (IF keys = None THEN <<>> ELSE <<KeyboardAxis>>)
    \o (IF gamepad THEN <<GamepadAxis>> ELSE <<>>)

\* The controller has started and has restored what the files held.
Init ==
  /\ KeyboardInit
  /\ axisKeys \in AxisBindings \cup {None}
  /\ stick = Neutral
  /\ \E gamepad \in BOOLEAN : sources = SourcesOf(axisKeys, gamepad)
  /\ lastValues = [i \in DOMAIN sources |-> Neutral]
  /\ authority = 1 /\ value = Neutral
  /\ round = "over"
  /\ mover = NoSource

\* A source that is replaced is freed first: the new one may or may not be
\* given its address.
FoundInCharge(s) == IF InCharge = s THEN {s, NoSource} ELSE {InCharge}

\* Complete...Capture of source s, with what UpdateProxy finds then.  If the
\* other source moved since it was last looked at, that goes unseen.
Rebind(s, new, read) ==
  /\ \E kept \in FoundInCharge(s) : SetSources(new, read, kept)
  /\ mover' = IF mover = s \/ \E i \in Movers(read) : sources[i] # s
              THEN NoSource ELSE mover

-----------------------------------------------------------------------------

Gui == KeyboardGui /\ UNCHANGED <<muxVars, round, stick, axisKeys, mover>>

\* The gamepad's manager ticks: the stick may move, or a capture end with a
\* binding that can be restored or with one that cannot.
GamepadTick ==
  /\ stick' \in Stick
  /\ \/ UNCHANGED <<muxVars, mover>>
     \/ /\ capture = NoCapture
        /\ \E bound \in BOOLEAN :
             Rebind(GamepadAxis, SourcesOf(axisKeys, bound),
                    Readings(axisKeys, keyStates, stick'))

\* The exchange that follows it is where other threads come in.
GamepadThenKeyboard ==
  /\ round = "over"
  /\ round' = "ticking"
  /\ GamepadTick
  /\ TickTakes
  /\ UNCHANGED axisKeys

KeyboardApplies ==
  /\ round = "ticking"
  /\ \E e \in Events :
       /\ TickApplies(e)
       /\ \/ /\ ~BindsAxis(e)
             /\ UNCHANGED <<muxVars, axisKeys, mover>>
          \/ /\ BindsAxis(e)
             /\ axisKeys' = <<capture.positive, e.key>>
             /\ Rebind(KeyboardAxis,
                       SourcesOf(axisKeys', Contains(sources, GamepadAxis)),
                       Readings(axisKeys', keyStates', stick))
  /\ UNCHANGED <<round, stick>>

\* Input/Controller::Tick, after which the control reads the axis.
InputTick ==
  /\ round = "ticking" /\ batch = <<>>
  /\ round' = "over"
  /\ MuxTick(Read)
  /\ mover' = IF Movers(Read) = {} THEN mover ELSE sources[Max(Movers(Read))]
  /\ UNCHANGED <<keyboardVars, stick, axisKeys>>

Round == GamepadThenKeyboard \/ KeyboardApplies \/ InputTick

\* Requests of the binding dialog are handled between two rounds, and refused
\* while a capture is under way.
Capture(kind) ==
  /\ round = "over"
  /\ capture = NoCapture
  /\ StartCapture(kind)
  /\ UNCHANGED <<muxVars, round, stick, axisKeys, mover>>

CancelCapture ==
  /\ round = "over"
  /\ capture # NoCapture
  /\ StopCapture
  /\ UNCHANGED <<muxVars, round, stick, axisKeys, mover>>

Next ==
  \/ Gui
  \/ Round
  \/ \E kind \in {"key", "axis"} : Capture(kind)
  \/ CancelCapture

Spec == Init /\ [][Next]_vars

\* The TickRunner keeps ticking.
FairSpec == Spec /\ WF_vars(Round)

-----------------------------------------------------------------------------
(* Properties.                                                             *)

TypeOK ==
  /\ KeyboardTypeOK
  /\ sources \in {SourcesOf(keys, gamepad) :
                    keys \in AxisBindings \cup {None}, gamepad \in BOOLEAN}
  /\ Len(lastValues) = Len(sources)
  /\ authority \in {1, 2}
  /\ value \in Stick \cup {-1, 0, 1}
  /\ round \in {"over", "ticking"}
  /\ stick \in Stick
  /\ axisKeys \in AxisBindings \cup {None}
  /\ mover \in Axes \cup {NoSource}

\* The control reads the device that was moved last: neither a device at rest
\* nor the replacement of the other device's source takes the axis from it.
MoverIsFollowed ==
  round = "over" /\ mover # NoSource => value = Read[mover]

\* Nothing is held that would move the axis.
LetGo ==
  /\ stick = Neutral
  /\ axisKeys # None =>
       \A i \in 1 .. 2 : axisKeys[i] \notin observed \cup raced

\* Once the operator lets go of the keys and the stick the axis comes to
\* rest, whatever was rebound, pressed or left unfocused before.
LettingGoStops == LetGo ~> value = Neutral \/ ~LetGo
=============================================================================
