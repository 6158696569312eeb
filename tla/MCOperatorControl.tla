------------------------- MODULE MCOperatorControl -------------------------
EXTENDS OperatorControl

CONSTANT TestedBallastSpeed

\* No axis moved, or all of them at once: buttons and the centre key move lamp
\* and pitch by themselves.
MCAxes == {[lamp |-> n, pitch |-> n, ballast |-> n] : n \in -1..1}

MCFirstCamera == [enabled |-> TRUE, autoFocus |-> TRUE, focus |-> "half", profile |-> "standard"]

\* On and off with auto focus, and on with two positions of manual focus.
MCCameras == {MCFirstCamera, [MCFirstCamera EXCEPT !.enabled = FALSE],
              [MCFirstCamera EXCEPT !.autoFocus = FALSE],
              [MCFirstCamera EXCEPT !.autoFocus = FALSE, !.focus = "near"]}

LongestTick == CHOOSE d \in Deltas : \A e \in Deltas : e <= d

\* The ballast position moves no faster than ControllerTest.cpp has it: by a
\* tenth in a second of full deflection.
BallastMovesAsTested ==
  [][intent'.vertical.ballast - intent.vertical.ballast
       <= TestedBallastSpeed * LongestTick]_vars
=============================================================================
