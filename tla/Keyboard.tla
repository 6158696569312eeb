------------------------------ MODULE Keyboard ------------------------------
(***************************************************************************)
(* Input/QtKeyboard: the event filter on the GUI thread queues key events  *)
(* under m_EventMutex, and System::Tick on the controller thread takes the *)
(* queue in one exchange and applies it event by event, without the mutex, *)
(* to the key states that axes and keys are read from.  When the window or *)
(* the application is deactivated all keys are to be released, as their    *)
(* release events will go elsewhere.                                       *)
(*                                                                         *)
(* Sets stand for the key maps: a key is in the set when its entry is true.*)
(***************************************************************************)
EXTENDS Naturals, Sequences

CONSTANTS
  Keys,
  MaxPending,     (* bound on m_PendingEvents                               *)
  None            (* no key                                                 *)

ASSUME KeyboardAssumption == MaxPending \in Nat /\ None \notin Keys

VARIABLES
  observed,       (* m_ObservedPressedKeys                                  *)
  pendingEvents,  (* m_PendingEvents                                        *)
  releaseAll,     (* m_ReleaseAllRequested                                  *)
  batch,          (* the events a tick has taken and not yet applied        *)
  keyStates,      (* m_KeyStates                                            *)
  capture,        (* m_PendingKeyCapture or m_PendingAxisCapture            *)
  raced           (* keys whose press waited as all were released (history) *)

sharedVars == <<observed, pendingEvents, releaseAll>>
tickVars == <<batch, keyStates, capture>>
keyboardVars == <<sharedVars, tickVars, raced>>

Event(k, pressed) == [key |-> k, pressed |-> pressed]

NoCapture == [kind |-> "none", positive |-> None]

KeyboardInit ==
  /\ observed = {} /\ pendingEvents = <<>> /\ releaseAll = FALSE
  /\ batch = <<>> /\ keyStates = {}
  /\ capture = NoCapture
  /\ raced = {}

-----------------------------------------------------------------------------
(* The GUI thread; what it does with the mutex held is one step.           *)

\* EnqueueKeyEvent of a key whose observed state changes.
Enqueue(k, pressed) ==
  /\ Len(pendingEvents) < MaxPending
  /\ observed' = IF pressed THEN observed \cup {k} ELSE observed \ {k}
  /\ pendingEvents' = Append(pendingEvents, Event(k, pressed))
  /\ UNCHANGED releaseAll

KeyPress(k) ==
  /\ k \notin observed
  /\ Enqueue(k, TRUE)
  /\ raced' = raced \ {k}
  /\ UNCHANGED tickVars

KeyRelease(k) ==
  /\ k \in observed
  /\ Enqueue(k, FALSE)
  /\ UNCHANGED <<tickVars, raced>>

PressWaits(k) == \E i \in DOMAIN pendingEvents : pendingEvents[i] = Event(k, TRUE)

\* Mutant: the observed keys are forgotten but not released.
Deactivate_NoRelease ==
  /\ observed' = {}
  /\ raced' = raced \cup {k \in Keys : PressWaits(k)}
  /\ UNCHANGED <<pendingEvents, releaseAll, tickVars>>

\* EnqueueReleaseAll, as the window or the application is deactivated; it
\* leaves m_PendingEvents as they are.
Deactivate ==
  /\ observed' = {}
  /\ releaseAll' = TRUE
  /\ raced' = raced \cup {k \in Keys : PressWaits(k)}
  /\ UNCHANGED <<pendingEvents, tickVars>>

-----------------------------------------------------------------------------
(* The controller thread.                                                  *)

\* Mutant: the request to release all keys is taken and not carried out.
TickTakes_ForgetsRelease ==
  /\ batch' = pendingEvents
  /\ pendingEvents' = <<>>
  /\ releaseAll' = FALSE
  /\ UNCHANGED <<observed, keyStates, capture, raced>>

\* The exchange under the mutex, and the release of all keys it brings.
TickTakes ==
  /\ batch' = pendingEvents
  /\ pendingEvents' = <<>>
  /\ releaseAll' = FALSE
  /\ keyStates' = IF releaseAll THEN {} ELSE keyStates
  /\ UNCHANGED <<observed, capture, raced>>

\* A capture under way sees presses only: a key capture ends with the first,
\* an axis capture with the second.
CaptureAfter(e) ==
  IF ~e.pressed \/ capture.kind = "none" THEN capture
  ELSE IF capture.kind = "axis" /\ capture.positive = None
       THEN [capture EXCEPT !.positive = e.key]
       ELSE NoCapture

\* Event e ends an axis capture with a binding to its key and the key before,
\* which must be two.
BindsAxis(e) ==
  /\ e.pressed
  /\ capture.kind = "axis"
  /\ capture.positive \notin {None, e.key}

TickApplies(e) ==
  /\ batch # <<>> /\ e = Head(batch)
  /\ keyStates' = IF e.pressed THEN keyStates \cup {e.key} ELSE keyStates \ {e.key}
  /\ capture' = CaptureAfter(e)
  /\ batch' = Tail(batch)
  /\ UNCHANGED <<sharedVars, raced>>

\* StartCapture forgets a capture under way without a word to its callback.
StartCapture(kind) ==
  /\ capture' = [kind |-> kind, positive |-> None]
  /\ UNCHANGED <<sharedVars, batch, keyStates, raced>>

StopCapture ==
  /\ capture' = NoCapture
  /\ UNCHANGED <<sharedVars, batch, keyStates, raced>>

\* What the GUI thread may do, whatever the controller thread is doing.
KeyboardGui ==
  \/ \E k \in Keys : KeyPress(k) \/ KeyRelease(k)
  \/ Deactivate

-----------------------------------------------------------------------------
(* Properties.                                                             *)

Events == [key : Keys, pressed : BOOLEAN]

KeyboardTypeOK ==
  /\ observed \subseteq Keys /\ keyStates \subseteq Keys
  /\ raced \subseteq Keys
  /\ releaseAll \in BOOLEAN
  /\ pendingEvents \in Seq(Events) /\ Len(pendingEvents) <= MaxPending
  /\ batch \in Seq(Events)
  /\ capture \in [kind : {"none", "key", "axis"}, positive : Keys \cup {None}]

\* Key k is down after the events of queue, if was tells if it is before them:
\* the last one about k is a press, or there is none and k stays down.
DownAfter(queue, k, was) ==
  \/ \E i \in DOMAIN queue :
       /\ queue[i] = Event(k, TRUE)
       /\ \A j \in i+1 .. Len(queue) : queue[j].key # k
  \/ /\ was
     /\ \A i \in DOMAIN queue : queue[i].key # k

\* Key k is down once everything that waits has been applied.
Will(k) ==
  DownAfter(pendingEvents, k, ~releaseAll /\ DownAfter(batch, k, k \in keyStates))

\* The station comes to hold down the very keys the window has seen pressed
\* and not released, whatever the order of events, ticks and deactivations -
\* except that a press that waits while all keys are released outlives the
\* release: that key is held down until it is pressed again.
KeysFollow ==
  \A k \in Keys : Will(k) # (k \in observed) => k \in raced /\ Will(k)
=============================================================================
