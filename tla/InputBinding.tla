--------------------------- MODULE InputBinding ---------------------------
(***************************************************************************)
(* Input/Controller and the binding dialog.  Every input of the station    *)
(* has a binding for the keyboard and one for the gamepad; a cell is one   *)
(* of them.  The operator taps a cell, the controller captures the next    *)
(* key or stick of that device, restores the binding from its serialized   *)
(* form and writes the device's binding file anew.  The dialog is in the   *)
(* GUI thread and the controller in the controller thread: requests and    *)
(* signals between them wait in the event queues of the two threads.       *)
(*                                                                         *)
(* The two input systems are distinct, as main.cpp makes them.  A hint of  *)
(* the dialog stands for the binding it describes.                         *)
(***************************************************************************)
EXTENDS Naturals, Sequences

CONSTANTS
  Inputs,
  Devices,
  CellOrder,      (* the cells in the order of m_Bindings                   *)
  External,       (* devices whose binder and serializer are not this code's *)
  Bindings,       (* what a capture may yield or a file hold                *)
  Broken,         (* bindings that decode and cannot be restored            *)
  None,
  Target, Busy, AllBound,  (* what signals are about, but for cells' hints  *)
  MaxRequests,    (* bound on the controller's waiting requests             *)
  MaxSignals      (* no tap while so many signals wait for the dialog       *)

Cells == Inputs \X Devices
DeviceOf(c) == c[2]

ASSUME BindingAssumption ==
  /\ External \subseteq Devices /\ Broken \subseteq Bindings
  /\ CellOrder \in Seq(Cells)
  /\ \A c \in Cells : \E n \in DOMAIN CellOrder : CellOrder[n] = c
  /\ \A m, n \in DOMAIN CellOrder : CellOrder[m] = CellOrder[n] => m = n
  /\ None \notin Bindings \cup Cells \cup Devices
  /\ {Target, Busy, AllBound} \cap Cells = {}
  /\ Target # Busy /\ Busy # AllBound /\ AllBound # Target
  /\ MaxRequests \in Nat /\ MaxSignals \in Nat

VARIABLES
  shown,          (* the dialog: hint of each cell, Target, Busy, AllBound  *)
  requests,       (* waiting for the controller                             *)
  signals,        (* waiting for the dialog                                 *)
  started,        (* Start has run                                          *)
  stored,         (* Serialized of each cell                                *)
  source,         (* the binding each cell's Axis or Key was made from      *)
  pending,        (* m_PendingCapture                                       *)
  allBound,       (* m_LastAllBindingsConfigured                            *)
  saving,         (* the device whose file is truncated and not yet written *)
  capturing,      (* the cell each device's binder captures for             *)
  file,           (* what the binding files hold                            *)
  rushed          (* the last tap did not wait for the one before (history) *)

guiVars == <<shown, rushed>>
bindingVars == <<stored, source, allBound, saving, file>>
captureVars == <<pending, capturing>>
vars == <<guiVars, requests, signals, started, bindingVars, captureVars>>

\* RestoreDeviceBinding: a binding that cannot be restored is forgotten.
Restored(b) == IF b \in Broken THEN None ELSE b

AreAllBindingsConfigured(src) ==
  \A i \in Inputs : \E d \in Devices : src[<<i, d>>] # None

Signal(topic, value) == [topic |-> topic, value |-> value]

\* The signals with which a capture starts and ends.
CaptureStarts(c) == <<Signal(Target, c), Signal(Busy, TRUE)>>
CaptureEnds == <<Signal(Target, None), Signal(Busy, FALSE)>>

\* PublishAllBindingsConfigured when the sources are src.
NewAllBound(src) ==
  IF allBound = AreAllBindingsConfigured(src) THEN <<>>
  ELSE <<Signal(AllBound, AreAllBindingsConfigured(src))>>

\* A process that starts: the controller is constructed from the files.
Booted(files) ==
  /\ shown' = [t \in Cells \cup {Target, Busy, AllBound} |->
                 IF t \in {Busy, AllBound} THEN FALSE ELSE None]
  /\ requests' = <<>> /\ signals' = <<>> /\ started' = FALSE
  /\ stored' = files
  /\ source' = [c \in Cells |-> None]
  /\ pending' = None /\ allBound' = FALSE /\ saving' = None
  /\ capturing' = [d \in Devices |-> None]
  /\ file' = files
  /\ rushed' = FALSE

Init ==
  /\ shown = [t \in Cells \cup {Target, Busy, AllBound} |->
                 IF t \in {Busy, AllBound} THEN FALSE ELSE None]
  /\ requests = <<>> /\ signals = <<>> /\ started = FALSE
  /\ file \in [Cells -> Bindings \cup {None}]
  /\ stored = file
  /\ source = [c \in Cells |-> None]
  /\ pending = None /\ allBound = FALSE /\ saving = None
  /\ capturing = [d \in Devices |-> None]
  /\ rushed = FALSE

-----------------------------------------------------------------------------
(* The dialog.                                                             *)

\* A capture that the dialog may not have heard of, or heard of the end of.
Unsettled ==
  \/ \E n \in DOMAIN requests : requests[n].kind = "capture"
  \/ pending # None
  \/ \E n \in DOMAIN signals : signals[n].topic \in {Target, Busy}

\* Cells can be tapped until the dialog hears that a capture is under way.
Tap(c) ==
  /\ ~shown[Busy]
  /\ Len(requests) < MaxRequests /\ Len(signals) < MaxSignals
  /\ requests' = Append(requests, [kind |-> "capture", cell |-> c])
  /\ rushed' = Unsettled
  /\ UNCHANGED <<shown, signals, started, bindingVars, captureVars>>

\* The request names no cell; the one it is aimed at is kept for checking.
TapCancel ==
  /\ shown[Busy]
  /\ Len(requests) < MaxRequests
  /\ requests' = Append(requests, [kind |-> "cancel", cell |-> shown[Target]])
  /\ UNCHANGED <<guiVars, signals, started, bindingVars, captureVars>>

HearSignal ==
  /\ signals # <<>>
  /\ shown' = [shown EXCEPT ![Head(signals).topic] = Head(signals).value]
  /\ signals' = Tail(signals)
  /\ UNCHANGED <<rushed, requests, started, bindingVars, captureVars>>

-----------------------------------------------------------------------------
(* The controller.  A save is in the middle of a handler: while one is     *)
(* under way no other handler runs.                                        *)

Start ==
  /\ ~started /\ saving = None
  /\ started' = TRUE
  /\ stored' = [c \in Cells |-> Restored(stored[c])]
  /\ source' = stored'
  /\ signals' = signals
       \o [n \in DOMAIN CellOrder |-> Signal(CellOrder[n], source'[CellOrder[n]])]
       \o NewAllBound(source')
  /\ allBound' = AreAllBindingsConfigured(source')
  /\ UNCHANGED <<guiVars, requests, saving, file, captureVars>>

\* CompleteAxisCapture and CompleteKeyCapture without a binding: cancelled,
\* failed or not supported.
EndCapture ==
  /\ pending' = None
  /\ signals' = signals \o CaptureEnds
  /\ UNCHANGED bindingVars

\* Mutant: the dialog is not told which cell is captured.
HandleCapture_Untold(c) ==
  \/ /\ pending # None
     /\ UNCHANGED <<captureVars, signals, bindingVars>>
  \/ /\ pending = None
     /\ pending' = c
     /\ capturing' = [capturing EXCEPT ![DeviceOf(c)] = c]
     /\ signals' = Append(signals, Signal(Busy, TRUE))
     /\ UNCHANGED bindingVars

\* Capture: refused while one is under way; a binder that does not support
\* the capture calls back before StartCapture returns.
HandleCapture(c) ==
  \/ /\ pending # None
     /\ UNCHANGED <<captureVars, signals, bindingVars>>
  \/ /\ pending = None
     /\ pending' = c
     /\ capturing' = [capturing EXCEPT ![DeviceOf(c)] = c]
     /\ signals' = signals \o CaptureStarts(c)
     /\ UNCHANGED bindingVars
  \/ /\ pending = None /\ DeviceOf(c) \in External
     /\ signals' = signals \o CaptureStarts(c) \o CaptureEnds
     /\ UNCHANGED <<captureVars, bindingVars>>

\* Mutant: the capture is given up without a word to the binder.
HandleCancel_KeepsBinder ==
  \/ /\ pending = None
     /\ UNCHANGED <<captureVars, signals, bindingVars>>
  \/ /\ pending # None
     /\ EndCapture
     /\ UNCHANGED capturing

\* Mutant: the capture is stopped and the dialog hears nothing of it.
HandleCancel_Silent ==
  \/ /\ pending = None
     /\ UNCHANGED <<captureVars, signals, bindingVars>>
  \/ /\ pending # None
     /\ capturing' = [capturing EXCEPT ![DeviceOf(pending)] = None]
     /\ pending' = None
     /\ UNCHANGED <<signals, bindingVars>>

\* CancelCapture: the binder calls back from within StopCapture.
HandleCancel ==
  \/ /\ pending = None
     /\ UNCHANGED <<captureVars, signals, bindingVars>>
  \/ /\ pending # None
     /\ capturing' = [capturing EXCEPT ![DeviceOf(pending)] = None]
     /\ EndCapture

HandleRequest ==
  /\ requests # <<>> /\ saving = None
  /\ requests' = Tail(requests)
  /\ \/ Head(requests).kind = "capture" /\ HandleCapture(Head(requests).cell)
     \/ Head(requests).kind = "cancel" /\ HandleCancel
  /\ UNCHANGED <<guiVars, started>>

\* A binder's callback, which comes from a tick and so not before Start.
BinderCallsBack(d) ==
  /\ started /\ saving = None
  /\ capturing[d] # None
  /\ capturing' = [capturing EXCEPT ![d] = None]
  /\ UNCHANGED <<guiVars, requests, started>>

\* Complete...Capture drops an answer that is not to the pending capture.
Dropped == UNCHANGED <<pending, signals, bindingVars>>

CaptureFails(d) ==
  /\ BinderCallsBack(d)
  /\ IF pending = capturing[d] THEN EndCapture ELSE Dropped

\* Mutant: the dialog is given a hint of the binding, restored or not.
Bind_HintsAnyway(c, b) ==
  /\ pending' = None
  /\ stored' = [stored EXCEPT ![c] = Restored(b)]
  /\ source' = [source EXCEPT ![c] = Restored(b)]
  /\ signals' = signals \o CaptureEnds \o <<Signal(c, b)>>
  /\ saving' = DeviceOf(c)
  /\ file' = [x \in Cells |-> IF DeviceOf(x) = DeviceOf(c) THEN None ELSE file[x]]
  /\ UNCHANGED allBound

\* Mutant: the file of the other device is written.
Bind_WrongFile(c, b) ==
  /\ pending' = None
  /\ stored' = [stored EXCEPT ![c] = Restored(b)]
  /\ source' = [source EXCEPT ![c] = Restored(b)]
  /\ signals' = signals \o CaptureEnds \o <<Signal(c, Restored(b))>>
  /\ saving' = CHOOSE d \in Devices : d # DeviceOf(c)
  /\ file' = [x \in Cells |-> IF DeviceOf(x) = saving' THEN None ELSE file[x]]
  /\ UNCHANGED allBound

\* Complete...Capture of cell c with binding b, up to the truncation of the
\* file.  A binding that cannot be restored leaves the cell unbound.
Bind(c, b) ==
  /\ pending' = None
  /\ stored' = [stored EXCEPT ![c] = Restored(b)]
  /\ source' = [source EXCEPT ![c] = Restored(b)]
  /\ signals' = signals \o CaptureEnds \o <<Signal(c, Restored(b))>>
  /\ saving' = DeviceOf(c)
  /\ file' = [x \in Cells |-> IF DeviceOf(x) = DeviceOf(c) THEN None ELSE file[x]]
  /\ UNCHANGED allBound

\* What the keyboard's own binder captures can always be restored.
Captured(d, b) ==
  /\ b \in Broken => d \in External
  /\ BinderCallsBack(d)
  /\ IF pending = capturing[d] THEN Bind(pending, b) ELSE Dropped

\* The rest of SaveBindingFile and of Complete...Capture.
Saved ==
  /\ saving # None
  /\ file' = [c \in Cells |-> IF DeviceOf(c) = saving THEN stored[c] ELSE file[c]]
  /\ saving' = None
  /\ signals' = signals \o NewAllBound(source)
  /\ allBound' = AreAllBindingsConfigured(source)
  /\ UNCHANGED <<guiVars, requests, started, stored, source, captureVars>>

\* The process dies and is started again.
Crash == Booted(file)

Operator == TapCancel \/ \E c \in Cells : Tap(c)

Binder ==
  \E d \in Devices :
    \/ CaptureFails(d)
    \/ \E b \in Bindings : Captured(d, b)

Next == Operator \/ HearSignal \/ Start \/ HandleRequest \/ Binder \/ Saved \/ Crash

Spec == Init /\ [][Next]_vars

\* Both threads run their event loops; nobody need tap or press anything.
FairSpec ==
  /\ Spec
  /\ WF_vars(HearSignal) /\ WF_vars(Start)
  /\ WF_vars(HandleRequest) /\ WF_vars(Saved)

-----------------------------------------------------------------------------
(* Properties.                                                             *)

Signals ==
  [topic : Cells, value : Bindings \cup {None}]
    \cup [topic : {Target}, value : Cells \cup {None}]
    \cup [topic : {Busy, AllBound}, value : BOOLEAN]

TypeOK ==
  /\ DOMAIN shown = Cells \cup {Target, Busy, AllBound}
  /\ \A c \in Cells : shown[c] \in Bindings \cup {None}
  /\ shown[Target] \in Cells \cup {None}
  /\ shown[Busy] \in BOOLEAN /\ shown[AllBound] \in BOOLEAN
  /\ requests \in Seq([kind : {"capture"}, cell : Cells]
                        \cup [kind : {"cancel"}, cell : Cells \cup {None}])
  /\ Len(requests) <= MaxRequests
  /\ signals \in Seq(Signals)
  /\ started \in BOOLEAN /\ allBound \in BOOLEAN /\ rushed \in BOOLEAN
  /\ stored \in [Cells -> Bindings \cup {None}]
  /\ source \in [Cells -> (Bindings \ Broken) \cup {None}]
  /\ file \in [Cells -> Bindings \cup {None}]
  /\ pending \in Cells \cup {None}
  /\ capturing \in [Devices -> Cells \cup {None}]
  /\ saving \in Devices \cup {None}

\* The controller waits for a capture exactly when the binder of that device
\* is capturing for that cell and no other binder is: no press is taken for a
\* capture that was given up, and no capture is waited for that cannot come,
\* after which every tap would be refused.
CaptureIsAwaited == \A d \in Devices :
  capturing[d] = IF pending # None /\ DeviceOf(pending) = d THEN pending ELSE None

\* Who shows old of topic shows new once it has heard all signals of queue:
\* the last one about topic tells it, or there is none and nothing to tell.
ComesTo(old, queue, topic, new) ==
  \/ /\ old = new
     /\ \A i \in DOMAIN queue : queue[i].topic # topic
  \/ \E i \in DOMAIN queue :
       /\ queue[i].topic = topic /\ queue[i].value = new
       /\ \A j \in i+1 .. Len(queue) : queue[j].topic # topic

WillShow(topic, new) == ComesTo(shown[topic], signals, topic, new)

\* However taps, captures and cancels cross, the dialog comes to show what
\* the controller works with: the binding of every source, the capture that
\* is under way, and whether all inputs are bound.
DialogFollows ==
  /\ \A c \in Cells : WillShow(c, source[c])
  /\ WillShow(Target, pending)
  /\ WillShow(Busy, pending # None)
  /\ saving = None => WillShow(AllBound, started /\ AreAllBindingsConfigured(source))

\* A crash at any point, in the middle of a save too, costs at most the
\* bindings of the device whose file was being written: all others that could
\* be used come back.
CrashCostsOneDevice ==
  [][Crash => \A c \in Cells :
       DeviceOf(c) # saving => Restored(stored'[c]) = Restored(stored[c])]_vars

\* A cancel that arrives late ends no capture but the one that the operator
\* saw on asking - unless cells were tapped in a rush, before the dialog had
\* heard of the tap before.
CancelHitsItsAim ==
  [][requests # <<>> /\ Head(requests).kind = "cancel" /\ HandleRequest
       /\ pending # None /\ ~rushed
     => Head(requests).cell = pending]_vars

\* The operator who asks to cancel sees the capture end, whatever the binder
\* does: the dialog never stays in a capture that cannot be left.
CancelIsHeard ==
  (\E n \in DOMAIN requests : requests[n].kind = "cancel") ~> ~shown[Busy]
=============================================================================
