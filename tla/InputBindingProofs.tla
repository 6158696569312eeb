------------------------- MODULE InputBindingProofs -------------------------
(***************************************************************************)
(* Of the input bindings, for any inputs, devices and bindings: the        *)
(* controller waits for the capture that is under way and no other, a      *)
(* crash costs the bindings of one device at most, the dialog catches up   *)
(* with the controller, and a cancel hits what it was meant for.           *)
(***************************************************************************)
EXTENDS InputBinding, TLAPS

\* What the files hold, for all devices but the one that is being saved.
FilesFollow ==
  \A c \in Cells : DeviceOf(c) # saving => Restored(file[c]) = Restored(stored[c])

IInv == TypeOK /\ CaptureIsAwaited /\ FilesFollow

\* The requests by kind, as TypeOK has them.
Requests == [kind : {"capture"}, cell : Cells]
              \cup [kind : {"cancel"}, cell : Cells \cup {None}]

Topics == Cells \cup {Target, Busy, AllBound}

\* What the dialog may show; the part of TypeOK about it.
ShownOK(view) ==
  /\ DOMAIN view = Topics
  /\ \A c \in Cells : view[c] \in Bindings \cup {None}
  /\ view[Target] \in Cells \cup {None}
  /\ view[Busy] \in BOOLEAN /\ view[AllBound] \in BOOLEAN

-----------------------------------------------------------------------------

\* Facts about cells, and about bindings that are restored.
LEMMA CellFacts ==
  \A c \in Cells : DeviceOf(c) \in Devices /\ c # None
  BY BindingAssumption DEF Cells, DeviceOf

LEMMA RestoredFacts ==
  \A b \in Bindings \cup {None} :
    /\ Restored(b) \in (Bindings \ Broken) \cup {None}
    /\ Restored(Restored(b)) = Restored(b)
  BY BindingAssumption DEF Restored

\* Two of a set make a sequence over it.
LEMMA PairInSeq ==
  ASSUME NEW S, NEW a \in S, NEW b \in S PROVE <<a, b>> \in Seq(S)
  OBVIOUS

\* Two sequences over a set make one.
LEMMA SeqJoins ==
  ASSUME NEW S PROVE \A s, t \in Seq(S) : s \o t \in Seq(S)
  OBVIOUS

\* The signals that end a capture, and all others, are of the type.
LEMMA SignalFacts ==
  /\ CaptureEnds \in Seq(Signals)
  /\ \A c \in Cells : CaptureStarts(c) \in Seq(Signals)
  /\ \A c \in Cells, b \in Bindings \cup {None} : Signal(c, b) \in Signals
  /\ \A src : NewAllBound(src) \in Seq(Signals)
<1>1. \A c \in Cells, b \in Bindings \cup {None} : Signal(c, b) \in Signals
  BY DEF Signal, Signals
<1>2. \A c \in Cells \cup {None} : Signal(Target, c) \in Signals
  BY DEF Signal, Signals
<1>3. \A b \in BOOLEAN : Signal(Busy, b) \in Signals /\ Signal(AllBound, b) \in Signals
  BY DEF Signal, Signals
<1>4. CaptureEnds \in Seq(Signals)
  <2>1. Signal(Target, None) \in Signals /\ Signal(Busy, FALSE) \in Signals
    BY <1>2, <1>3
  <2> QED BY <2>1, PairInSeq DEF CaptureEnds
<1>5. \A c \in Cells : CaptureStarts(c) \in Seq(Signals)
  <2>1. TAKE c \in Cells
  <2>2. Signal(Target, c) \in Signals /\ Signal(Busy, TRUE) \in Signals
    BY <1>2, <1>3
  <2> QED BY <2>2, PairInSeq DEF CaptureStarts
<1>6. ASSUME NEW src PROVE NewAllBound(src) \in Seq(Signals)
  <2>1. AreAllBindingsConfigured(src) \in BOOLEAN
    BY DEF AreAllBindingsConfigured
  <2>2. Signal(AllBound, AreAllBindingsConfigured(src)) \in Signals
    BY <1>3, <2>1
  <2> HIDE DEF AreAllBindingsConfigured
  <2> QED BY <2>2 DEF NewAllBound
<1> QED BY <1>1, <1>4, <1>5, <1>6

\* A dialog that hears a signal shows what it may.
LEMMA HearKeepsType ==
  ASSUME NEW view, ShownOK(view), NEW s \in Signals
  PROVE ShownOK([view EXCEPT ![s.topic] = s.value])
<1>1. CASE s \in [topic : Cells, value : Bindings \cup {None}]
  BY <1>1, BindingAssumption DEF ShownOK, Topics
<1>2. CASE s \in [topic : {Target}, value : Cells \cup {None}]
  BY <1>2, BindingAssumption DEF ShownOK, Topics
<1>3. CASE s \in [topic : {Busy, AllBound}, value : BOOLEAN]
  BY <1>3, BindingAssumption DEF ShownOK, Topics
<1> QED BY <1>1, <1>2, <1>3 DEF Signals

\* TypeOK with the parts named that the lemmas above are about.
LEMMA TypeParts ==
  TypeOK <=>
    /\ ShownOK(shown)
    /\ requests \in Seq(Requests) /\ Len(requests) <= MaxRequests
    /\ signals \in Seq(Signals)
    /\ started \in BOOLEAN /\ allBound \in BOOLEAN /\ rushed \in BOOLEAN
    /\ stored \in [Cells -> Bindings \cup {None}]
    /\ source \in [Cells -> (Bindings \ Broken) \cup {None}]
    /\ file \in [Cells -> Bindings \cup {None}]
    /\ pending \in Cells \cup {None}
    /\ capturing \in [Devices -> Cells \cup {None}]
    /\ saving \in Devices \cup {None}
  BY DEF TypeOK, ShownOK, Topics, Requests

\* A process that starts is as it should be, whatever the files hold.
LEMMA InitIInv == Init => IInv
<1> SUFFICES ASSUME Init PROVE IInv
  OBVIOUS
<1>1. ShownOK(shown)
  BY BindingAssumption DEF Init, ShownOK, Topics
<1>2. TypeOK
  <2>1. requests \in Seq(Requests) /\ Len(requests) <= MaxRequests /\ signals \in Seq(Signals)
    BY BindingAssumption DEF Init
  <2> QED BY <1>1, <2>1, TypeParts DEF Init
<1>3. CaptureIsAwaited
  BY DEF Init, CaptureIsAwaited
<1>4. FilesFollow
  BY DEF Init, FilesFollow
<1> QED BY <1>2, <1>3, <1>4 DEF IInv

\* Of a capture that ends, no binder is left capturing.
LEMMA EndIsAwaited ==
  ASSUME TypeOK, CaptureIsAwaited,
         NEW d \in Devices, capturing[d] # None,
         capturing' = [capturing EXCEPT ![d] = None], pending' = None
  PROVE CaptureIsAwaited'
<1>1. pending # None /\ DeviceOf(pending) = d
  BY DEF CaptureIsAwaited
<1>2. \A e \in Devices : e # d => capturing[e] = None
  BY <1>1 DEF CaptureIsAwaited
<1> QED BY <1>2 DEF CaptureIsAwaited, TypeOK

\* What a capture that is given up or fails changes.
LEMMA EndStep ==
  ASSUME IInv, EndCapture
  PROVE /\ pending' \in Cells \cup {None}
        /\ signals' \in Seq(Signals)
        /\ UNCHANGED bindingVars
  BY SignalFacts DEF EndCapture, IInv, TypeOK

\* What the binding of a cell changes.
LEMMA BindStep ==
  ASSUME IInv, saving = None, NEW c \in Cells, NEW b \in Bindings, Bind(c, b)
  PROVE /\ pending' = None
        /\ signals' \in Seq(Signals)
        /\ stored' \in [Cells -> Bindings \cup {None}]
        /\ source' \in [Cells -> (Bindings \ Broken) \cup {None}]
        /\ file' \in [Cells -> Bindings \cup {None}]
        /\ saving' \in Devices
        /\ allBound' = allBound
        /\ FilesFollow'
<1>1. Restored(b) \in (Bindings \ Broken) \cup {None}
  BY RestoredFacts
<1>2. Signal(c, Restored(b)) \in Signals
  BY <1>1, SignalFacts
<1>3. signals' \in Seq(Signals)
  BY <1>2, SignalFacts DEF Bind, IInv, TypeOK
<1>4. stored' \in [Cells -> Bindings \cup {None}]
  BY <1>1 DEF Bind, IInv, TypeOK
<1>5. source' \in [Cells -> (Bindings \ Broken) \cup {None}]
  BY <1>1 DEF Bind, IInv, TypeOK
<1>6. file' \in [Cells -> Bindings \cup {None}]
  BY DEF Bind, IInv, TypeOK
<1>7. FilesFollow'
  <2>1. SUFFICES ASSUME NEW x \in Cells, DeviceOf(x) # saving'
                 PROVE Restored(file'[x]) = Restored(stored'[x])
    BY DEF FilesFollow, Restored
  <2>2. x # c /\ file'[x] = file[x] /\ stored'[x] = stored[x]
    BY <2>1 DEF Bind, IInv, TypeOK
  <2>3. DeviceOf(x) # saving
    BY CellFacts, BindingAssumption
  <2> QED BY <2>1, <2>2, <2>3 DEF IInv, FilesFollow
<1> QED BY <1>3, <1>4, <1>5, <1>6, <1>7, CellFacts DEF Bind

\* The dialog's steps leave the controller alone.
LEMMA DialogStep == IInv /\ (Operator \/ HearSignal) => IInv'
<1> SUFFICES ASSUME IInv, Operator \/ HearSignal PROVE IInv'
  OBVIOUS
<1> USE DEF IInv
<1>1. ASSUME NEW c \in Cells, Tap(c) PROVE IInv'
  <2>1. [kind |-> "capture", cell |-> c] \in Requests
    BY DEF Requests
  <2>2. requests' \in Seq(Requests) /\ Len(requests') <= MaxRequests
    BY <1>1, <2>1, TypeParts, BindingAssumption DEF Tap
  <2>3. rushed' \in BOOLEAN
    BY <1>1 DEF Tap, Unsettled
  <2>4. TypeOK'
    BY <1>1, <2>2, <2>3 DEF Tap, TypeOK, Requests, bindingVars, captureVars
  <2>5. CaptureIsAwaited' /\ FilesFollow'
    BY <1>1 DEF Tap, bindingVars, captureVars, CaptureIsAwaited, FilesFollow, Restored
  <2> QED BY <2>4, <2>5
<1>2. CASE TapCancel
  <2>1. [kind |-> "cancel", cell |-> shown[Target]] \in Requests
    BY DEF Requests, TypeOK
  <2>2. requests' \in Seq(Requests) /\ Len(requests') <= MaxRequests
    BY <1>2, <2>1, TypeParts, BindingAssumption DEF TapCancel
  <2>3. TypeOK'
    BY <1>2, <2>2 DEF TapCancel, TypeOK, Requests, guiVars, bindingVars, captureVars
  <2>4. CaptureIsAwaited' /\ FilesFollow'
    BY <1>2 DEF TapCancel, bindingVars, captureVars, CaptureIsAwaited, FilesFollow, Restored
  <2> QED BY <2>3, <2>4
<1>3. CASE HearSignal
  <2>1. Head(signals) \in Signals /\ signals' \in Seq(Signals)
    BY <1>3, TypeParts DEF HearSignal
  <2>2. ShownOK(shown')
    BY <1>3, <2>1, TypeParts, HearKeepsType DEF HearSignal
  <2>3. TypeOK'
    BY <1>3, <2>1, <2>2 DEF HearSignal, TypeOK, ShownOK, Topics, bindingVars, captureVars
  <2>4. CaptureIsAwaited' /\ FilesFollow'
    BY <1>3 DEF HearSignal, bindingVars, captureVars, CaptureIsAwaited, FilesFollow, Restored
  <2> QED BY <2>3, <2>4
<1> QED BY <1>1, <1>2, <1>3 DEF Operator

\* Start restores every binding and tells the dialog.
LEMMA StartStep == IInv /\ Start => IInv'
<1> SUFFICES ASSUME IInv, Start PROVE IInv'
  OBVIOUS
<1> USE DEF IInv
<1>1. \A c \in Cells : /\ stored'[c] = Restored(stored[c])
                       /\ stored'[c] \in (Bindings \ Broken) \cup {None}
  BY RestoredFacts DEF Start, TypeOK
<1>2. stored' \in [Cells -> (Bindings \ Broken) \cup {None}]
  BY <1>1 DEF Start
<1>3. stored' \in [Cells -> Bindings \cup {None}]
  BY <1>2
<1>4. source' \in [Cells -> (Bindings \ Broken) \cup {None}]
  BY <1>2 DEF Start
<1>5. \A n \in DOMAIN CellOrder : Signal(CellOrder[n], source'[CellOrder[n]]) \in Signals
  <2>1. TAKE n \in DOMAIN CellOrder
  <2>2. CellOrder[n] \in Cells
    BY BindingAssumption
  <2>3. source'[CellOrder[n]] \in Bindings \cup {None}
    BY <1>4, <2>2
  <2> QED BY <2>2, <2>3, SignalFacts
<1>6. [n \in DOMAIN CellOrder |-> Signal(CellOrder[n], source'[CellOrder[n]])] \in Seq(Signals)
  <2>1. DOMAIN CellOrder = 1..Len(CellOrder) /\ Len(CellOrder) \in Nat
    BY BindingAssumption
  <2> QED BY <1>5, <2>1
<1>7. NewAllBound(source') \in Seq(Signals)
  BY SignalFacts
<1>8. signals' \in Seq(Signals)
  BY <1>6, <1>7 DEF Start, TypeOK
<1>9. allBound' \in BOOLEAN
  BY DEF Start, AreAllBindingsConfigured
<1>10. TypeOK'
  BY <1>3, <1>4, <1>8, <1>9 DEF Start, TypeOK, guiVars, captureVars
<1>11. CaptureIsAwaited'
  BY DEF Start, CaptureIsAwaited, captureVars
<1>12. FilesFollow'
  <2>1. SUFFICES ASSUME NEW c \in Cells, DeviceOf(c) # saving'
                 PROVE Restored(file'[c]) = Restored(stored'[c])
    BY DEF FilesFollow, Restored
  <2>2. Restored(file[c]) = Restored(stored[c])
    BY <2>1 DEF Start, FilesFollow
  <2>3. Restored(stored'[c]) = Restored(stored[c])
    BY <1>1, RestoredFacts DEF TypeOK
  <2> QED BY <2>2, <2>3 DEF Start
<1> QED BY <1>10, <1>11, <1>12

\* Capture and CancelCapture: a binder is started or stopped together with
\* what the controller waits for.
LEMMA RequestStep == IInv /\ HandleRequest => IInv'
<1> SUFFICES ASSUME IInv, HandleRequest PROVE IInv'
  OBVIOUS
<1> USE DEF IInv
<1>1. Head(requests) \in Requests /\ requests' \in Seq(Requests) /\ Len(requests') <= MaxRequests
  BY TypeParts, BindingAssumption DEF HandleRequest
<1>2. ASSUME NEW c \in Cells, HandleCapture(c)
      PROVE /\ pending' \in Cells \cup {None} /\ signals' \in Seq(Signals)
            /\ capturing' \in [Devices -> Cells \cup {None}]
            /\ UNCHANGED bindingVars /\ CaptureIsAwaited'
  <2>1. signals' \in Seq(Signals)
    <3>1. CaptureStarts(c) \in Seq(Signals) /\ CaptureEnds \in Seq(Signals)
      BY SignalFacts
    <3>2. \/ signals' = signals
          \/ signals' = signals \o CaptureStarts(c)
          \/ signals' = signals \o CaptureStarts(c) \o CaptureEnds
      BY <1>2 DEF HandleCapture
    <3>3. signals \in Seq(Signals)
      BY DEF TypeOK
    <3>4. /\ signals \o CaptureStarts(c) \in Seq(Signals)
          /\ signals \o CaptureStarts(c) \o CaptureEnds \in Seq(Signals)
      BY <3>1, <3>3, SeqJoins
    <3> QED BY <3>2, <3>3, <3>4
  <2>2. CASE pending = None /\ pending' = c /\ capturing' = [capturing EXCEPT ![DeviceOf(c)] = c]
    <3>1. \A d \in Devices : capturing[d] = None
      BY <2>2 DEF CaptureIsAwaited
    <3>2. CaptureIsAwaited'
      BY <2>2, <3>1, CellFacts DEF CaptureIsAwaited, TypeOK
    <3> QED BY <1>2, <2>1, <2>2, <3>2 DEF HandleCapture, TypeOK
  <2>3. CASE UNCHANGED captureVars
    BY <1>2, <2>1, <2>3 DEF HandleCapture, captureVars, CaptureIsAwaited, TypeOK
  <2> QED BY <1>2, <2>2, <2>3 DEF HandleCapture
<1>3. ASSUME HandleCancel
      PROVE /\ pending' \in Cells \cup {None} /\ signals' \in Seq(Signals)
            /\ capturing' \in [Devices -> Cells \cup {None}]
            /\ UNCHANGED bindingVars /\ CaptureIsAwaited'
  <2>1. CASE UNCHANGED <<captureVars, signals, bindingVars>>
    BY <2>1 DEF captureVars, CaptureIsAwaited, TypeOK
  <2>2. CASE /\ pending # None /\ EndCapture
             /\ capturing' = [capturing EXCEPT ![DeviceOf(pending)] = None]
    <3>1. DeviceOf(pending) \in Devices /\ capturing[DeviceOf(pending)] # None
      BY <2>2, CellFacts DEF CaptureIsAwaited, TypeOK
    <3>2. CaptureIsAwaited'
      BY <2>2, <3>1, EndIsAwaited DEF EndCapture
    <3> QED BY <2>2, <3>2, EndStep DEF TypeOK
  <2> QED BY <1>3, <2>1, <2>2 DEF HandleCancel
<1>4. /\ pending' \in Cells \cup {None} /\ signals' \in Seq(Signals)
      /\ capturing' \in [Devices -> Cells \cup {None}]
      /\ UNCHANGED bindingVars /\ CaptureIsAwaited'
  <2>1. CASE Head(requests).kind = "capture" /\ HandleCapture(Head(requests).cell)
    <3>1. Head(requests).cell \in Cells
      BY <1>1, <2>1 DEF Requests
    <3> QED BY <1>2, <2>1, <3>1
  <2>2. CASE HandleCancel
    BY <1>3, <2>2
  <2> QED BY <2>1, <2>2 DEF HandleRequest
<1>5. TypeOK'
  BY <1>1, <1>4 DEF HandleRequest, TypeOK, Requests, guiVars, bindingVars
<1>6. FilesFollow'
  BY <1>4 DEF bindingVars, FilesFollow, Restored
<1> QED BY <1>4, <1>5, <1>6

\* A binder that calls back has stopped capturing; a binding it brings takes
\* effect in its own cell and in the file of its own device.
LEMMA BinderStep == IInv /\ Binder => IInv'
<1> SUFFICES ASSUME IInv, Binder PROVE IInv'
  OBVIOUS
<1> USE DEF IInv
<1>1. ASSUME NEW d \in Devices, BinderCallsBack(d)
      PROVE /\ pending = capturing[d] /\ pending \in Cells /\ DeviceOf(pending) = d
            /\ capturing' \in [Devices -> Cells \cup {None}]
  BY <1>1 DEF BinderCallsBack, CaptureIsAwaited, TypeOK
<1>2. ASSUME NEW d \in Devices, CaptureFails(d) PROVE IInv'
  <2>1. BinderCallsBack(d) /\ EndCapture
    BY <1>1, <1>2 DEF CaptureFails
  <2>2. CaptureIsAwaited'
    BY <2>1, EndIsAwaited DEF BinderCallsBack, EndCapture
  <2>3. TypeOK'
    BY <1>1, <2>1, EndStep DEF BinderCallsBack, TypeOK, guiVars, bindingVars
  <2>4. FilesFollow'
    BY <2>1 DEF EndCapture, bindingVars, FilesFollow, Restored
  <2> QED BY <2>2, <2>3, <2>4
<1>3. ASSUME NEW d \in Devices, NEW b \in Bindings, Captured(d, b) PROVE IInv'
  <2>1. BinderCallsBack(d) /\ Bind(pending, b)
    BY <1>1, <1>3 DEF Captured
  <2>2. pending \in Cells /\ saving = None
    BY <1>1, <2>1 DEF BinderCallsBack
  <2>3. /\ pending' = None /\ signals' \in Seq(Signals)
        /\ stored' \in [Cells -> Bindings \cup {None}]
        /\ source' \in [Cells -> (Bindings \ Broken) \cup {None}]
        /\ file' \in [Cells -> Bindings \cup {None}]
        /\ saving' \in Devices /\ allBound' = allBound /\ FilesFollow'
    BY <2>1, <2>2, BindStep
  <2>4. CaptureIsAwaited'
    BY <2>1, <2>3, EndIsAwaited DEF BinderCallsBack
  <2>5. TypeOK'
    BY <1>1, <2>1, <2>3 DEF BinderCallsBack, TypeOK, guiVars
  <2> QED BY <2>3, <2>4, <2>5
<1> QED BY <1>2, <1>3 DEF Binder

\* The file that was truncated is written from the bindings in force.
LEMMA SavedStep == IInv /\ Saved => IInv'
<1> SUFFICES ASSUME IInv, Saved PROVE IInv'
  OBVIOUS
<1> USE DEF IInv
<1>1. signals' \in Seq(Signals) /\ allBound' \in BOOLEAN
  <2>1. NewAllBound(source) \in Seq(Signals)
    BY SignalFacts
  <2> QED BY <2>1 DEF Saved, TypeOK, AreAllBindingsConfigured
<1>2. file' \in [Cells -> Bindings \cup {None}]
  BY DEF Saved, TypeOK
<1>3. TypeOK'
  BY <1>1, <1>2 DEF Saved, TypeOK, guiVars, captureVars
<1>4. CaptureIsAwaited'
  BY DEF Saved, CaptureIsAwaited, captureVars
<1>5. FilesFollow'
  <2>1. SUFFICES ASSUME NEW c \in Cells PROVE Restored(file'[c]) = Restored(stored'[c])
    BY DEF FilesFollow, Restored
  <2>2. file'[c] = stored[c] \/ (DeviceOf(c) # saving /\ file'[c] = file[c])
    BY DEF Saved
  <2> QED BY <2>2 DEF Saved, FilesFollow
<1> QED BY <1>3, <1>4, <1>5

\* A crash leaves nothing but the files.
LEMMA CrashStep == IInv /\ Crash => IInv'
<1> SUFFICES ASSUME IInv, Crash PROVE IInv'
  OBVIOUS
<1> USE DEF IInv
<1>1. ShownOK(shown')
  BY BindingAssumption DEF Crash, Booted, ShownOK, Topics
<1>2. requests' \in Seq(Requests) /\ Len(requests') <= MaxRequests /\ signals' \in Seq(Signals)
  BY BindingAssumption DEF Crash, Booted
<1>3. TypeOK'
  BY <1>1, <1>2 DEF Crash, Booted, TypeOK, ShownOK, Topics, Requests
<1>4. CaptureIsAwaited'
  BY DEF Crash, Booted, CaptureIsAwaited
<1>5. FilesFollow'
  BY DEF Crash, Booted, FilesFollow, Restored
<1> QED BY <1>3, <1>4, <1>5

LEMMA Inductive == IInv /\ [Next]_vars => IInv'
<1> SUFFICES ASSUME IInv, [Next]_vars PROVE IInv'
  OBVIOUS
<1>1. CASE Next
  BY <1>1, DialogStep, StartStep, RequestStep, BinderStep, SavedStep, CrashStep DEF Next
<1>2. CASE UNCHANGED vars
  <2>1. TypeOK' /\ CaptureIsAwaited' /\ FilesFollow'
    BY <1>2 DEF IInv, vars, guiVars, bindingVars, captureVars, TypeOK,
                CaptureIsAwaited, FilesFollow, Restored
  <2> QED BY <2>1 DEF IInv
<1> QED BY <1>1, <1>2

-----------------------------------------------------------------------------
(* What the dialog hears.                                                  *)

\* Signals about other topics change nothing.
LEMMA HearsOthers ==
  ASSUME NEW q, NEW topic, NEW old, \A i \in DOMAIN q : q[i].topic # topic
  PROVE  ComesTo(old, q, topic, old)
BY DEF ComesTo

\* What is heard of one queue and then of another is heard of the two as one.
LEMMA HearsBoth ==
  ASSUME NEW S, NEW q \in Seq(S), NEW r \in Seq(S), NEW topic, NEW old, NEW mid, NEW new,
         ComesTo(old, q, topic, mid), ComesTo(mid, r, topic, new)
  PROVE  ComesTo(old, q \o r, topic, new)
<1> DEFINE t == q \o r
<1>1. /\ Len(q) \in Nat /\ Len(r) \in Nat /\ Len(t) = Len(q) + Len(r)
      /\ DOMAIN q = 1..Len(q) /\ DOMAIN r = 1..Len(r) /\ DOMAIN t = 1..Len(t)
      /\ \A i \in 1..Len(q) : t[i] = q[i]
      /\ \A i \in 1..Len(r) : t[Len(q) + i] = r[i]
  OBVIOUS
<1> HIDE DEF t
<1>2. \A i \in DOMAIN t : i \notin DOMAIN q => i - Len(q) \in DOMAIN r /\ t[i] = r[i - Len(q)]
  <2>1. ASSUME NEW i \in DOMAIN t, i \notin DOMAIN q
        PROVE  i - Len(q) \in DOMAIN r /\ t[i] = r[i - Len(q)]
    <3>1. i - Len(q) \in 1..Len(r) /\ Len(q) + (i - Len(q)) = i
      BY <1>1, <2>1
    <3> QED BY <1>1, <3>1
  <2> QED BY <2>1
<1>3. CASE mid = new /\ \A i \in DOMAIN r : r[i].topic # topic
  <2>1. CASE old = mid /\ \A i \in DOMAIN q : q[i].topic # topic
    <3>1. \A i \in DOMAIN t : t[i].topic # topic
      BY <1>1, <1>2, <1>3, <2>1
    <3> QED BY <1>3, <2>1, <3>1 DEF ComesTo, t
  <2>2. ASSUME NEW i \in DOMAIN q, q[i].topic = topic, q[i].value = mid,
               \A j \in i+1 .. Len(q) : q[j].topic # topic
        PROVE  ComesTo(old, t, topic, new)
    <3>1. i \in DOMAIN t /\ t[i] = q[i]
      BY <1>1
    <3>2. ASSUME NEW j \in i+1 .. Len(t) PROVE t[j].topic # topic
      <4>1. j \in DOMAIN t /\ (j \in DOMAIN q => j \in i+1 .. Len(q))
        BY <1>1
      <4> QED BY <1>1, <1>2, <1>3, <2>2, <4>1
    <3> QED BY <1>3, <2>2, <3>1, <3>2 DEF ComesTo
  <2> QED BY <2>1, <2>2 DEF ComesTo, t
<1>4. ASSUME NEW i \in DOMAIN r, r[i].topic = topic, r[i].value = new,
             \A j \in i+1 .. Len(r) : r[j].topic # topic
      PROVE  ComesTo(old, t, topic, new)
  <2>1. Len(q) + i \in DOMAIN t /\ t[Len(q) + i] = r[i]
    BY <1>1
  <2>2. ASSUME NEW j \in (Len(q) + i)+1 .. Len(t) PROVE t[j].topic # topic
    <3>1. j \in DOMAIN t /\ j \notin DOMAIN q /\ j - Len(q) \in i+1 .. Len(r)
      BY <1>1
    <3> QED BY <1>2, <1>4, <3>1
  <2>3. \E k \in DOMAIN t : /\ t[k].topic = topic /\ t[k].value = new
                            /\ \A j \in k+1 .. Len(t) : t[j].topic # topic
    BY <1>4, <2>1, <2>2
  <2> QED BY <2>3 DEF ComesTo
<1> QED BY <1>3, <1>4 DEF ComesTo, t

\* A first signal that is heard was one of those to come.
LEMMA HearsHead ==
  ASSUME NEW S, NEW q \in Seq(S), q # <<>>, NEW topic, NEW old, NEW new,
         ComesTo(old, q, topic, new)
  PROVE  ComesTo(IF Head(q).topic = topic THEN Head(q).value ELSE old,
                 Tail(q), topic, new)
<1> DEFINE r == Tail(q)
           knows == IF Head(q).topic = topic THEN Head(q).value ELSE old
<1>1. /\ Len(q) = Len(r) + 1 /\ Len(r) \in Nat
      /\ DOMAIN r = 1..Len(r) /\ DOMAIN q = 1..Len(q)
      /\ Head(q) = q[1] /\ 1 \in DOMAIN q
      /\ \A i \in DOMAIN r : r[i] = q[i + 1] /\ i + 1 \in DOMAIN q
  OBVIOUS
<1> HIDE DEF r
<1>2. CASE old = new /\ \A i \in DOMAIN q : q[i].topic # topic
  <2>1. knows = new /\ \A i \in DOMAIN r : r[i].topic # topic
    BY <1>1, <1>2
  <2> QED BY <2>1 DEF ComesTo, r
<1>3. ASSUME NEW i \in DOMAIN q, q[i].topic = topic, q[i].value = new,
             \A j \in i+1 .. Len(q) : q[j].topic # topic
      PROVE  ComesTo(knows, r, topic, new)
  <2>1. CASE i = 1
    <3>1. knows = new
      BY <1>1, <1>3, <2>1
    <3>2. ASSUME NEW j \in DOMAIN r PROVE r[j].topic # topic
      <4>1. j + 1 \in i+1 .. Len(q) /\ r[j] = q[j + 1]
        BY <1>1, <2>1
      <4> QED BY <1>3, <4>1
    <3> QED BY <3>1, <3>2 DEF ComesTo
  <2>2. CASE i # 1
    <3>1. PICK k \in DOMAIN r : k + 1 = i
      <4>1. i - 1 \in DOMAIN r /\ (i - 1) + 1 = i
        BY <1>1, <2>2
      <4> QED BY <4>1
    <3>2. r[k] = q[i]
      BY <1>1, <3>1
    <3>3. ASSUME NEW j \in k+1 .. Len(r) PROVE r[j].topic # topic
      <4>1. j + 1 \in i+1 .. Len(q) /\ j \in DOMAIN r
        BY <1>1, <3>1
      <4> QED BY <1>1, <1>3, <4>1
    <3> QED BY <1>3, <3>2, <3>3 DEF ComesTo
  <2> QED BY <2>1, <2>2
<1> QED BY <1>2, <1>3 DEF ComesTo, r

\* What the signals of a capture, of a hint and of the last row tell.
LEMMA OneTells ==
  ASSUME NEW topic, NEW value, NEW other, NEW old
  PROVE  /\ ComesTo(old, <<Signal(topic, value)>>, topic, value)
         /\ topic # other => ComesTo(old, <<Signal(topic, value)>>, other, old)
BY DEF ComesTo, Signal

LEMMA CaptureTells ==
  ASSUME NEW old, NEW c
  PROVE  /\ ComesTo(old, CaptureStarts(c), Target, c)
         /\ ComesTo(old, CaptureStarts(c), Busy, TRUE)
         /\ ComesTo(old, CaptureEnds, Target, None)
         /\ ComesTo(old, CaptureEnds, Busy, FALSE)
         /\ \A t : t \notin {Target, Busy} =>
              ComesTo(old, CaptureStarts(c), t, old) /\ ComesTo(old, CaptureEnds, t, old)
<1> DEFINE Pair(a, b) == <<Signal(Target, a), Signal(Busy, b)>>
<1>1. \A a, b : /\ DOMAIN Pair(a, b) = 1..2 /\ Len(Pair(a, b)) = 2
                /\ Pair(a, b)[1].topic = Target /\ Pair(a, b)[1].value = a
                /\ Pair(a, b)[2].topic = Busy /\ Pair(a, b)[2].value = b
  BY DEF Signal
<1> HIDE DEF Pair
<1>2. \A a, b : ComesTo(old, Pair(a, b), Target, a) /\ ComesTo(old, Pair(a, b), Busy, b)
  <2>1. ASSUME NEW a, NEW b PROVE ComesTo(old, Pair(a, b), Target, a)
    <3>1. 1 \in DOMAIN Pair(a, b) /\ \A j \in 1+1 .. 2 : Pair(a, b)[j].topic # Target
      BY <1>1, BindingAssumption
    <3> QED BY <1>1, <3>1 DEF ComesTo
  <2>2. ASSUME NEW a, NEW b PROVE ComesTo(old, Pair(a, b), Busy, b)
    <3>1. 2 \in DOMAIN Pair(a, b) /\ \A j \in 2+1 .. 2 : Pair(a, b)[j].topic # Busy
      BY <1>1
    <3> QED BY <1>1, <3>1 DEF ComesTo
  <2> QED BY <2>1, <2>2
<1>3. \A a, b, t : t \notin {Target, Busy} => ComesTo(old, Pair(a, b), t, old)
  <2>1. ASSUME NEW a, NEW b, NEW t, t \notin {Target, Busy}
        PROVE  ComesTo(old, Pair(a, b), t, old)
    <3>1. \A i \in DOMAIN Pair(a, b) : Pair(a, b)[i].topic # t
      BY <1>1, <2>1
    <3> QED BY <3>1, HearsOthers
  <2> QED BY <2>1
<1>4. CaptureStarts(c) = Pair(c, TRUE) /\ CaptureEnds = Pair(None, FALSE)
  BY DEF Pair, CaptureStarts, CaptureEnds
<1> QED BY <1>2, <1>3, <1>4

-----------------------------------------------------------------------------
(* The dialog follows the controller.                                      *)

\* Who shows view shows, once it has heard q, what a controller works with
\* that has the sources src, waits for the capture of p and last said all.
Follows(view, q, src, p, all) ==
  /\ \A c \in Cells : ComesTo(view[c], q, c, src[c])
  /\ ComesTo(view[Target], q, Target, p)
  /\ p = None => ComesTo(view[Busy], q, Busy, FALSE)
  /\ p # None => ComesTo(view[Busy], q, Busy, TRUE)
  /\ ComesTo(view[AllBound], q, AllBound, all)

\* What was last said of all inputs is so, except in the middle of a save.
SaidOfAll ==
  /\ saving # None => started
  /\ saving = None => (allBound <=> started /\ AreAllBindingsConfigured(source))

DialogInv == Follows(shown, signals, source, pending, allBound) /\ SaidOfAll

LEMMA TopicsDiffer ==
  /\ Target # Busy /\ Busy # AllBound /\ AllBound # Target
  /\ \A c \in Cells : c # Target /\ c # Busy /\ c # AllBound /\ c # None
  /\ AllBound \notin {Target, Busy} /\ \A c \in Cells : c \notin {Target, Busy}
BY CellFacts, BindingAssumption

\* More signals that tell of a capture, of one cell, or of the last row.
LEMMA FollowsStart ==
  ASSUME NEW view, NEW q \in Seq(Signals), NEW src, NEW p, NEW all, NEW c \in Cells,
         Follows(view, q, src, p, all)
  PROVE  Follows(view, q \o CaptureStarts(c), src, c, all)
<1> DEFINE r == CaptureStarts(c)
<1>1. r \in Seq(Signals) /\ c # None
  BY SignalFacts, TopicsDiffer
<1>2. /\ \A old : ComesTo(old, r, Target, c) /\ ComesTo(old, r, Busy, TRUE)
      /\ \A old : ComesTo(old, r, AllBound, old) /\ \A d \in Cells : ComesTo(old, r, d, old)
  BY CaptureTells, TopicsDiffer
<1> HIDE DEF r
<1>3. \A d \in Cells : ComesTo(view[d], q \o r, d, src[d])
  BY <1>1, <1>2, HearsBoth DEF Follows
<1>4. ComesTo(view[Target], q \o r, Target, c) /\ ComesTo(view[AllBound], q \o r, AllBound, all)
  BY <1>1, <1>2, HearsBoth DEF Follows
<1>5. ComesTo(view[Busy], q \o r, Busy, TRUE)
  BY <1>1, <1>2, HearsBoth DEF Follows
<1> QED BY <1>1, <1>3, <1>4, <1>5 DEF Follows, r

LEMMA FollowsEnd ==
  ASSUME NEW view, NEW q \in Seq(Signals), NEW src, NEW p, NEW all,
         Follows(view, q, src, p, all)
  PROVE  Follows(view, q \o CaptureEnds, src, None, all)
<1> DEFINE r == CaptureEnds
<1>1. r \in Seq(Signals)
  BY SignalFacts
<1>2. /\ \A old : ComesTo(old, r, Target, None) /\ ComesTo(old, r, Busy, FALSE)
      /\ \A old : ComesTo(old, r, AllBound, old) /\ \A d \in Cells : ComesTo(old, r, d, old)
  BY CaptureTells, TopicsDiffer
<1> HIDE DEF r
<1>3. \A d \in Cells : ComesTo(view[d], q \o r, d, src[d])
  BY <1>1, <1>2, HearsBoth DEF Follows
<1>4. /\ ComesTo(view[Target], q \o r, Target, None)
      /\ ComesTo(view[AllBound], q \o r, AllBound, all)
  BY <1>1, <1>2, HearsBoth DEF Follows
<1>5. ComesTo(view[Busy], q \o r, Busy, FALSE)
  BY <1>1, <1>2, HearsBoth DEF Follows
<1> QED BY <1>1, <1>3, <1>4, <1>5 DEF Follows, r

LEMMA FollowsHint ==
  ASSUME NEW view, NEW q \in Seq(Signals), NEW src, NEW p, NEW all, NEW c \in Cells,
         NEW b \in Bindings \cup {None}, Follows(view, q, src, p, all), DOMAIN src = Cells
  PROVE  Follows(view, q \o <<Signal(c, b)>>, [src EXCEPT ![c] = b], p, all)
<1> DEFINE r == <<Signal(c, b)>>
<1>1. r \in Seq(Signals)
  BY SignalFacts
<1>2. /\ \A old : ComesTo(old, r, c, b)
      /\ \A old, t : t # c => ComesTo(old, r, t, old)
  BY OneTells
<1> HIDE DEF r
<1>3. \A d \in Cells : ComesTo(view[d], q \o r, d, [src EXCEPT ![c] = b][d])
  <2>1. ASSUME NEW d \in Cells PROVE ComesTo(view[d], q \o r, d, [src EXCEPT ![c] = b][d])
    <3>1. CASE d = c
      BY <1>1, <1>2, <3>1, HearsBoth DEF Follows
    <3>2. CASE d # c
      BY <1>1, <1>2, <3>2, HearsBoth DEF Follows
    <3> QED BY <3>1, <3>2
  <2> QED BY <2>1
<1>4. \A old : ComesTo(old, r, Target, old) /\ ComesTo(old, r, Busy, old)
               /\ ComesTo(old, r, AllBound, old)
  BY <1>2, TopicsDiffer
<1>5. /\ ComesTo(view[Target], q \o r, Target, p)
      /\ ComesTo(view[AllBound], q \o r, AllBound, all)
  BY <1>1, <1>4, HearsBoth DEF Follows
<1>6. p = None => ComesTo(view[Busy], q \o r, Busy, FALSE)
  BY <1>1, <1>4, HearsBoth DEF Follows
<1>7. p # None => ComesTo(view[Busy], q \o r, Busy, TRUE)
  BY <1>1, <1>4, HearsBoth DEF Follows
<1> QED BY <1>3, <1>5, <1>6, <1>7 DEF Follows, r

\* PublishAllBindingsConfigured says what changed.
LEMMA FollowsAll ==
  ASSUME NEW view, NEW q \in Seq(Signals), NEW src, NEW p,
         Follows(view, q, src, p, allBound)
  PROVE  Follows(view, q \o NewAllBound(src), src, p, AreAllBindingsConfigured(src))
<1> DEFINE r == NewAllBound(src)
           all == AreAllBindingsConfigured(src)
<1>1. r \in Seq(Signals)
  BY SignalFacts
<1> HIDE DEF all
<1>2. \A old, t : t # AllBound => ComesTo(old, r, t, old)
  <2>1. CASE allBound = all
    BY <2>1, HearsOthers DEF NewAllBound, all
  <2>2. CASE allBound # all
    BY <2>2, OneTells DEF NewAllBound, all
  <2> QED BY <2>1, <2>2
<1>3. ComesTo(allBound, r, AllBound, all)
  <2>1. CASE allBound = all
    BY <2>1, HearsOthers DEF NewAllBound, all
  <2>2. CASE allBound # all
    BY <2>2, OneTells DEF NewAllBound, all
  <2> QED BY <2>1, <2>2
<1> HIDE DEF r
<1>4. ComesTo(view[AllBound], q \o r, AllBound, all)
  BY <1>1, <1>3, HearsBoth DEF Follows
<1>5. \A old : ComesTo(old, r, Target, old) /\ ComesTo(old, r, Busy, old)
               /\ \A c \in Cells : ComesTo(old, r, c, old)
  BY <1>2, TopicsDiffer
<1>6. \A c \in Cells : ComesTo(view[c], q \o r, c, src[c])
  BY <1>1, <1>5, HearsBoth DEF Follows
<1>7. ComesTo(view[Target], q \o r, Target, p)
  BY <1>1, <1>5, HearsBoth DEF Follows
<1>8. p = None => ComesTo(view[Busy], q \o r, Busy, FALSE)
  BY <1>1, <1>5, HearsBoth DEF Follows
<1>9. p # None => ComesTo(view[Busy], q \o r, Busy, TRUE)
  BY <1>1, <1>5, HearsBoth DEF Follows
<1> QED BY <1>4, <1>6, <1>7, <1>8, <1>9 DEF Follows, r, all

\* The signals of Start tell of every cell.
LEMMA FollowsStarted ==
  ASSUME NEW view, NEW q \in Seq(Signals), NEW src, NEW p, NEW all,
         NEW new \in [Cells -> Bindings \cup {None}], Follows(view, q, src, p, all)
  PROVE  Follows(view, q \o [n \in DOMAIN CellOrder |-> Signal(CellOrder[n], new[CellOrder[n]])],
                 new, p, all)
<1> DEFINE r == [n \in DOMAIN CellOrder |-> Signal(CellOrder[n], new[CellOrder[n]])]
<1>1. /\ DOMAIN CellOrder = 1..Len(CellOrder) /\ Len(CellOrder) \in Nat
      /\ \A n \in DOMAIN CellOrder : CellOrder[n] \in Cells
  BY BindingAssumption
<1>2. /\ DOMAIN r = DOMAIN CellOrder
      /\ \A n \in DOMAIN CellOrder : r[n] = Signal(CellOrder[n], new[CellOrder[n]])
  OBVIOUS
<1>3. r \in Seq(Signals) /\ Len(r) = Len(CellOrder)
  <2>1. \A n \in DOMAIN CellOrder : r[n] \in Signals
    BY <1>1, SignalFacts
  <2> QED BY <1>1, <2>1
<1> HIDE DEF r
<1>4. ASSUME NEW c \in Cells, NEW old PROVE ComesTo(old, r, c, new[c])
  <2>1. PICK n \in DOMAIN CellOrder : CellOrder[n] = c
    BY BindingAssumption
  <2>2. n \in DOMAIN r /\ r[n].topic = c /\ r[n].value = new[c]
    BY <1>2, <2>1 DEF Signal
  <2>3. ASSUME NEW j \in n+1 .. Len(r) PROVE r[j].topic # c
    <3>1. j \in DOMAIN CellOrder /\ j # n
      BY <1>1, <1>3
    <3>2. CellOrder[j] # c
      BY <2>1, <3>1, BindingAssumption
    <3> QED BY <1>2, <3>1, <3>2 DEF Signal
  <2> QED BY <2>2, <2>3 DEF ComesTo
<1>5. ASSUME NEW t \in {Target, Busy, AllBound}, NEW old PROVE ComesTo(old, r, t, old)
  <2>1. ASSUME NEW n \in DOMAIN r PROVE r[n].topic # t
    <3>1. CellOrder[n] # t
      BY <1>1, <1>2, TopicsDiffer
    <3> QED BY <1>2, <3>1 DEF Signal
  <2> QED BY <2>1, HearsOthers
<1>6. \A c \in Cells : ComesTo(view[c], q \o r, c, new[c])
  BY <1>3, <1>4, HearsBoth DEF Follows
<1>7. \A old : ComesTo(old, r, Target, old) /\ ComesTo(old, r, Busy, old)
               /\ ComesTo(old, r, AllBound, old)
  BY <1>5
<1>8. /\ ComesTo(view[Target], q \o r, Target, p)
      /\ ComesTo(view[AllBound], q \o r, AllBound, all)
  BY <1>3, <1>7, HearsBoth DEF Follows
<1>9. p = None => ComesTo(view[Busy], q \o r, Busy, FALSE)
  BY <1>3, <1>7, HearsBoth DEF Follows
<1>10. p # None => ComesTo(view[Busy], q \o r, Busy, TRUE)
  BY <1>3, <1>7, HearsBoth DEF Follows
<1> QED BY <1>6, <1>8, <1>9, <1>10 DEF Follows, r

\* Hearing a signal is to show more of what was to come.
LEMMA FollowsOnHearing ==
  ASSUME NEW view, ShownOK(view), NEW q \in Seq(Signals), q # <<>>,
         NEW src, NEW p, NEW all, Follows(view, q, src, p, all)
  PROVE  Follows([view EXCEPT ![Head(q).topic] = Head(q).value], Tail(q), src, p, all)
<1> DEFINE next == [view EXCEPT ![Head(q).topic] = Head(q).value]
<1>1. Head(q).topic \in Topics
  <2>1. Head(q) \in Signals
    OBVIOUS
  <2> QED BY <2>1 DEF Signals, Topics
<1>2. \A t \in Topics : next[t] = IF Head(q).topic = t THEN Head(q).value ELSE view[t]
  BY <1>1 DEF ShownOK
<1> HIDE DEF next
<1>3. \A t \in Topics : \A x : ComesTo(view[t], q, t, x) => ComesTo(next[t], Tail(q), t, x)
  BY <1>2, HearsHead
<1>4. Target \in Topics /\ Busy \in Topics /\ AllBound \in Topics
      /\ \A c \in Cells : c \in Topics
  BY DEF Topics
<1>5. \A c \in Cells : ComesTo(next[c], Tail(q), c, src[c])
  BY <1>3, <1>4 DEF Follows
<1>6. /\ ComesTo(next[Target], Tail(q), Target, p)
      /\ ComesTo(next[AllBound], Tail(q), AllBound, all)
  BY <1>3, <1>4 DEF Follows
<1>7. p = None => ComesTo(next[Busy], Tail(q), Busy, FALSE)
  BY <1>3, <1>4 DEF Follows
<1>8. p # None => ComesTo(next[Busy], Tail(q), Busy, TRUE)
  BY <1>3, <1>4 DEF Follows
<1> QED BY <1>5, <1>6, <1>7, <1>8 DEF Follows, next

LEMMA AllIsSaid ==
  DialogInv /\ saving = None /\ allBound \in BOOLEAN
    => WillShow(AllBound, started /\ AreAllBindingsConfigured(source))
<1> SUFFICES ASSUME DialogInv, saving = None, allBound \in BOOLEAN
             PROVE  WillShow(AllBound, started /\ AreAllBindingsConfigured(source))
  OBVIOUS
<1>1. allBound = (started /\ AreAllBindingsConfigured(source))
  BY DEF DialogInv, SaidOfAll
<1>2. WillShow(AllBound, allBound)
  BY DEF DialogInv, Follows, WillShow
<1> QED BY <1>1, <1>2

LEMMA InitDialog == Init => DialogInv
<1> SUFFICES ASSUME Init PROVE DialogInv
  OBVIOUS
<1>1. signals = <<>> /\ pending = None /\ allBound = FALSE /\ saving = None /\ started = FALSE
  BY DEF Init
<1>2. /\ \A c \in Cells : shown[c] = source[c]
      /\ shown[Target] = None /\ shown[Busy] = FALSE /\ shown[AllBound] = FALSE
  BY TopicsDiffer DEF Init
<1>3. \A t, v : ComesTo(v, <<>>, t, v)
  BY HearsOthers
<1>4. Follows(shown, signals, source, pending, allBound)
  BY <1>1, <1>2, <1>3 DEF Follows
<1> QED BY <1>1, <1>4 DEF DialogInv, SaidOfAll

\* Of a process that starts again the queues are empty and nothing is bound.
LEMMA CrashDialog == Crash => DialogInv'
<1> SUFFICES ASSUME Crash PROVE DialogInv'
  OBVIOUS
<1>1. signals' = <<>> /\ pending' = None /\ allBound' = FALSE /\ saving' = None
      /\ started' = FALSE
  BY DEF Crash, Booted
<1>2. /\ \A c \in Cells : shown'[c] = source'[c]
      /\ shown'[Target] = None /\ shown'[Busy] = FALSE /\ shown'[AllBound] = FALSE
  BY TopicsDiffer DEF Crash, Booted
<1>3. \A t, v : ComesTo(v, <<>>, t, v)
  BY HearsOthers
<1>4. Follows(shown', signals', source', pending', allBound')
  BY <1>1, <1>2, <1>3 DEF Follows
<1> QED BY <1>1, <1>4 DEF DialogInv, SaidOfAll

\* What the controller does keeps the dialog informed, and is said of all.
LEMMA RequestDialog == IInv /\ DialogInv /\ HandleRequest => DialogInv'
<1> SUFFICES ASSUME IInv, DialogInv, HandleRequest PROVE DialogInv'
  OBVIOUS
<1>1. signals \in Seq(Signals) /\ Follows(shown, signals, source, pending, allBound)
      /\ requests \in Seq(Requests) /\ requests # <<>>
  BY TypeParts DEF IInv, DialogInv, HandleRequest
<1>2. shown' = shown /\ started' = started
  BY DEF HandleRequest, guiVars
<1>3. ASSUME UNCHANGED <<source, allBound, saving>>,
             Follows(shown, signals', source, pending', allBound)
      PROVE  DialogInv'
  BY <1>2, <1>3 DEF DialogInv, SaidOfAll, AreAllBindingsConfigured
<1>4. ASSUME NEW c \in Cells, HandleCapture(c) PROVE DialogInv'
  <2>1. UNCHANGED <<source, allBound, saving>>
    BY <1>4 DEF HandleCapture, bindingVars
  <2>2. CASE UNCHANGED <<captureVars, signals, bindingVars>>
    BY <1>1, <1>3, <2>1, <2>2 DEF captureVars
  <2>3. CASE pending = None /\ pending' = c /\ signals' = signals \o CaptureStarts(c)
    BY <1>1, <1>3, <2>1, <2>3, FollowsStart
  <2>4. CASE /\ pending = None /\ UNCHANGED captureVars
             /\ signals' = signals \o CaptureStarts(c) \o CaptureEnds
    <3>1. /\ signals \o CaptureStarts(c) \in Seq(Signals)
          /\ Follows(shown, signals \o CaptureStarts(c), source, c, allBound)
      BY <1>1, FollowsStart, SignalFacts, SeqJoins
    <3>2. Follows(shown, signals', source, None, allBound)
      BY <2>4, <3>1, FollowsEnd
    <3> QED BY <1>3, <2>1, <2>4, <3>2 DEF captureVars
  <2> QED BY <1>4, <2>2, <2>3, <2>4 DEF HandleCapture
<1>5. ASSUME HandleCancel PROVE DialogInv'
  <2>1. UNCHANGED <<source, allBound, saving>>
    BY <1>5 DEF HandleCancel, EndCapture, bindingVars
  <2>2. CASE UNCHANGED <<captureVars, signals, bindingVars>>
    BY <1>1, <1>3, <2>1, <2>2 DEF captureVars
  <2>3. CASE EndCapture
    BY <1>1, <1>3, <2>1, <2>3, FollowsEnd DEF EndCapture
  <2> QED BY <1>5, <2>2, <2>3 DEF HandleCancel
<1>6. Head(requests).kind = "capture" => Head(requests).cell \in Cells
  <2>1. Head(requests) \in Requests
    BY <1>1
  <2> QED BY <2>1 DEF Requests
<1> QED BY <1>4, <1>5, <1>6 DEF HandleRequest

LEMMA BinderDialog == IInv /\ DialogInv /\ Binder => DialogInv'
<1> SUFFICES ASSUME IInv, DialogInv, Binder PROVE DialogInv'
  OBVIOUS
<1>1. signals \in Seq(Signals) /\ Follows(shown, signals, source, pending, allBound)
      /\ DOMAIN source = Cells
  BY DEF IInv, TypeOK, DialogInv
<1>2. ASSUME NEW d \in Devices, BinderCallsBack(d)
      PROVE  /\ pending = capturing[d] /\ pending \in Cells
             /\ shown' = shown /\ started' = started /\ started /\ saving = None
  BY <1>2 DEF BinderCallsBack, CaptureIsAwaited, TypeOK, IInv, guiVars
<1>3. ASSUME NEW d \in Devices, CaptureFails(d) PROVE DialogInv'
  <2>1. BinderCallsBack(d) /\ EndCapture
    BY <1>2, <1>3 DEF CaptureFails
  <2>2. Follows(shown', signals', source', pending', allBound')
    BY <1>1, <1>2, <2>1, FollowsEnd DEF EndCapture, bindingVars
  <2> QED BY <1>2, <2>1, <2>2
          DEF DialogInv, SaidOfAll, EndCapture, bindingVars, AreAllBindingsConfigured
<1>4. ASSUME NEW d \in Devices, NEW b \in Bindings, Captured(d, b) PROVE DialogInv'
  <2>1. BinderCallsBack(d) /\ Bind(pending, b)
    BY <1>2, <1>4 DEF Captured
  <2>2. Restored(b) \in Bindings \cup {None} /\ pending \in Cells
    BY <1>2, <2>1, RestoredFacts
  <2>3. /\ signals \o CaptureEnds \in Seq(Signals)
        /\ Follows(shown, signals \o CaptureEnds, source, None, allBound)
    BY <1>1, FollowsEnd, SignalFacts, SeqJoins
  <2>4. Follows(shown', signals', source', pending', allBound')
    BY <1>1, <1>2, <2>1, <2>2, <2>3, FollowsHint DEF Bind
  <2>5. saving' # None /\ started'
    BY <1>2, <2>1, <2>2, CellFacts, BindingAssumption DEF Bind
  <2> QED BY <2>4, <2>5 DEF DialogInv, SaidOfAll
<1> QED BY <1>3, <1>4 DEF Binder

LEMMA DialogInductive == IInv /\ DialogInv /\ [Next]_vars => DialogInv'
<1> SUFFICES ASSUME IInv, DialogInv, [Next]_vars PROVE DialogInv'
  OBVIOUS
<1>1. signals \in Seq(Signals) /\ Follows(shown, signals, source, pending, allBound)
      /\ ShownOK(shown)
  BY TypeParts DEF IInv, DialogInv
<1>2. ASSUME Operator PROVE DialogInv'
  <2>1. UNCHANGED <<shown, signals, source, pending, allBound, saving, started>>
    BY <1>2 DEF Operator, Tap, TapCancel, guiVars, bindingVars, captureVars
  <2> QED BY <2>1 DEF DialogInv, Follows, SaidOfAll, AreAllBindingsConfigured
<1>3. ASSUME HearSignal PROVE DialogInv'
  <2>1. /\ shown' = [shown EXCEPT ![Head(signals).topic] = Head(signals).value]
        /\ signals # <<>> /\ signals' = Tail(signals)
        /\ UNCHANGED <<source, pending, allBound, saving, started>>
    BY <1>3 DEF HearSignal, bindingVars, captureVars
  <2>2. Follows(shown', signals', source', pending', allBound')
    BY <1>1, <2>1, FollowsOnHearing
  <2> QED BY <2>1, <2>2 DEF DialogInv, SaidOfAll, AreAllBindingsConfigured
<1>4. ASSUME Start PROVE DialogInv'
  <2> DEFINE hints == [n \in DOMAIN CellOrder |-> Signal(CellOrder[n], source'[CellOrder[n]])]
  <2>1. source' \in [Cells -> Bindings \cup {None}]
    BY <1>4, StartStep DEF IInv, TypeOK
  <2>2. Follows(shown, signals \o hints, source', pending, allBound)
    BY <1>1, <2>1, FollowsStarted
  <2>3. hints \in Seq(Signals)
    <3>1. \A n \in DOMAIN CellOrder : hints[n] \in Signals
      BY <2>1, SignalFacts, BindingAssumption
    <3>2. DOMAIN CellOrder = 1..Len(CellOrder) /\ Len(CellOrder) \in Nat
      BY BindingAssumption
    <3> QED BY <3>1, <3>2
  <2>4. /\ signals' = signals \o hints \o NewAllBound(source')
        /\ allBound' = AreAllBindingsConfigured(source')
        /\ shown' = shown /\ pending' = pending /\ saving' = saving /\ saving = None /\ started'
    BY <1>4 DEF Start, guiVars, captureVars
  <2> HIDE DEF hints
  <2>5. signals \o hints \in Seq(Signals)
    BY <1>1, <2>3, SeqJoins
  <2>6. Follows(shown, signals', source', pending, allBound')
    BY <2>2, <2>4, <2>5, FollowsAll
  <2> QED BY <2>4, <2>6 DEF DialogInv, SaidOfAll, AreAllBindingsConfigured
<1>5. ASSUME Saved PROVE DialogInv'
  <2>1. /\ signals' = signals \o NewAllBound(source)
        /\ allBound' = AreAllBindingsConfigured(source)
        /\ UNCHANGED <<shown, source, pending, started>> /\ saving # None /\ saving' = None
    BY <1>5 DEF Saved, guiVars, captureVars
  <2>2. Follows(shown, signals', source, pending, allBound')
    BY <1>1, <2>1, FollowsAll
  <2> QED BY <2>1, <2>2 DEF DialogInv, SaidOfAll, AreAllBindingsConfigured
<1>6. CASE UNCHANGED vars
  BY <1>6 DEF vars, guiVars, bindingVars, captureVars, DialogInv, Follows, SaidOfAll,
              AreAllBindingsConfigured
<1> QED BY <1>2, <1>3, <1>4, <1>5, <1>6, RequestDialog, BinderDialog, CrashDialog DEF Next

-----------------------------------------------------------------------------
(* Cancels hit what they aim at.                                           *)

\* No signal of the start or the end of a capture waits.
Settled(q) == \A n \in DOMAIN q : q[n].topic \notin {Target, Busy}

\* A dialog that can cancel has heard what is captured, and no signal that
\* lets it cancel is ahead of one that says what.
TargetFirst(view, q) ==
  \A n \in DOMAIN q : q[n].topic = Target =>
    ~view[Busy] /\ \A m \in 1 .. n-1 : q[m].topic # Busy

\* After a tap that waited for the one before, its request is the last of all
\* that wait and nothing is captured before it is handled; then all cancels
\* are aimed at it, as those before it have been handled.
AimInv ==
  ~rushed =>
    /\ (\E n \in DOMAIN requests : requests[n].kind = "capture") =>
         pending = None /\ ~shown[Busy] /\ Settled(signals)
    /\ \A n \in DOMAIN requests : requests[n].kind = "capture" => n = Len(requests)
    /\ pending # None =>
         /\ \A n \in DOMAIN requests : requests[n].cell = pending
         /\ TargetFirst(shown, signals)

LEMMA SettledIsTargetFirst ==
  ASSUME NEW view, NEW q, Settled(q) PROVE TargetFirst(view, q)
BY DEF Settled, TargetFirst

\* To signal of a capture that starts, or of other things, is to signal what is
\* captured first.
LEMMA StartsTargetFirst ==
  ASSUME NEW view, NEW q \in Seq(Signals), NEW c \in Cells, Settled(q), ~view[Busy]
  PROVE  TargetFirst(view, q \o CaptureStarts(c))
<1> DEFINE r == q \o CaptureStarts(c)
<1>1. PICK w \in Seq(Signals) : w = CaptureStarts(c) /\ Len(w) = 2 /\ w[2].topic = Busy
  BY SignalFacts DEF CaptureStarts, Signal
<1>2. /\ Len(q) \in Nat /\ Len(q \o w) = Len(q) + 2
      /\ DOMAIN (q \o w) = 1 .. (Len(q) + 2) /\ DOMAIN q = 1..Len(q)
      /\ \A n \in 1..Len(q) : (q \o w)[n] = q[n]
      /\ (q \o w)[Len(q) + 2] = w[2]
  <2>1. /\ Len(q) \in Nat /\ Len(w) \in Nat /\ Len(q \o w) = Len(q) + Len(w)
        /\ DOMAIN (q \o w) = 1..Len(q \o w) /\ DOMAIN q = 1..Len(q)
        /\ \A n \in 1..Len(q) : (q \o w)[n] = q[n]
        /\ \A n \in 1..Len(w) : (q \o w)[Len(q) + n] = w[n]
    OBVIOUS
  <2>2. 2 \in 1..Len(w)
    BY <1>1
  <2> QED BY <1>1, <2>1, <2>2
<1> HIDE DEF r
<1>3. r = q \o w
  BY <1>1 DEF r
<1>4. SUFFICES ASSUME NEW n \in DOMAIN r, r[n].topic = Target, NEW m \in 1 .. n-1
               PROVE  r[m].topic # Busy
  BY DEF TargetFirst, r
<1>5. n # Len(q) + 2
  BY <1>1, <1>2, <1>3, <1>4, TopicsDiffer
<1>6. m \in 1..Len(q)
  BY <1>2, <1>3, <1>4, <1>5
<1> QED BY <1>2, <1>3, <1>6 DEF Settled

LEMMA OthersTargetFirst ==
  ASSUME NEW S, NEW q \in Seq(S), NEW r \in Seq(S), Settled(r)
  PROVE  /\ Settled(q) => Settled(q \o r)
         /\ \A view : TargetFirst(view, q) => TargetFirst(view, q \o r)
<1> DEFINE t == q \o r
<1>1. /\ Len(q) \in Nat /\ Len(r) \in Nat /\ Len(t) = Len(q) + Len(r)
      /\ DOMAIN q = 1..Len(q) /\ DOMAIN r = 1..Len(r) /\ DOMAIN t = 1..Len(t)
      /\ \A i \in 1..Len(q) : t[i] = q[i]
      /\ \A i \in 1..Len(r) : t[Len(q) + i] = r[i]
  OBVIOUS
<1> HIDE DEF t
<1>2. \A i \in DOMAIN t : i \notin DOMAIN q => t[i].topic \notin {Target, Busy}
  <2>1. ASSUME NEW i \in DOMAIN t, i \notin DOMAIN q
        PROVE  t[i].topic \notin {Target, Busy}
    <3>1. i - Len(q) \in 1..Len(r) /\ Len(q) + (i - Len(q)) = i
      BY <1>1, <2>1
    <3>2. t[i] = r[i - Len(q)]
      BY <1>1, <3>1
    <3> QED BY <1>1, <3>1, <3>2 DEF Settled
  <2> QED BY <2>1
<1>3. Settled(q) => Settled(t)
  BY <1>1, <1>2 DEF Settled
<1>4. ASSUME NEW view, TargetFirst(view, q), NEW n \in DOMAIN t, t[n].topic = Target
      PROVE  ~view[Busy] /\ \A m \in 1 .. n-1 : t[m].topic # Busy
  <2>1. n \in DOMAIN q
    BY <1>2, <1>4
  <2>2. ~view[Busy] /\ \A m \in 1 .. n-1 : q[m].topic # Busy
    BY <1>1, <1>4, <2>1 DEF TargetFirst
  <2>3. \A m \in 1 .. n-1 : t[m] = q[m]
    BY <1>1, <2>1
  <2> QED BY <2>2, <2>3
<1>5. \A view : TargetFirst(view, q) => TargetFirst(view, t)
  BY <1>4 DEF TargetFirst
<1> QED BY <1>3, <1>5 DEF t

LEMMA NewAllSettled == \A src : Settled(NewAllBound(src))
<1> SUFFICES ASSUME NEW src PROVE Settled(NewAllBound(src))
  OBVIOUS
<1>1. CASE allBound = AreAllBindingsConfigured(src)
  BY <1>1 DEF NewAllBound, Settled
<1>2. CASE allBound # AreAllBindingsConfigured(src)
  BY <1>2, TopicsDiffer DEF NewAllBound, Settled, Signal
<1> QED BY <1>1, <1>2

LEMMA HearingTargetFirst ==
  ASSUME NEW view, ShownOK(view), NEW q \in Seq(Signals), q # <<>>
  PROVE  LET next == [view EXCEPT ![Head(q).topic] = Head(q).value]
         IN /\ Settled(q) => Settled(Tail(q)) /\ next[Busy] = view[Busy]
            /\ TargetFirst(view, q) => TargetFirst(next, Tail(q))
<1> DEFINE next == [view EXCEPT ![Head(q).topic] = Head(q).value]
           r == Tail(q)
<1>1. /\ Len(q) = Len(r) + 1 /\ Len(r) \in Nat
      /\ DOMAIN r = 1..Len(r) /\ DOMAIN q = 1..Len(q)
      /\ Head(q) = q[1] /\ 1 \in DOMAIN q
      /\ \A i \in DOMAIN r : r[i] = q[i + 1] /\ i + 1 \in DOMAIN q
  OBVIOUS
<1>2. Head(q).topic # Busy => next[Busy] = view[Busy]
  BY DEF ShownOK, Topics
<1> HIDE DEF next, r
<1>3. Settled(q) => Settled(r) /\ next[Busy] = view[Busy]
  BY <1>1, <1>2 DEF Settled
<1>4. ASSUME TargetFirst(view, q), NEW n \in DOMAIN r, r[n].topic = Target
      PROVE  ~next[Busy] /\ \A m \in 1 .. n-1 : r[m].topic # Busy
  <2>1. n + 1 \in DOMAIN q /\ q[n + 1].topic = Target
    BY <1>1, <1>4
  <2>2. ~view[Busy] /\ \A m \in 1 .. (n+1)-1 : q[m].topic # Busy
    BY <1>4, <2>1 DEF TargetFirst
  <2>3. 1 \in 1 .. (n+1)-1
    BY <1>1
  <2>4. ~next[Busy]
    BY <1>1, <1>2, <2>2, <2>3
  <2>5. ASSUME NEW m \in 1 .. n-1 PROVE r[m].topic # Busy
    <3>1. m \in DOMAIN r /\ m + 1 \in 1 .. (n+1)-1
      BY <1>1
    <3> QED BY <1>1, <2>2, <3>1
  <2> QED BY <2>4, <2>5
<1>5. TargetFirst(view, q) => TargetFirst(next, r)
  BY <1>4 DEF TargetFirst
<1> QED BY <1>3, <1>5 DEF next, r

LEMMA InitAim == Init => AimInv
BY DEF Init, AimInv

\* Taps and cancels.
LEMMA OperatorAim == IInv /\ DialogInv /\ AimInv /\ Operator => AimInv'
<1> SUFFICES ASSUME IInv, DialogInv, AimInv, Operator, ~rushed' PROVE AimInv'
  BY DEF AimInv
<1>1. requests \in Seq(Requests)
  BY TypeParts DEF IInv
<1>2. UNCHANGED <<shown, pending, signals>>
  BY DEF Operator, Tap, TapCancel, guiVars, captureVars
<1>3. ASSUME NEW c \in Cells, Tap(c) PROVE AimInv'
  <2>1. /\ ~Unsettled /\ ~shown[Busy]
        /\ requests' = Append(requests, [kind |-> "capture", cell |-> c])
    BY <1>3 DEF Tap
  <2>2. /\ \A n \in DOMAIN requests : requests[n].kind # "capture"
        /\ pending = None /\ Settled(signals)
    BY <2>1 DEF Unsettled, Settled
  <2>3. \A n \in DOMAIN requests' :
          n = Len(requests') \/ (n \in DOMAIN requests /\ requests'[n] = requests[n])
    BY <1>1, <2>1
  <2> QED BY <1>2, <2>1, <2>2, <2>3 DEF AimInv, Settled
<1>4. CASE TapCancel
  <2>1. /\ requests' = Append(requests, [kind |-> "cancel", cell |-> shown[Target]])
        /\ shown[Busy] /\ ~rushed
    BY <1>4 DEF TapCancel, guiVars
  <2>2. \A n \in DOMAIN requests : requests[n].kind # "capture"
    BY <2>1 DEF AimInv
  <2>3. /\ \A n \in DOMAIN requests' :
             \/ requests'[n] = [kind |-> "cancel", cell |-> shown[Target]]
             \/ n \in DOMAIN requests /\ requests'[n] = requests[n]
    BY <1>1, <2>1
  <2>4. \A n \in DOMAIN requests' : requests'[n].kind # "capture"
    BY <2>2, <2>3
  <2>5. pending # None => shown[Target] = pending /\ TargetFirst(shown, signals)
    <3>1. SUFFICES ASSUME pending # None
                   PROVE  shown[Target] = pending /\ TargetFirst(shown, signals)
      OBVIOUS
    <3>2. TargetFirst(shown, signals)
      BY <2>1, <3>1 DEF AimInv
    <3>3. \A n \in DOMAIN signals : signals[n].topic # Target
      BY <2>1, <3>2 DEF TargetFirst
    <3>4. ComesTo(shown[Target], signals, Target, pending)
      BY DEF DialogInv, Follows
    <3> QED BY <3>2, <3>3, <3>4 DEF ComesTo
  <2>6. pending # None => \A n \in DOMAIN requests' : requests'[n].cell = pending
    <3>1. SUFFICES ASSUME pending # None, NEW n \in DOMAIN requests'
                   PROVE  requests'[n].cell = pending
      OBVIOUS
    <3>2. CASE requests'[n] = [kind |-> "cancel", cell |-> shown[Target]]
      BY <2>5, <3>1, <3>2
    <3>3. CASE n \in DOMAIN requests /\ requests'[n] = requests[n]
      BY <2>1, <3>1, <3>3 DEF AimInv
    <3> QED BY <2>3, <3>2, <3>3
  <2> QED BY <1>2, <2>4, <2>5, <2>6 DEF AimInv, TargetFirst
<1> QED BY <1>3, <1>4 DEF Operator

\* A tap that was not rushed is handled last, cancels go before or without.
LEMMA RequestAim == IInv /\ AimInv /\ HandleRequest => AimInv'
<1> SUFFICES ASSUME IInv, AimInv, HandleRequest, ~rushed PROVE AimInv'
  BY DEF AimInv, HandleRequest, guiVars
<1>1. requests \in Seq(Requests) /\ requests # <<>> /\ requests' = Tail(requests)
      /\ signals \in Seq(Signals) /\ shown' = shown
  BY TypeParts DEF IInv, HandleRequest, guiVars
<1>2. /\ Len(requests') \in Nat /\ Len(requests) = Len(requests') + 1
      /\ DOMAIN requests = 1..Len(requests) /\ DOMAIN requests' = 1..Len(requests')
      /\ Head(requests) = requests[1] /\ 1 \in DOMAIN requests
      /\ \A n \in DOMAIN requests' : requests'[n] = requests[n + 1] /\ n + 1 \in DOMAIN requests
  BY <1>1
<1>3. CASE Head(requests).kind = "capture" /\ HandleCapture(Head(requests).cell)
  <2> DEFINE c == Head(requests).cell
  <2>1. /\ pending = None /\ ~shown[Busy] /\ Settled(signals)
        /\ 1 = Len(requests) /\ DOMAIN requests' = {}
    <3>1. \E n \in DOMAIN requests : requests[n].kind = "capture"
      BY <1>2, <1>3
    <3>2. 1 = Len(requests)
      BY <1>2, <1>3 DEF AimInv
    <3> QED BY <1>2, <3>1, <3>2 DEF AimInv
  <2>2. c \in Cells
    <3>1. Head(requests) \in Requests
      BY <1>1
    <3> QED BY <1>3, <3>1 DEF Requests
  <2>3. pending' # None => signals' = signals \o CaptureStarts(c)
    BY <1>3, <2>1 DEF HandleCapture, captureVars
  <2>4. TargetFirst(shown, signals \o CaptureStarts(c))
    BY <1>1, <2>1, <2>2, StartsTargetFirst
  <2> HIDE DEF c
  <2> QED BY <1>1, <2>1, <2>3, <2>4 DEF AimInv
<1>4. CASE HandleCancel
  <2>1. CASE pending = None /\ UNCHANGED <<captureVars, signals, bindingVars>>
    <3>1. pending' = None /\ signals' = signals
      BY <2>1 DEF captureVars
    <3>2. (\E n \in DOMAIN requests' : requests'[n].kind = "capture") =>
            ~shown'[Busy] /\ Settled(signals')
      BY <1>1, <1>2, <3>1 DEF AimInv
    <3>3. ASSUME NEW n \in DOMAIN requests', requests'[n].kind = "capture"
          PROVE  n = Len(requests')
      <4>1. n + 1 = Len(requests)
        BY <1>2, <3>3 DEF AimInv
      <4> QED BY <1>2, <4>1
    <3> QED BY <3>1, <3>2, <3>3 DEF AimInv
  <2>2. CASE pending # None /\ EndCapture
    <3>1. \A n \in DOMAIN requests : requests[n].kind # "capture"
      BY <2>2 DEF AimInv
    <3>2. \A n \in DOMAIN requests' : requests'[n].kind # "capture"
      BY <1>2, <3>1
    <3> QED BY <2>2, <3>2 DEF AimInv, EndCapture
  <2> QED BY <1>4, <2>1, <2>2 DEF HandleCancel
<1> QED BY <1>3, <1>4 DEF HandleRequest

\* Signals of other things than captures.
LEMMA QuietAim ==
  ASSUME IInv, AimInv, NEW r \in Seq(Signals), Settled(r), signals' = signals \o r,
         UNCHANGED <<shown, rushed, requests, pending>>
  PROVE  AimInv'
<1>1. signals \in Seq(Signals)
  BY TypeParts DEF IInv
<1>2. /\ Settled(signals) => Settled(signals')
      /\ TargetFirst(shown, signals) => TargetFirst(shown', signals')
  BY <1>1, OthersTargetFirst
<1> QED BY <1>2 DEF AimInv

LEMMA AimInductive == IInv /\ DialogInv /\ AimInv /\ [Next]_vars => AimInv'
<1> SUFFICES ASSUME IInv, DialogInv, AimInv, [Next]_vars PROVE AimInv'
  OBVIOUS
<1>1. signals \in Seq(Signals) /\ ShownOK(shown)
  BY TypeParts DEF IInv
<1>2. ASSUME HearSignal PROVE AimInv'
  <2>1. /\ shown' = [shown EXCEPT ![Head(signals).topic] = Head(signals).value]
        /\ signals # <<>> /\ signals' = Tail(signals)
        /\ UNCHANGED <<rushed, requests, pending>>
    BY <1>2 DEF HearSignal, captureVars
  <2>2. /\ Settled(signals) => Settled(signals') /\ shown'[Busy] = shown[Busy]
        /\ TargetFirst(shown, signals) => TargetFirst(shown', signals')
    BY <1>1, <2>1, HearingTargetFirst
  <2> QED BY <2>1, <2>2 DEF AimInv
<1>3. ASSUME Start PROVE AimInv'
  <2> DEFINE hints == [n \in DOMAIN CellOrder |-> Signal(CellOrder[n], source'[CellOrder[n]])]
  <2>1. source' \in [Cells -> Bindings \cup {None}]
    BY <1>3, StartStep DEF IInv, TypeOK
  <2>2. /\ DOMAIN CellOrder = 1..Len(CellOrder) /\ Len(CellOrder) \in Nat
        /\ \A n \in DOMAIN CellOrder : CellOrder[n] \in Cells
    BY BindingAssumption
  <2>3. hints \in Seq(Signals)
    <3>1. \A n \in DOMAIN CellOrder : hints[n] \in Signals
      BY <2>1, <2>2, SignalFacts
    <3> QED BY <2>2, <3>1
  <2>4. Settled(hints)
    BY <2>2, TopicsDiffer DEF Settled, Signal
  <2>5. signals' = (signals \o hints) \o NewAllBound(source')
        /\ UNCHANGED <<shown, rushed, requests, pending>>
    BY <1>3 DEF Start, guiVars, captureVars
  <2> HIDE DEF hints
  <2>6. NewAllBound(source') \in Seq(Signals) /\ Settled(NewAllBound(source'))
    BY SignalFacts, NewAllSettled
  <2>7. /\ signals \o hints \in Seq(Signals)
        /\ Settled(signals) => Settled(signals \o hints)
        /\ TargetFirst(shown, signals) => TargetFirst(shown, signals \o hints)
    BY <1>1, <2>3, <2>4, OthersTargetFirst, SeqJoins
  <2>8. /\ Settled(signals) => Settled(signals')
        /\ TargetFirst(shown, signals) => TargetFirst(shown', signals')
    BY <2>5, <2>6, <2>7, OthersTargetFirst
  <2> QED BY <2>5, <2>8 DEF AimInv
<1>4. ASSUME Binder PROVE AimInv'
  <2>1. pending # None /\ pending' = None /\ UNCHANGED <<rushed, requests>>
    BY <1>4 DEF Binder, CaptureFails, Captured, BinderCallsBack, EndCapture, Bind,
                IInv, CaptureIsAwaited, guiVars
  <2> QED BY <2>1 DEF AimInv
<1>5. ASSUME Saved PROVE AimInv'
  <2>1. NewAllBound(source) \in Seq(Signals) /\ Settled(NewAllBound(source))
    BY SignalFacts, NewAllSettled
  <2> QED BY <1>5, <2>1, QuietAim DEF Saved, guiVars, captureVars
<1>6. ASSUME Crash PROVE AimInv'
  BY <1>6 DEF Crash, Booted, AimInv
<1>7. CASE UNCHANGED vars
  BY <1>7 DEF vars, guiVars, captureVars, AimInv, Settled, TargetFirst
<1> QED BY <1>2, <1>3, <1>4, <1>5, <1>6, <1>7, OperatorAim, RequestAim DEF Next

-----------------------------------------------------------------------------

\* The state of the dialog, of the controller and of the queues between them
\* is always of its type.
THEOREM BindingTypeCorrect == Spec => []TypeOK
<1>1. IInv => TypeOK
  BY DEF IInv
<1> QED BY <1>1, InitIInv, Inductive, PTL DEF Spec

\* Whatever the operator taps and however the binders answer, the controller
\* waits for the one capture that is under way.
THEOREM CaptureStaysAwaited == Spec => []CaptureIsAwaited
<1>1. IInv => CaptureIsAwaited
  BY DEF IInv
<1> QED BY <1>1, InitIInv, Inductive, PTL DEF Spec

\* A crash at any point costs at most the bindings of the device whose file
\* was being written.
THEOREM CrashStaysCheap == Spec => CrashCostsOneDevice
<1>1. IInv /\ Crash => \A c \in Cells :
        DeviceOf(c) # saving => Restored(stored'[c]) = Restored(stored[c])
  BY DEF IInv, FilesFollow, Crash, Booted, Restored
<1>2. IInv => [Crash => \A c \in Cells :
        DeviceOf(c) # saving => Restored(stored'[c]) = Restored(stored[c])]_vars
  BY <1>1
<1> QED BY <1>2, InitIInv, Inductive, PTL DEF Spec, CrashCostsOneDevice

\* However taps, captures and cancels cross, the signals that wait bring the
\* dialog to what the controller works with.
THEOREM DialogCatchesUp == Spec => []DialogFollows
<1>1. IInv /\ DialogInv => DialogFollows
  <2> SUFFICES ASSUME DialogInv, allBound \in BOOLEAN PROVE DialogFollows
    BY DEF IInv, TypeOK
  <2>1. CASE pending = None
    <3>1. (pending # None) = FALSE
      BY <2>1
    <3>2. WillShow(Busy, pending # None)
      BY <2>1, <3>1 DEF DialogInv, Follows, WillShow
    <3> QED BY <3>2, AllIsSaid DEF DialogInv, Follows, DialogFollows, WillShow
  <2>2. CASE pending # None
    <3>1. (pending # None) = TRUE
      BY <2>2
    <3>2. WillShow(Busy, pending # None)
      BY <2>2, <3>1 DEF DialogInv, Follows, WillShow
    <3> QED BY <3>2, AllIsSaid DEF DialogInv, Follows, DialogFollows, WillShow
  <2> QED BY <2>1, <2>2
<1> QED BY <1>1, InitIInv, Inductive, InitDialog, DialogInductive, PTL DEF Spec

\* A cancel ends no capture but the one the operator saw on asking, unless
\* cells were tapped in a rush.
THEOREM CancelsHitTheirAim == Spec => CancelHitsItsAim
<1> DEFINE Hit == requests # <<>> /\ Head(requests).kind = "cancel" /\ HandleRequest
                    /\ pending # None /\ ~rushed
                  => Head(requests).cell = pending
<1>1. IInv /\ AimInv => [Hit]_vars
  <2> SUFFICES ASSUME IInv, AimInv, requests # <<>>, pending # None, ~rushed
               PROVE  Head(requests).cell = pending
    OBVIOUS
  <2>1. requests \in Seq(Requests)
    BY TypeParts DEF IInv
  <2>2. 1 \in DOMAIN requests /\ Head(requests) = requests[1]
    BY <2>1
  <2> QED BY <2>2 DEF AimInv
<1> QED BY <1>1, InitIInv, Inductive, InitDialog, DialogInductive, InitAim, AimInductive, PTL
        DEF Spec, CancelHitsItsAim
=============================================================================
