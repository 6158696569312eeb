-------------------------- MODULE InputValuesProofs --------------------------
(***************************************************************************)
(* Theorems about Keyboard and AxisMultiplexor as InputValues composes     *)
(* them, for any keys, events that wait and readings of the stick: the     *)
(* station comes to hold the keys that are held, and the control reads the *)
(* device that was moved last.                                             *)
(***************************************************************************)
EXTENDS InputValues, TLAPS

\* The keyboard's part of the inductive invariant: a tick that takes events
\* finds those of the tick before applied.
KeysInv ==
  /\ KeyboardTypeOK
  /\ round \in {"over", "ticking"}
  /\ round = "over" => batch = <<>>
  /\ KeysFollow

Readable == Stick \cup {-1, 0, 1}

\* The types of the axis and of what it reads.
AxisTypes ==
  /\ axisKeys \in AxisBindings \cup {None}
  /\ stick \in Stick
  /\ mover \in Axes \cup {NoSource}
  /\ \E gamepad \in BOOLEAN : sources = SourcesOf(axisKeys, gamepad)
  /\ lastValues \in [DOMAIN sources -> Readable]
  /\ authority \in {1, 2}
  /\ value \in Readable

\* The source in charge is the one that was last seen to move.
ChargeInv ==
  /\ sources # <<>> => authority \in DOMAIN sources
  /\ mover # NoSource => authority \in DOMAIN sources /\ sources[authority] = mover

\* Between rounds the axis has just looked at its sources.
LookedInv ==
  round = "over" =>
    /\ \A i \in DOMAIN sources : lastValues[i] = Read[sources[i]]
    /\ sources # <<>> => value = lastValues[authority]

AxisInv == AxisTypes /\ ChargeInv /\ LookedInv

IInv == KeysInv /\ AxisInv

-----------------------------------------------------------------------------
(* Events that are applied one by one.                                     *)

LEMMA DownAfterNone ==
  ASSUME NEW k, NEW was PROVE DownAfter(<<>>, k, ~FALSE /\ was) <=> was
BY DEF DownAfter

\* One more event decides for its key.
LEMMA DownAfterMore ==
  ASSUME NEW q \in Seq(Events), NEW e \in Events, NEW k, NEW was
  PROVE  /\ e.key = k => (DownAfter(Append(q, e), k, was) <=> e.pressed)
         /\ e.key # k => (DownAfter(Append(q, e), k, was) <=> DownAfter(q, k, was))
<1> DEFINE r == Append(q, e)
<1>1. /\ Len(r) = Len(q) + 1 /\ Len(q) \in Nat
      /\ DOMAIN r = 1..Len(r) /\ DOMAIN q = 1..Len(q)
      /\ r[Len(r)] = e
      /\ \A i \in DOMAIN q : r[i] = q[i]
  OBVIOUS
<1>2. e = Event(k, TRUE) <=> e.key = k /\ e.pressed
  BY DEF Events, Event
<1>3. \A x : Event(k, TRUE).key = k
  BY DEF Event
<1> HIDE DEF r
<1>4. ASSUME e.key = k PROVE DownAfter(r, k, was) <=> e.pressed
  <2>1. ASSUME e.pressed PROVE DownAfter(r, k, was)
    <3>1. Len(r) \in DOMAIN r /\ r[Len(r)] = Event(k, TRUE)
      BY <1>1, <1>2, <1>4, <2>1
    <3>2. \A j \in Len(r)+1 .. Len(r) : r[j].key # k
      BY <1>1
    <3> QED BY <3>1, <3>2 DEF DownAfter
  <2>2. ASSUME DownAfter(r, k, was) PROVE e.pressed
    <3>1. Len(r) \in DOMAIN r /\ r[Len(r)].key = k
      BY <1>1, <1>4
    <3>2. PICK i \in DOMAIN r : r[i] = Event(k, TRUE) /\ \A j \in i+1 .. Len(r) : r[j].key # k
      BY <2>2, <3>1 DEF DownAfter
    <3>3. Len(r) \notin i+1 .. Len(r)
      BY <3>1, <3>2
    <3>4. i = Len(r)
      BY <1>1, <3>3
    <3> QED BY <1>1, <1>2, <3>2, <3>4
  <2> QED BY <2>1, <2>2
<1>5. ASSUME e.key # k PROVE DownAfter(r, k, was) <=> DownAfter(q, k, was)
  <2>1. (\A i \in DOMAIN r : r[i].key # k) <=> (\A i \in DOMAIN q : q[i].key # k)
    <3>1. ASSUME \A i \in DOMAIN q : q[i].key # k, NEW i \in DOMAIN r PROVE r[i].key # k
      <4>1. i = Len(r) \/ i \in DOMAIN q
        BY <1>1
      <4> QED BY <1>1, <1>5, <3>1, <4>1
    <3>2. \A i \in DOMAIN q : i \in DOMAIN r
      BY <1>1
    <3> QED BY <1>1, <3>1, <3>2
  <2>2. ASSUME NEW i \in DOMAIN q
        PROVE  (\A j \in i+1 .. Len(r) : r[j].key # k) <=> (\A j \in i+1 .. Len(q) : q[j].key # k)
    <3>1. ASSUME \A j \in i+1 .. Len(q) : q[j].key # k, NEW j \in i+1 .. Len(r)
          PROVE  r[j].key # k
      <4>1. j = Len(r) \/ (j \in i+1 .. Len(q) /\ j \in DOMAIN q)
        BY <1>1
      <4> QED BY <1>1, <1>5, <3>1, <4>1
    <3>2. \A j \in i+1 .. Len(q) : j \in i+1 .. Len(r) /\ j \in DOMAIN q
      BY <1>1
    <3> QED BY <1>1, <3>1, <3>2
  <2>3. ASSUME NEW i \in DOMAIN r, r[i] = Event(k, TRUE) PROVE i \in DOMAIN q
    <3>1. i # Len(r)
      BY <1>1, <1>2, <1>5, <2>3
    <3> QED BY <1>1, <3>1
  <2>4. \A i \in DOMAIN q : i \in DOMAIN r /\ r[i] = q[i]
    BY <1>1
  <2> QED BY <2>1, <2>2, <2>3, <2>4 DEF DownAfter
<1> QED BY <1>4, <1>5 DEF r

\* The first event decides for its key if no other does.
LEMMA DownAfterHead ==
  ASSUME NEW q \in Seq(Events), q # <<>>, NEW k, NEW was
  PROVE  /\ Head(q).key = k =>
              (DownAfter(q, k, was) <=> DownAfter(Tail(q), k, Head(q).pressed))
         /\ Head(q).key # k =>
              (DownAfter(q, k, was) <=> DownAfter(Tail(q), k, was))
<1> DEFINE r == Tail(q)
           e == Head(q)
<1>1. /\ Len(q) = Len(r) + 1 /\ Len(r) \in Nat
      /\ DOMAIN r = 1..Len(r) /\ DOMAIN q = 1..Len(q)
      /\ e = q[1] /\ 1 \in DOMAIN q /\ e \in Events
      /\ \A i \in DOMAIN r : r[i] = q[i + 1] /\ i + 1 \in DOMAIN q
  OBVIOUS
<1>2. e = Event(k, TRUE) <=> e.key = k /\ e.pressed
  BY <1>1 DEF Events, Event
<1> HIDE DEF r, e
<1>3. \A i \in DOMAIN q : i = 1 \/ (i - 1 \in DOMAIN r /\ (i - 1) + 1 = i /\ q[i] = r[i - 1])
  <2>1. ASSUME NEW i \in DOMAIN q, i # 1
        PROVE  i - 1 \in DOMAIN r /\ (i - 1) + 1 = i /\ q[i] = r[i - 1]
    <3>1. i - 1 \in DOMAIN r /\ (i - 1) + 1 = i
      BY <1>1, <2>1
    <3> QED BY <1>1, <3>1
  <2> QED BY <2>1
\* The last event about k is that of the rest, or the first with none after.
<1>4. ASSUME NEW i \in DOMAIN r
      PROVE  (\A j \in (i+1)+1 .. Len(q) : q[j].key # k) <=> (\A j \in i+1 .. Len(r) : r[j].key # k)
  <2>1. ASSUME \A j \in (i+1)+1 .. Len(q) : q[j].key # k, NEW j \in i+1 .. Len(r)
        PROVE  r[j].key # k
    <3>1. j + 1 \in (i+1)+1 .. Len(q) /\ j \in DOMAIN r
      BY <1>1
    <3> QED BY <1>1, <2>1, <3>1
  <2>2. ASSUME \A j \in i+1 .. Len(r) : r[j].key # k, NEW j \in (i+1)+1 .. Len(q)
        PROVE  q[j].key # k
    <3>1. j - 1 \in i+1 .. Len(r) /\ j \in DOMAIN q /\ j # 1
      BY <1>1
    <3> QED BY <1>3, <2>2, <3>1
  <2> QED BY <2>1, <2>2
<1>5. (\A j \in 1+1 .. Len(q) : q[j].key # k) <=> (\A i \in DOMAIN r : r[i].key # k)
  <2>1. ASSUME \A j \in 1+1 .. Len(q) : q[j].key # k, NEW i \in DOMAIN r PROVE r[i].key # k
    <3>1. i + 1 \in 1+1 .. Len(q)
      BY <1>1
    <3> QED BY <1>1, <2>1, <3>1
  <2>2. ASSUME \A i \in DOMAIN r : r[i].key # k, NEW j \in 1+1 .. Len(q) PROVE q[j].key # k
    <3>1. j \in DOMAIN q /\ j # 1
      BY <1>1
    <3> QED BY <1>3, <2>2, <3>1
  <2> QED BY <2>1, <2>2
<1> DEFINE Down(s) == \E i \in DOMAIN s : s[i] = Event(k, TRUE)
                                            /\ \A j \in i+1 .. Len(s) : s[j].key # k
           Silent(s) == \A i \in DOMAIN s : s[i].key # k
<1>6. Down(q) <=> Down(r) \/ (e = Event(k, TRUE) /\ Silent(r))
  <2>1. ASSUME Down(q) PROVE Down(r) \/ (e = Event(k, TRUE) /\ Silent(r))
    <3>1. PICK i \in DOMAIN q : q[i] = Event(k, TRUE) /\ \A j \in i+1 .. Len(q) : q[j].key # k
      BY <2>1
    <3>2. CASE i = 1
      BY <1>1, <1>5, <3>1, <3>2
    <3>3. CASE i # 1
      <4>1. i - 1 \in DOMAIN r /\ (i - 1) + 1 = i /\ r[i - 1] = Event(k, TRUE)
        BY <1>3, <3>1, <3>3
      <4>2. \A j \in (i - 1)+1 .. Len(r) : r[j].key # k
        BY <1>4, <3>1, <4>1
      <4> QED BY <4>1, <4>2
    <3> QED BY <3>2, <3>3
  <2>2. ASSUME Down(r) PROVE Down(q)
    <3>1. PICK i \in DOMAIN r : r[i] = Event(k, TRUE) /\ \A j \in i+1 .. Len(r) : r[j].key # k
      BY <2>2
    <3>2. i + 1 \in DOMAIN q /\ q[i + 1] = Event(k, TRUE)
      BY <1>1, <3>1
    <3>3. \A j \in (i+1)+1 .. Len(q) : q[j].key # k
      BY <1>4, <3>1
    <3> QED BY <3>2, <3>3
  <2>3. ASSUME e = Event(k, TRUE), Silent(r) PROVE Down(q)
    BY <1>1, <1>5, <2>3
  <2> QED BY <2>1, <2>2, <2>3
<1>7. Silent(q) <=> e.key # k /\ Silent(r)
  <2>1. ASSUME Silent(q) PROVE e.key # k /\ Silent(r)
    <3>1. \A i \in DOMAIN r : r[i].key # k
      BY <1>1, <2>1
    <3> QED BY <1>1, <2>1, <3>1
  <2>2. ASSUME e.key # k, Silent(r), NEW i \in DOMAIN q PROVE q[i].key # k
    <3>1. CASE i = 1
      BY <1>1, <2>2, <3>1
    <3>2. CASE i # 1
      BY <1>3, <2>2, <3>2
    <3> QED BY <3>1, <3>2
  <2> QED BY <2>1, <2>2
<1>8. \A s, w : DownAfter(s, k, w) <=> Down(s) \/ (w /\ Silent(s))
  BY DEF DownAfter
<1> HIDE DEF Down, Silent
<1>9. ASSUME e.key = k PROVE DownAfter(q, k, was) <=> DownAfter(r, k, e.pressed)
  <2>1. DownAfter(q, k, was) <=> Down(r) \/ (e.pressed /\ Silent(r))
    BY <1>2, <1>6, <1>7, <1>8, <1>9
  <2>2. DownAfter(r, k, e.pressed) <=> Down(r) \/ (e.pressed /\ Silent(r))
    BY <1>8, Zenon
  <2> QED BY <2>1, <2>2
<1>10. ASSUME e.key # k PROVE DownAfter(q, k, was) <=> DownAfter(r, k, was)
  <2>1. DownAfter(q, k, was) <=> Down(q) \/ (was /\ Silent(q))
    BY <1>8, Zenon
  <2>2. DownAfter(r, k, was) <=> Down(r) \/ (was /\ Silent(r))
    BY <1>8, Zenon
  <2>3. (Down(q) <=> Down(r)) /\ (Silent(q) <=> Silent(r))
    BY <1>2, <1>6, <1>7, <1>10
  <2> QED BY <2>1, <2>2, <2>3
<1> QED BY <1>9, <1>10 DEF r, e

LEMMA DownAfterSame ==
  ASSUME NEW q, NEW k, NEW v, NEW w, v <=> w
  PROVE  DownAfter(q, k, v) <=> DownAfter(q, k, w)
BY DEF DownAfter

-----------------------------------------------------------------------------
(* The keyboard.                                                           *)

\* What waits may leave a key down when it takes it up again, or down.
LEMMA FollowIs ==
  KeysFollow <=>
    \A k \in Keys : /\ k \in observed => Will(k)
                    /\ Will(k) => k \in observed \/ k \in raced
<1>1. \A k : Will(k) \in BOOLEAN
  BY DEF Will, DownAfter
<1> QED BY <1>1 DEF KeysFollow

LEMMA FollowNextIs ==
  KeysFollow' <=>
    \A k \in Keys : /\ k \in observed' => Will(k)'
                    /\ Will(k)' => k \in observed' \/ k \in raced'
<1>1. \A k : Will(k)' \in BOOLEAN
  BY DEF Will, DownAfter
<1> QED BY <1>1 DEF KeysFollow

\* A key event decides for its key and for no other.
LEMMA EnqueueWill ==
  ASSUME KeyboardTypeOK, NEW k \in Keys, NEW pressed \in BOOLEAN, Enqueue(k, pressed),
         UNCHANGED <<batch, keyStates>>
  PROVE  /\ pendingEvents' \in Seq(Events) /\ Len(pendingEvents') <= MaxPending
         /\ Will(k)' <=> pressed
         /\ \A x \in Keys : x # k => (Will(x)' <=> Will(x))
<1> DEFINE e == Event(k, pressed)
           rest(x) == ~releaseAll /\ DownAfter(batch, x, x \in keyStates)
<1>1. /\ e \in Events /\ e.key = k /\ e.pressed = pressed
      /\ pendingEvents' = Append(pendingEvents, e) /\ pendingEvents \in Seq(Events)
      /\ Len(pendingEvents) < MaxPending /\ MaxPending \in Nat
  BY KeyboardAssumption DEF Enqueue, Event, Events, KeyboardTypeOK
<1>2. pendingEvents' \in Seq(Events) /\ Len(pendingEvents') <= MaxPending
  <2> HIDE DEF e
  <2> QED BY <1>1
<1>3. \A x : /\ rest(x) \in BOOLEAN
             /\ Will(x) = DownAfter(pendingEvents, x, rest(x))
             /\ Will(x)' = DownAfter(pendingEvents', x, rest(x))
  BY DEF Will, Enqueue, DownAfter
<1> HIDE DEF e, rest
<1>4. Will(k)' <=> pressed
  BY <1>1, <1>3, DownAfterMore
<1>5. ASSUME NEW x \in Keys, x # k PROVE Will(x)' <=> Will(x)
  BY <1>1, <1>3, <1>5, DownAfterMore
<1> QED BY <1>2, <1>4, <1>5

LEMMA GuiKeys ==
  ASSUME KeysInv, KeyboardGui, round' = round
  PROVE  KeysInv'
<1>1. KeyboardTypeOK
  BY DEF KeysInv
<1>2. ASSUME NEW k \in Keys, KeyPress(k) PROVE KeysInv'
  <2>1. /\ Enqueue(k, TRUE) /\ UNCHANGED tickVars /\ raced' = raced \ {k}
        /\ observed' = observed \cup {k} /\ releaseAll' = releaseAll
    BY <1>2 DEF KeyPress, Enqueue
  <2>2. /\ pendingEvents' \in Seq(Events) /\ Len(pendingEvents') <= MaxPending
        /\ Will(k)' /\ \A x \in Keys : x # k => (Will(x)' <=> Will(x))
    BY <1>1, <2>1, EnqueueWill DEF tickVars
  <2>3. KeysFollow'
    BY <2>1, <2>2, FollowIs, FollowNextIs DEF KeysInv
  <2>4. KeyboardTypeOK'
    BY <1>1, <2>1, <2>2 DEF KeyboardTypeOK, tickVars
  <2> QED BY <2>1, <2>3, <2>4 DEF KeysInv, tickVars
<1>3. ASSUME NEW k \in Keys, KeyRelease(k) PROVE KeysInv'
  <2>1. /\ Enqueue(k, FALSE) /\ UNCHANGED tickVars /\ raced' = raced
        /\ observed' = observed \ {k} /\ releaseAll' = releaseAll
    BY <1>3 DEF KeyRelease, Enqueue
  <2>2. /\ pendingEvents' \in Seq(Events) /\ Len(pendingEvents') <= MaxPending
        /\ ~Will(k)' /\ \A x \in Keys : x # k => (Will(x)' <=> Will(x))
    BY <1>1, <2>1, EnqueueWill DEF tickVars
  <2>3. KeysFollow'
    BY <2>1, <2>2, FollowIs, FollowNextIs DEF KeysInv
  <2>4. KeyboardTypeOK'
    BY <1>1, <2>1, <2>2 DEF KeyboardTypeOK, tickVars
  <2> QED BY <2>1, <2>3, <2>4 DEF KeysInv, tickVars
<1>4. ASSUME Deactivate PROVE KeysInv'
  <2>1. /\ observed' = {} /\ releaseAll' = TRUE /\ pendingEvents' = pendingEvents
        /\ raced' = raced \cup {k \in Keys : PressWaits(k)} /\ UNCHANGED tickVars
    BY <1>4 DEF Deactivate
  <2>2. ASSUME NEW k \in Keys, Will(k)' PROVE k \in raced'
    <3>1. DownAfter(pendingEvents, k, FALSE)
      BY <2>1, <2>2 DEF Will, DownAfter
    <3>2. PressWaits(k)
      BY <3>1 DEF DownAfter, PressWaits
    <3> QED BY <2>1, <3>2
  <2>3. KeysFollow'
    BY <2>1, <2>2, FollowNextIs
  <2>4. KeyboardTypeOK'
    BY <1>1, <2>1 DEF KeyboardTypeOK, tickVars
  <2> QED BY <2>1, <2>3, <2>4 DEF KeysInv, tickVars
<1> QED BY <1>2, <1>3, <1>4 DEF KeyboardGui

\* The exchange moves what waits into the tick, and the release of all keys
\* into their states.
LEMMA TakesKeys ==
  ASSUME KeysInv, batch = <<>>, TickTakes
  PROVE  KeyboardTypeOK' /\ KeysFollow'
<1>1. /\ batch' = pendingEvents /\ pendingEvents' = <<>> /\ releaseAll' = FALSE
      /\ keyStates' = IF releaseAll THEN {} ELSE keyStates
      /\ UNCHANGED <<observed, capture, raced>>
  BY DEF TickTakes
<1>2. KeyboardTypeOK'
  <2>1. Len(<<>>) <= MaxPending /\ <<>> \in Seq(Events)
    BY KeyboardAssumption
  <2> QED BY <1>1, <2>1 DEF KeysInv, KeyboardTypeOK
<1>3. ASSUME NEW k \in Keys PROVE Will(k)' <=> Will(k)
  <2> DEFINE was == ~releaseAll /\ DownAfter(batch, k, k \in keyStates)
  <2>1. was <=> k \in keyStates'
    <3>1. DownAfter(batch, k, k \in keyStates) <=> k \in keyStates
      BY DEF DownAfter
    <3> QED BY <1>1, <3>1
  <2>2. Will(k) <=> DownAfter(pendingEvents, k, was)
    BY DEF Will
  <2> DEFINE now == DownAfter(pendingEvents, k, k \in keyStates')
  <2>3. Will(k)' <=> DownAfter(<<>>, k, ~FALSE /\ now)
    BY <1>1 DEF Will
  <2>5. Will(k)' <=> now
    <3> HIDE DEF now
    <3>1. DownAfter(<<>>, k, ~FALSE /\ now) <=> now
      BY DownAfterNone, Zenon
    <3> QED BY <2>3, <3>1, Zenon
  <2> HIDE DEF was
  <2> QED BY <2>1, <2>2, <2>5, DownAfterSame
<1>4. KeysFollow'
  BY <1>1, <1>3, FollowIs, FollowNextIs DEF KeysInv
<1> QED BY <1>2, <1>4

\* To apply an event changes nothing of what will be.
LEMMA AppliesKeys ==
  ASSUME KeysInv, NEW e \in Events, TickApplies(e)
  PROVE  KeyboardTypeOK' /\ KeysFollow'
<1>1. /\ batch \in Seq(Events) /\ batch # <<>> /\ e = Head(batch) /\ batch' = Tail(batch)
      /\ keyStates' = IF e.pressed THEN keyStates \cup {e.key} ELSE keyStates \ {e.key}
      /\ capture' = CaptureAfter(e)
      /\ UNCHANGED <<observed, pendingEvents, releaseAll, raced>>
  BY DEF TickApplies, sharedVars, KeysInv, KeyboardTypeOK
<1>2. e.key \in Keys /\ e.pressed \in BOOLEAN
  BY DEF Events
<1>3. capture' \in [kind : {"none", "key", "axis"}, positive : Keys \cup {None}]
  BY <1>1, <1>2 DEF CaptureAfter, NoCapture, KeysInv, KeyboardTypeOK
<1>4. KeyboardTypeOK'
  <2>1. batch' \in Seq(Events) /\ keyStates' \subseteq Keys
    BY <1>1, <1>2 DEF KeysInv, KeyboardTypeOK
  <2> QED BY <1>1, <1>3, <2>1 DEF KeysInv, KeyboardTypeOK
<1>5. ASSUME NEW k \in Keys PROVE Will(k)' <=> Will(k)
  <2>1. DownAfter(batch, k, k \in keyStates) <=> DownAfter(batch', k, k \in keyStates')
    <3>1. CASE e.key = k
      <4>1. k \in keyStates' <=> e.pressed
        BY <1>1, <1>2, <3>1
      <4>2. DownAfter(batch, k, k \in keyStates) <=> DownAfter(batch', k, e.pressed)
        BY <1>1, <3>1, DownAfterHead
      <4> QED BY <4>1, <4>2, DownAfterSame
    <3>2. CASE e.key # k
      <4>1. k \in keyStates' <=> k \in keyStates
        BY <1>1, <3>2
      <4>2. DownAfter(batch, k, k \in keyStates) <=> DownAfter(batch', k, k \in keyStates)
        BY <1>1, <3>2, DownAfterHead
      <4> QED BY <4>1, <4>2, DownAfterSame
    <3> QED BY <3>1, <3>2
  <2> DEFINE was == ~releaseAll /\ DownAfter(batch, k, k \in keyStates)
             now == ~releaseAll /\ DownAfter(batch', k, k \in keyStates')
  <2>2. Will(k) <=> DownAfter(pendingEvents, k, was)
    BY DEF Will
  <2>3. Will(k)' <=> DownAfter(pendingEvents, k, now)
    BY <1>1 DEF Will
  <2>4. was <=> now
    BY <2>1
  <2> HIDE DEF was, now
  <2> QED BY <2>2, <2>3, <2>4, DownAfterSame
<1>6. KeysFollow'
  BY <1>1, <1>5, FollowIs, FollowNextIs DEF KeysInv
<1> QED BY <1>4, <1>6

LEMMA KeysInductive == KeysInv /\ [Next]_vars => KeysInv'
<1> SUFFICES ASSUME KeysInv, [Next]_vars PROVE KeysInv'
  OBVIOUS
<1>1. ASSUME Gui PROVE KeysInv'
  BY <1>1, GuiKeys DEF Gui
<1>2. ASSUME GamepadThenKeyboard PROVE KeysInv'
  <2>1. batch = <<>> /\ TickTakes /\ round' = "ticking"
    BY <1>2 DEF GamepadThenKeyboard, KeysInv
  <2> QED BY <2>1, TakesKeys DEF KeysInv
<1>3. ASSUME KeyboardApplies PROVE KeysInv'
  <2>1. PICK e \in Events : TickApplies(e)
    BY <1>3 DEF KeyboardApplies
  <2>2. round = "ticking" /\ round' = round
    BY <1>3 DEF KeyboardApplies
  <2> QED BY <2>1, <2>2, AppliesKeys DEF KeysInv
<1>4. ASSUME UNCHANGED <<sharedVars, batch, keyStates, raced>>,
             capture' \in [kind : {"none", "key", "axis"}, positive : Keys \cup {None}],
             round' \in {"over", "ticking"}, round' = "over" => batch = <<>>
      PROVE  KeysInv'
  <2>1. \A k \in Keys : Will(k)' <=> Will(k)
    BY <1>4 DEF sharedVars, Will
  <2>2. KeysFollow'
    BY <1>4, <2>1, FollowIs, FollowNextIs DEF KeysInv, sharedVars
  <2>3. KeyboardTypeOK'
    BY <1>4 DEF KeysInv, KeyboardTypeOK, sharedVars
  <2> QED BY <1>4, <2>2, <2>3 DEF KeysInv
<1>5. ASSUME InputTick PROVE KeysInv'
  BY <1>4, <1>5 DEF InputTick, keyboardVars, tickVars, KeysInv, KeyboardTypeOK
<1>6. ASSUME NEW kind \in {"key", "axis"}, Capture(kind) PROVE KeysInv'
  BY <1>4, <1>6 DEF Capture, StartCapture, KeysInv
<1>7. ASSUME CancelCapture PROVE KeysInv'
  BY <1>4, <1>7 DEF CancelCapture, StopCapture, NoCapture, KeysInv
<1>8. CASE UNCHANGED vars
  BY <1>4, <1>8 DEF vars, keyboardVars, tickVars, KeysInv, KeyboardTypeOK
<1> QED BY <1>1, <1>2, <1>3, <1>5, <1>6, <1>7, <1>8 DEF Next, Round

-----------------------------------------------------------------------------
(* What the axis is made of.                                               *)

\* The sources are those of the devices that are bound.
LEMMA SourcesFacts ==
  ASSUME NEW keys, NEW gamepad \in BOOLEAN
  PROVE  LET bound == SourcesOf(keys, gamepad)
         IN /\ bound \in Seq(Axes)
            /\ DOMAIN bound \subseteq {1, 2}
            /\ bound # <<>> => 1 \in DOMAIN bound
            /\ (\E i \in DOMAIN bound : bound[i] = KeyboardAxis) <=> keys # None
            /\ (\E i \in DOMAIN bound : bound[i] = GamepadAxis) <=> gamepad
<1>1. KeyboardAxis \in Axes /\ GamepadAxis \in Axes /\ KeyboardAxis # GamepadAxis
  BY InputValuesAssumption DEF Axes
<1> DEFINE K == IF keys = None THEN <<>> ELSE <<KeyboardAxis>>
           G == IF gamepad THEN <<GamepadAxis>> ELSE <<>>
<1>2. /\ K \in Seq(Axes) /\ (keys = None => Len(K) = 0)
      /\ keys # None => Len(K) = 1 /\ K[1] = KeyboardAxis
  BY <1>1
<1>3. /\ G \in Seq(Axes) /\ (~gamepad => Len(G) = 0)
      /\ gamepad => Len(G) = 1 /\ G[1] = GamepadAxis
  BY <1>1
<1>4. SourcesOf(keys, gamepad) = K \o G
  BY DEF SourcesOf
<1> HIDE DEF K, G
<1>5. PICK bound : bound = K \o G
  OBVIOUS
<1>6. /\ bound \in Seq(Axes) /\ DOMAIN bound = 1..(Len(K) + Len(G))
      /\ \A i \in 1..(Len(K) + Len(G)) :
           bound[i] = IF i <= Len(K) THEN K[i] ELSE G[i - Len(K)]
  BY <1>2, <1>3, <1>5
<1>7. DOMAIN bound \subseteq {1, 2} /\ (bound # <<>> => 1 \in DOMAIN bound)
  BY <1>2, <1>3, <1>6
<1>8. ASSUME NEW i \in DOMAIN bound
      PROVE  \/ i = 1 /\ keys # None /\ bound[i] = KeyboardAxis
             \/ i = Len(K) + 1 /\ gamepad /\ bound[i] = GamepadAxis
  BY <1>2, <1>3, <1>6
<1>9. keys # None => 1 \in DOMAIN bound /\ bound[1] = KeyboardAxis
  <2> SUFFICES ASSUME keys # None PROVE 1 \in DOMAIN bound /\ bound[1] = KeyboardAxis
    OBVIOUS
  <2>1. Len(K) = 1 /\ K[1] = KeyboardAxis /\ Len(G) \in Nat
    BY <1>2, <1>3
  <2>2. 1 \in 1..(Len(K) + Len(G)) /\ 1 <= Len(K)
    BY <2>1
  <2> QED BY <1>6, <2>1, <2>2
<1>10. gamepad => Len(K) + 1 \in DOMAIN bound /\ bound[Len(K) + 1] = GamepadAxis
  BY <1>2, <1>3, <1>6
<1>11. (\E i \in DOMAIN bound : bound[i] = KeyboardAxis) <=> keys # None
  BY <1>1, <1>8, <1>9
<1>12. (\E i \in DOMAIN bound : bound[i] = GamepadAxis) <=> gamepad
  BY <1>1, <1>8, <1>10
<1> QED BY <1>4, <1>5, <1>6, <1>7, <1>11, <1>12

\* Authority stays with the source that kept it, or goes to the first.
LEMMA AuthorityFacts ==
  ASSUME NEW new, NEW kept
  PROVE  \/ /\ AuthorityIn(new, kept) \in DOMAIN new
            /\ new[AuthorityIn(new, kept)] = kept
         \/ /\ AuthorityIn(new, kept) = 1
            /\ \A i \in DOMAIN new : new[i] # kept
<1> DEFINE places == {i \in DOMAIN new : new[i] = kept}
<1>1. AuthorityIn(new, kept) = IF places = {} THEN 1 ELSE CHOOSE i \in places : TRUE
  BY DEF AuthorityIn
<1>2. places # {} => (CHOOSE i \in places : TRUE) \in places
  BY Zenon
<1> QED BY <1>1, <1>2

LEMMA ReadingsType ==
  ASSUME NEW keys, NEW pressed, NEW position \in Stick
  PROVE  Readings(keys, pressed, position) \in [Axes -> Readable]
<1>1. Neutral \in Readable /\ 1 \in Readable /\ -1 \in Readable /\ position \in Readable
  BY InputValuesAssumption DEF Readable
<1>2. KeysRead(keys, pressed) \in Readable
  BY <1>1 DEF KeysRead
<1> QED BY <1>1, <1>2 DEF Readings

\* Of the sources that move, the last is one of them.
LEMMA LastMover ==
  ASSUME NEW read, DOMAIN sources \subseteq {1, 2}, Movers(read) # {}
  PROVE  Max(Movers(read)) \in Movers(read)
<1>1. Movers(read) \subseteq {1, 2}
  BY DEF Movers
<1>2. \E x \in Movers(read) : \A y \in Movers(read) : x >= y
  <2>1. CASE 2 \in Movers(read)
    BY <1>1, <2>1
  <2>2. CASE 2 \notin Movers(read)
    <3>1. Movers(read) = {1}
      BY <1>1, <2>2
    <3> QED BY <3>1
  <2> QED BY <2>1, <2>2
<1> QED BY <1>2, Zenon DEF Max

-----------------------------------------------------------------------------
(* The axis.                                                               *)

\* A source is replaced.  The source in charge keeps its charge, unless it is
\* the one replaced, and then none is known to have moved last.
LEMMA RebindKeepsCharge ==
  ASSUME AxisInv, NEW s \in Axes, NEW position \in Stick, stick' = position,
         axisKeys' \in AxisBindings \cup {None}, NEW gamepad \in BOOLEAN,
         NEW pressed,
         s = KeyboardAxis => gamepad = Contains(sources, GamepadAxis),
         s = GamepadAxis => axisKeys' = axisKeys,
         Rebind(s, SourcesOf(axisKeys', gamepad), Readings(axisKeys', pressed, position))
  PROVE  AxisTypes' /\ ChargeInv'
<1> DEFINE new == SourcesOf(axisKeys', gamepad)
           read == Readings(axisKeys', pressed, position)
<1>1. PICK kept \in FoundInCharge(s) : SetSources(new, read, kept)
  BY DEF Rebind
<1>2. /\ new \in Seq(Axes) /\ DOMAIN new \subseteq {1, 2} /\ (new # <<>> => 1 \in DOMAIN new)
      /\ (\E i \in DOMAIN new : new[i] = KeyboardAxis) <=> axisKeys' # None
      /\ (\E i \in DOMAIN new : new[i] = GamepadAxis) <=> gamepad
  BY SourcesFacts
<1>3. PICK was \in BOOLEAN : sources = SourcesOf(axisKeys, was)
  BY DEF AxisInv, AxisTypes
<1>4. /\ sources \in Seq(Axes)
      /\ (\E i \in DOMAIN sources : sources[i] = KeyboardAxis) <=> axisKeys # None
      /\ (\E i \in DOMAIN sources : sources[i] = GamepadAxis) <=> was
  BY <1>3, SourcesFacts
<1>5. s = KeyboardAxis => (gamepad <=> was)
  <2>1. Contains(sources, GamepadAxis) <=> \E i \in DOMAIN sources : sources[i] = GamepadAxis
    BY <1>4 DEF Contains
  <2> QED BY <1>4, <2>1
\* The source of the other device is where it was or has moved up.
<1>6. ASSUME NEW i \in DOMAIN sources, sources[i] # s
      PROVE  \E j \in DOMAIN new : new[j] = sources[i]
  <2>1. sources[i] \in Axes
    BY <1>4
  <2>2. CASE s = KeyboardAxis
    BY <1>2, <1>4, <1>5, <1>6, <2>1, <2>2 DEF Axes
  <2>3. CASE s = GamepadAxis
    BY <1>2, <1>4, <1>6, <2>1, <2>3 DEF Axes
  <2> QED BY <2>2, <2>3 DEF Axes
<1>7. read \in [Axes -> Readable]
  BY ReadingsType
<1>8. Neutral \in Readable
  BY InputValuesAssumption DEF Readable
<1>9. /\ sources' = new /\ lastValues' = [i \in DOMAIN new |-> read[new[i]]]
      /\ authority' = AuthorityIn(new, kept)
      /\ value' = IF new = <<>> THEN Neutral ELSE lastValues'[authority']
  BY <1>1 DEF SetSources
<1>10. mover' = mover \/ mover' = NoSource
  BY DEF Rebind
<1>11. mover' # NoSource => mover # s
  BY DEF Rebind
<1>sources. \E g \in BOOLEAN : sources' = SourcesOf(axisKeys', g)
  BY <1>9
<1> HIDE DEF new, read
<1>12. authority' \in {1, 2} /\ (new # <<>> => authority' \in DOMAIN new)
  BY <1>2, <1>9, AuthorityFacts
<1>13. lastValues' \in [DOMAIN new -> Readable]
  BY <1>2, <1>7, <1>9
<1>14. value' \in Readable
  BY <1>8, <1>9, <1>12, <1>13
<1>15. ASSUME mover' # NoSource PROVE authority' \in DOMAIN new /\ new[authority'] = mover'
  <2>1. mover' = mover /\ mover # NoSource /\ mover # s
    BY <1>10, <1>11, <1>15
  <2>2. authority \in DOMAIN sources /\ sources[authority] = mover
    BY <2>1 DEF AxisInv, ChargeInv
  <2>3. kept = mover
    BY <2>1, <2>2 DEF FoundInCharge, InCharge
  <2>4. \E j \in DOMAIN new : new[j] = kept
    BY <1>6, <2>1, <2>2, <2>3
  <2> QED BY <1>9, <2>1, <2>3, <2>4, AuthorityFacts
<1>16. AxisTypes'
  BY <1>9, <1>10, <1>12, <1>13, <1>14, <1>sources DEF AxisInv, AxisTypes
<1>17. ChargeInv'
  BY <1>9, <1>12, <1>15 DEF ChargeInv
<1> QED BY <1>16, <1>17

\* Nothing happens to the axis.
LEMMA AxisLeftAlone ==
  ASSUME AxisInv, UNCHANGED <<muxVars, axisKeys, mover>>, stick' \in Stick
  PROVE  /\ AxisTypes' /\ ChargeInv'
         /\ UNCHANGED <<keyStates, stick, round>> => LookedInv'
<1>1. UNCHANGED <<sources, lastValues, authority, value, axisKeys, mover>>
  BY DEF muxVars
<1>2. AxisTypes'
  BY <1>1 DEF AxisInv, AxisTypes
<1>3. ChargeInv'
  BY <1>1 DEF AxisInv, ChargeInv
<1>4. UNCHANGED <<keyStates, stick, round>> => LookedInv'
  <2>1. UNCHANGED <<keyStates, stick>> => Read' = Read
    BY <1>1 DEF Read
  <2> QED BY <1>1, <2>1 DEF AxisInv, LookedInv
<1> QED BY <1>2, <1>3, <1>4

LEMMA GamepadKeepsAxis == AxisInv /\ GamepadThenKeyboard => AxisInv'
<1> SUFFICES ASSUME AxisInv, GamepadThenKeyboard PROVE AxisInv'
  OBVIOUS
<1>1. GamepadTick /\ axisKeys' = axisKeys /\ round' = "ticking" /\ stick' \in Stick
  BY DEF GamepadThenKeyboard, GamepadTick
<1>2. LookedInv'
  BY <1>1 DEF LookedInv
<1>3. CASE UNCHANGED <<muxVars, mover>>
  BY <1>1, <1>2, <1>3, AxisLeftAlone DEF AxisInv
<1>4. ASSUME NEW bound \in BOOLEAN,
             Rebind(GamepadAxis, SourcesOf(axisKeys, bound), Readings(axisKeys, keyStates, stick'))
      PROVE  AxisInv'
  <2>1. GamepadAxis \in Axes /\ GamepadAxis # KeyboardAxis
    BY InputValuesAssumption DEF Axes
  <2>2. axisKeys' \in AxisBindings \cup {None}
    BY <1>1 DEF AxisInv, AxisTypes
  <2>3. Rebind(GamepadAxis, SourcesOf(axisKeys', bound), Readings(axisKeys', keyStates, stick'))
    BY <1>1, <1>4
  <2>4. AxisTypes' /\ ChargeInv'
    BY <1>1, <2>1, <2>2, <2>3, RebindKeepsCharge
  <2> QED BY <1>2, <2>4 DEF AxisInv
<1> QED BY <1>1, <1>3, <1>4 DEF GamepadTick

LEMMA KeyboardKeepsAxis == KeysInv /\ AxisInv /\ KeyboardApplies => AxisInv'
<1> SUFFICES ASSUME KeysInv, AxisInv, KeyboardApplies PROVE AxisInv'
  OBVIOUS
<1>1. round' = "ticking" /\ stick' = stick /\ stick \in Stick
  BY DEF KeyboardApplies, AxisInv, AxisTypes
<1>2. LookedInv'
  BY <1>1 DEF LookedInv
<1>3. PICK e \in Events :
        \/ UNCHANGED <<muxVars, axisKeys, mover>>
        \/ /\ BindsAxis(e)
           /\ axisKeys' = <<capture.positive, e.key>>
           /\ Rebind(KeyboardAxis, SourcesOf(axisKeys', Contains(sources, GamepadAxis)),
                     Readings(axisKeys', keyStates', stick))
  BY DEF KeyboardApplies
<1>4. CASE UNCHANGED <<muxVars, axisKeys, mover>>
  BY <1>1, <1>2, <1>4, AxisLeftAlone DEF AxisInv
<1>5. ASSUME BindsAxis(e), axisKeys' = <<capture.positive, e.key>>,
             Rebind(KeyboardAxis, SourcesOf(axisKeys', Contains(sources, GamepadAxis)),
                    Readings(axisKeys', keyStates', stick))
      PROVE  AxisInv'
  <2>1. axisKeys' \in AxisBindings \cup {None}
    <3>1. e.key \in Keys /\ capture.positive \in Keys /\ capture.positive # e.key
      BY <1>5 DEF BindsAxis, Events, KeysInv, KeyboardTypeOK
    <3> QED BY <1>5, <3>1 DEF AxisBindings
  <2>2. KeyboardAxis \in Axes /\ KeyboardAxis # GamepadAxis
    BY InputValuesAssumption DEF Axes
  <2>3. Contains(sources, GamepadAxis) \in BOOLEAN
    BY DEF Contains
  <2>4. AxisTypes' /\ ChargeInv'
    BY <1>1, <1>5, <2>1, <2>2, <2>3, RebindKeepsCharge
  <2> QED BY <1>2, <2>4 DEF AxisInv
<1> QED BY <1>3, <1>4, <1>5

LEMMA InputKeepsAxis == AxisInv /\ InputTick => AxisInv'
<1> SUFFICES ASSUME AxisInv, InputTick PROVE AxisInv'
  OBVIOUS
<1> DEFINE read == Read
<1>1. /\ UNCHANGED <<sources, stick, axisKeys, keyStates>>
      /\ lastValues' = [i \in DOMAIN sources |-> read[sources[i]]]
      /\ authority' = IF Movers(read) = {} THEN authority ELSE Max(Movers(read))
      /\ value' = IF sources = <<>> THEN Neutral ELSE lastValues'[authority']
      /\ mover' = IF Movers(read) = {} THEN mover ELSE sources[Max(Movers(read))]
  BY DEF InputTick, MuxTick, keyboardVars, tickVars
<1>2. Read' = read
  BY <1>1 DEF Read
<1>3. read \in [Axes -> Readable]
  BY ReadingsType DEF Read, AxisInv, AxisTypes
<1>4. PICK gamepad \in BOOLEAN : sources = SourcesOf(axisKeys, gamepad)
  BY DEF AxisInv, AxisTypes
<1>5. sources \in Seq(Axes) /\ DOMAIN sources \subseteq {1, 2}
  BY <1>4, SourcesFacts
<1> HIDE DEF read
<1>6. lastValues' \in [DOMAIN sources -> Readable]
  BY <1>1, <1>3, <1>5
<1>7. /\ sources # <<>> => authority' \in DOMAIN sources
      /\ authority' \in {1, 2}
      /\ mover' \in Axes \cup {NoSource}
      /\ mover' # NoSource => authority' \in DOMAIN sources /\ sources[authority'] = mover'
  <2>1. CASE Movers(read) = {}
    BY <1>1, <2>1 DEF AxisInv, AxisTypes, ChargeInv
  <2>2. CASE Movers(read) # {}
    <3>1. Max(Movers(read)) \in DOMAIN sources
      BY <1>5, <2>2, LastMover DEF Movers
    <3> QED BY <1>1, <1>5, <2>2, <3>1
  <2> QED BY <2>1, <2>2
<1>8. value' \in Readable
  <2>1. Neutral \in Readable
    BY InputValuesAssumption DEF Readable
  <2> QED BY <1>1, <1>6, <1>7, <2>1
<1>9. AxisTypes'
  BY <1>1, <1>4, <1>6, <1>7, <1>8 DEF AxisInv, AxisTypes
<1>10. ChargeInv'
  BY <1>1, <1>7 DEF ChargeInv
<1>11. LookedInv'
  BY <1>1, <1>2 DEF LookedInv
<1> QED BY <1>9, <1>10, <1>11 DEF AxisInv

LEMMA AxisInductive == KeysInv /\ AxisInv /\ [Next]_vars => AxisInv'
<1> SUFFICES ASSUME KeysInv, AxisInv, [Next]_vars PROVE AxisInv'
  OBVIOUS
<1>1. ASSUME UNCHANGED <<muxVars, round, stick, axisKeys, mover, keyStates>> PROVE AxisInv'
  <2>1. stick' \in Stick
    BY <1>1 DEF AxisInv, AxisTypes
  <2> QED BY <1>1, <2>1, AxisLeftAlone DEF AxisInv
<1>2. ASSUME Gui PROVE AxisInv'
  <2>1. keyStates' = keyStates
    BY <1>2 DEF Gui, KeyboardGui, KeyPress, KeyRelease, Deactivate, tickVars
  <2> QED BY <1>1, <1>2, <2>1 DEF Gui
<1>3. ASSUME NEW kind \in {"key", "axis"}, Capture(kind) PROVE AxisInv'
  BY <1>1, <1>3 DEF Capture, StartCapture
<1>4. ASSUME CancelCapture PROVE AxisInv'
  BY <1>1, <1>4 DEF CancelCapture, StopCapture
<1>5. CASE UNCHANGED vars
  BY <1>1, <1>5 DEF vars, keyboardVars, tickVars
<1> QED BY <1>2, <1>3, <1>4, <1>5, GamepadKeepsAxis, KeyboardKeepsAxis, InputKeepsAxis
        DEF Next, Round

-----------------------------------------------------------------------------
(* The theorems.                                                           *)

LEMMA InitKeys == Init => KeysInv
<1> SUFFICES ASSUME Init PROVE KeysInv
  OBVIOUS
<1>1. /\ observed = {} /\ pendingEvents = <<>> /\ releaseAll = FALSE /\ batch = <<>>
      /\ keyStates = {} /\ capture = NoCapture /\ raced = {} /\ round = "over"
  BY DEF Init, KeyboardInit
<1>2. KeyboardTypeOK
  <2>1. <<>> \in Seq(Events) /\ Len(<<>>) <= MaxPending
    BY KeyboardAssumption
  <2>2. NoCapture \in [kind : {"none", "key", "axis"}, positive : Keys \cup {None}]
    BY DEF NoCapture
  <2> QED BY <1>1, <2>1, <2>2 DEF KeyboardTypeOK
<1>3. ASSUME NEW k \in Keys PROVE ~Will(k)
  BY <1>1 DEF Will, DownAfter
<1> QED BY <1>1, <1>2, <1>3, FollowIs DEF KeysInv

LEMMA InitAxis == Init => AxisInv
<1> SUFFICES ASSUME Init PROVE AxisInv
  OBVIOUS
<1>1. PICK gamepad \in BOOLEAN : sources = SourcesOf(axisKeys, gamepad)
  BY DEF Init
<1>2. /\ sources \in Seq(Axes) /\ DOMAIN sources \subseteq {1, 2}
      /\ sources # <<>> => 1 \in DOMAIN sources
  BY <1>1, SourcesFacts
<1>3. Neutral \in Readable /\ Neutral \in Stick
  BY InputValuesAssumption DEF Readable
<1>4. AxisTypes
  BY <1>1, <1>3 DEF Init, AxisTypes
<1>5. ChargeInv
  BY <1>2 DEF Init, ChargeInv
<1>6. LookedInv
  <2>1. Read[KeyboardAxis] = Neutral /\ Read[GamepadAxis] = Neutral
    BY DEF Init, KeyboardInit, Read, Readings, KeysRead, Axes
  <2>2. \A i \in DOMAIN sources : sources[i] \in {KeyboardAxis, GamepadAxis}
    BY <1>2 DEF Axes
  <2> QED BY <1>2, <2>1, <2>2 DEF Init, LookedInv
<1> QED BY <1>4, <1>5, <1>6 DEF AxisInv

\* The inductive invariant holds in every run.
THEOREM Invariance == Spec => []IInv
<1>1. Init => IInv
  BY InitKeys, InitAxis DEF IInv
<1>2. IInv /\ [Next]_vars => IInv'
  BY KeysInductive, AxisInductive DEF IInv
<1> QED BY <1>1, <1>2, PTL DEF Spec

\* Every variable keeps to its type: the axis has the sources of the devices
\* it is bound for and reads what one of them may read.
THEOREM TypeCorrect == Spec => []TypeOK
<1>1. IInv => TypeOK
  <2> SUFFICES ASSUME IInv PROVE TypeOK
    OBVIOUS
  <2>1. PICK gamepad \in BOOLEAN : sources = SourcesOf(axisKeys, gamepad)
    BY DEF IInv, AxisInv, AxisTypes
  <2>2. Len(lastValues) = Len(sources)
    <3>1. sources \in Seq(Axes)
      BY <2>1, SourcesFacts
    <3>2. DOMAIN lastValues = DOMAIN sources /\ DOMAIN sources = 1..Len(sources)
      BY <3>1 DEF IInv, AxisInv, AxisTypes
    <3> QED BY <3>1, <3>2
  <2>3. sources \in {SourcesOf(keys, g) : keys \in AxisBindings \cup {None}, g \in BOOLEAN}
    BY <2>1 DEF IInv, AxisInv, AxisTypes
  <2> QED BY <2>2, <2>3 DEF IInv, AxisInv, AxisTypes, KeysInv, Readable, TypeOK
<1> QED BY <1>1, Invariance, PTL

\* The station comes to hold down the very keys that are held, whatever the
\* order of events, ticks, deactivations and captures (KeysFollow: the queue
\* of QtKeyboard::System, its exchange and the release of all keys).
THEOREM KeysAreFollowed == Spec => []KeysFollow
<1>1. IInv => KeysFollow
  BY DEF IInv, KeysInv
<1> QED BY <1>1, Invariance, PTL

\* After each round the control reads the device that was moved last, whatever
\* was rebound meanwhile (MoverIsFollowed: AxisMultiplexor's authority).
THEOREM LastMoverIsRead == Spec => []MoverIsFollowed
<1>1. IInv => MoverIsFollowed
  BY DEF IInv, AxisInv, ChargeInv, LookedInv, MoverIsFollowed
<1> QED BY <1>1, Invariance, PTL
=============================================================================
