------------------------ MODULE OperatorControlProofs ------------------------
(***************************************************************************)
(* Theorems about OperatorControl, for all ranges, speeds, cameras and     *)
(* lengths of the queues: intents stay in range, the panels follow them,   *)
(* and the submarine is told what was last asked for.                      *)
(***************************************************************************)
EXTENDS OperatorControl, TLAPS

Topics == {"lamp", "pitch", "camera", "hold", "vertical"}

\* What is signalled of the intents, and asked of the controller, by topic.
Signals ==
  [topic : {"lamp"}, value : 0..LampMax]
    \cup [topic : {"pitch"}, value : -PitchMax..PitchMax]
    \cup [topic : {"camera"}, value : Cameras]
    \cup [topic : {"hold"}, value : BOOLEAN]
    \cup [topic : {"vertical"}, value : Vertical]

Fields == {"enabled", "autoFocus", "focus", "profile"}

Requests ==
  [topic : {"lamp"}, value : {LampStep, -LampStep}]
    \cup [topic : {"hold"}, value : BOOLEAN]
    \cup [topic : {"mode"}, value : Modes]
    \cup [topic : Fields, value : {c[f] : c \in Cameras, f \in Fields}]

\* Who shows view shows i once it has heard the signals of q.
Follow(view, q, i) == \A topic \in Topics : ComesTo(view[topic], q, topic, i[topic])

\* What the panels decide of the intents, and what a request makes of it.
Wished == [camera : Cameras, hold : BOOLEAN, mode : Modes]

Wanted(i) == [camera |-> i.camera, hold |-> i.hold, mode |-> i.vertical.mode]

After(w, r) ==
  IF r.topic = "lamp" THEN w
  ELSE IF r.topic = "hold" THEN [w EXCEPT !.hold = r.value]
  ELSE IF r.topic = "mode" THEN [w EXCEPT !.mode = r.value]
  ELSE [w EXCEPT !.camera = [w.camera EXCEPT ![r.topic] = r.value]]

\* The requests of q, handled in turn, lead from old to new by way of what
\* may be wanted.
Leads(q, old, new) ==
  \E path \in [0..Len(q) -> Wished] :
    /\ path[0] = old /\ path[Len(q)] = new
    /\ \A i \in 1..Len(q) : path[i] = After(path[i - 1], q[i])

\* PanelsFollow needs to know what signals are about, TypeOK what requests
\* ask for, and LastWordIsSent that the requests that wait lead from what the
\* controller works with to what was last asked for.
IInv ==
  /\ TypeOK
  /\ signals \in Seq(Signals)
  /\ requests \in Seq(Requests)
  /\ PanelsFollow
  /\ Leads(requests, Wanted(intent), asked)

-----------------------------------------------------------------------------
(* Signals and those who hear them.                                        *)

\* The one who hears of nothing knows what it knew.
LEMMA NothingToHear ==
  ASSUME NEW old, NEW topic
  PROVE  ComesTo(old, <<>>, topic, old)
BY DEF ComesTo

\* The last signal about a topic tells it, and no other does.
LEMMA OneMoreToHear ==
  ASSUME NEW S, NEW q \in Seq(S), NEW s \in S, NEW old, NEW topic
  PROVE  /\ s.topic = topic => ComesTo(old, Append(q, s), topic, s.value)
         /\ \A new : s.topic # topic /\ ComesTo(old, q, topic, new)
                       => ComesTo(old, Append(q, s), topic, new)
<1> DEFINE r == Append(q, s)
<1>1. /\ Len(r) = Len(q) + 1 /\ Len(q) \in Nat
      /\ DOMAIN r = 1..Len(r) /\ DOMAIN q = 1..Len(q)
      /\ r[Len(r)] = s
      /\ \A i \in DOMAIN q : r[i] = q[i]
  OBVIOUS
<1> HIDE DEF r
<1>2. ASSUME s.topic = topic PROVE ComesTo(old, r, topic, s.value)
  <2>1. Len(r) \in DOMAIN r /\ \A j \in Len(r) + 1 .. Len(r) : r[j].topic # topic
    BY <1>1
  <2> QED BY <1>1, <1>2, <2>1 DEF ComesTo
<1>3. ASSUME NEW new, s.topic # topic, ComesTo(old, q, topic, new)
      PROVE  ComesTo(old, r, topic, new)
  <2>1. CASE old = new /\ \A i \in DOMAIN q : q[i].topic # topic
    <3>1. \A i \in DOMAIN r : r[i].topic # topic
      BY <1>1, <1>3, <2>1
    <3> QED BY <2>1, <3>1 DEF ComesTo
  <2>2. ASSUME NEW i \in DOMAIN q, q[i].topic = topic, q[i].value = new,
               \A j \in i+1 .. Len(q) : q[j].topic # topic
        PROVE  ComesTo(old, r, topic, new)
    <3>1. i \in DOMAIN r /\ r[i] = q[i]
      BY <1>1
    <3>2. \A j \in i+1 .. Len(r) : r[j].topic # topic
      BY <1>1, <1>3, <2>2
    <3> QED BY <2>2, <3>1, <3>2 DEF ComesTo
  <2> QED BY <1>3, <2>1, <2>2 DEF ComesTo
<1> QED BY <1>2, <1>3 DEF r

\* The first signal that is heard was one of those to come.
LEMMA OneIsHeard ==
  ASSUME NEW S, NEW q \in Seq(S), q # <<>>, NEW old, NEW topic, NEW new,
         ComesTo(old, q, topic, new)
  PROVE  ComesTo(IF Head(q).topic = topic THEN Head(q).value ELSE old,
                 Tail(q), topic, new)
<1> DEFINE r == Tail(q)
           knows == IF Head(q).topic = topic THEN Head(q).value ELSE old
<1>1. /\ Len(q) = Len(r) + 1 /\ Len(r) \in Nat
      /\ DOMAIN r = 1..Len(r) /\ DOMAIN q = 1..Len(q)
      /\ Head(q) = q[1] /\ 1 \in DOMAIN q
      /\ \A i \in DOMAIN r : r[i] = q[i + 1] /\ i + 1 \in DOMAIN q
  OBVIOUS
<1> HIDE DEF r
<1>2. CASE old = new /\ \A i \in DOMAIN q : q[i].topic # topic
  <2>1. knows = new /\ \A i \in DOMAIN r : r[i].topic # topic
    BY <1>1, <1>2
  <2> QED BY <2>1 DEF ComesTo, r
<1>3. ASSUME NEW i \in DOMAIN q, q[i].topic = topic, q[i].value = new,
             \A j \in i+1 .. Len(q) : q[j].topic # topic
      PROVE  ComesTo(knows, r, topic, new)
  <2>1. CASE i = 1
    <3>1. knows = new
      BY <1>1, <1>3, <2>1
    <3>2. ASSUME NEW j \in DOMAIN r PROVE r[j].topic # topic
      <4>1. j + 1 \in i+1 .. Len(q) /\ r[j] = q[j + 1]
        BY <1>1, <2>1
      <4> QED BY <1>3, <4>1
    <3> QED BY <3>1, <3>2 DEF ComesTo
  <2>2. CASE i # 1
    <3>1. PICK k \in DOMAIN r : k + 1 = i
      <4>1. i - 1 \in DOMAIN r /\ (i - 1) + 1 = i
        BY <1>1, <2>2
      <4> QED BY <4>1
    <3>2. r[k] = q[i]
      BY <1>1, <3>1
    <3>3. ASSUME NEW j \in k+1 .. Len(r) PROVE r[j].topic # topic
      <4>1. j + 1 \in i+1 .. Len(q) /\ j \in DOMAIN r
        BY <1>1, <3>1
      <4> QED BY <1>1, <1>3, <4>1
    <3> QED BY <1>3, <3>2, <3>3 DEF ComesTo
  <2> QED BY <2>1, <2>2
<1> QED BY <1>2, <1>3 DEF ComesTo, r

LEMMA OneMore ==
  ASSUME NEW S, NEW q \in Seq(S), NEW s \in S
  PROVE  q \o <<s>> = Append(q, s) /\ Append(q, s) \in Seq(S)
OBVIOUS

LEMMA FourMore ==
  ASSUME NEW S, NEW q \in Seq(S), NEW a \in S, NEW b \in S, NEW c \in S, NEW d \in S
  PROVE  q \o <<a, b, c, d>> = Append(Append(Append(Append(q, a), b), c), d)
OBVIOUS

LEMMA TopicsOfIntents ==
  ASSUME NEW i \in Intents
  PROVE  DOMAIN i = Topics /\ \A t \in Topics : Signal(t, i[t]) \in Signals
<1>1. DOMAIN i = Topics
  BY DEF Intents, Topics
<1>2. /\ Signal("lamp", i["lamp"]) \in Signals
      /\ Signal("pitch", i["pitch"]) \in Signals
      /\ Signal("camera", i["camera"]) \in Signals
      /\ Signal("hold", i["hold"]) \in Signals
      /\ Signal("vertical", i["vertical"]) \in Signals
  BY DEF Intents, Signal, Signals
<1> QED BY <1>1, <1>2 DEF Topics

\* What signals tell may be shown.
LEMMA HeardIntents ==
  ASSUME NEW i \in Intents, NEW s \in Signals
  PROVE  [i EXCEPT ![s.topic] = s.value] \in Intents
BY DEF Intents, Signals

\* To signal a change keeps those informed who follow, and so does to signal
\* what has not changed.
LEMMA ChangeIsFollowed ==
  ASSUME NEW q \in Seq(Signals), NEW view, NEW i \in Intents, Follow(view, q, i),
         NEW t \in Topics, NEW v, Signal(t, v) \in Signals
  PROVE  /\ q \o Changed(t, i[t], v) \in Seq(Signals)
         /\ Follow(view, q \o Changed(t, i[t], v), [i EXCEPT ![t] = v])
         /\ [i EXCEPT ![t] = v] \in Intents
<1> DEFINE s == Signal(t, v)
           j == [i EXCEPT ![t] = v]
<1>1. /\ s.topic = t /\ s.value = v /\ j \in Intents
      /\ j[t] = v /\ \A u \in Topics : u # t => j[u] = i[u]
  BY HeardIntents, TopicsOfIntents DEF Signal
<1>2. CASE i[t] = v
  <2>1. q \o Changed(t, i[t], v) = q
    BY <1>2 DEF Changed
  <2>2. \A u \in Topics : j[u] = i[u]
    BY <1>1, <1>2
  <2> QED BY <1>1, <2>1, <2>2 DEF Follow
<1>3. CASE i[t] # v
  <2>1. Changed(t, i[t], v) = <<s>> /\ s \in Signals
    BY <1>3 DEF Changed
  <2> HIDE DEF s
  <2>2. q \o <<s>> = Append(q, s) /\ Append(q, s) \in Seq(Signals)
    BY <2>1, OneMore
  <2>3. \A u \in Topics : ComesTo(view[u], Append(q, s), u, j[u])
    BY <1>1, <2>1, OneMoreToHear DEF Follow
  <2> QED BY <1>1, <2>1, <2>2, <2>3 DEF Follow
<1> QED BY <1>2, <1>3

LEMMA RepeatIsFollowed ==
  ASSUME NEW q \in Seq(Signals), NEW view, NEW i \in Intents, Follow(view, q, i),
         NEW t \in Topics
  PROVE  /\ Append(q, Signal(t, i[t])) \in Seq(Signals)
         /\ Follow(view, Append(q, Signal(t, i[t])), i)
<1>1. PICK s \in Signals : s = Signal(t, i[t]) /\ s.topic = t /\ s.value = i[t]
  BY TopicsOfIntents DEF Signal
<1> QED BY <1>1, OneMoreToHear DEF Follow

-----------------------------------------------------------------------------
(* Requests and what they lead to.                                         *)

LEMMA NoRequests ==
  /\ \A w \in Wished : Leads(<<>>, w, w)
  /\ \A v, w : Leads(<<>>, v, w) => v = w
<1>1. ASSUME NEW w \in Wished PROVE Leads(<<>>, w, w)
  <2> DEFINE path == [n \in 0..0 |-> w]
  <2>1. path \in [0..Len(<<>>) -> Wished] /\ path[0] = w /\ Len(<<>>) = 0
    OBVIOUS
  <2> HIDE DEF path
  <2> QED BY <2>1 DEF Leads
<1> QED BY <1>1 DEF Leads

LEMMA OneMoreRequest ==
  ASSUME NEW S, NEW q \in Seq(S), NEW r \in S, NEW v, NEW w, Leads(q, v, w),
         After(w, r) \in Wished
  PROVE  Leads(Append(q, r), v, After(w, r))
<1>1. PICK path \in [0..Len(q) -> Wished] :
        /\ path[0] = v /\ path[Len(q)] = w
        /\ \A i \in 1..Len(q) : path[i] = After(path[i - 1], q[i])
  BY DEF Leads
<1> DEFINE longer == Append(q, r)
           onward == [n \in 0..Len(longer) |-> IF n = Len(longer) THEN After(w, r) ELSE path[n]]
<1>2. /\ Len(q) \in Nat /\ Len(longer) = Len(q) + 1
      /\ longer[Len(longer)] = r /\ \A i \in 1..Len(q) : longer[i] = q[i]
  OBVIOUS
<1>3. /\ onward \in [0..Len(longer) -> Wished]
      /\ onward[Len(longer)] = After(w, r)
      /\ \A n \in 0..Len(q) : onward[n] = path[n]
  BY <1>2
<1> HIDE DEF onward, longer
<1>4. ASSUME NEW i \in 1..Len(longer) PROVE onward[i] = After(onward[i - 1], longer[i])
  <2>1. CASE i = Len(longer)
    <3>1. i - 1 = Len(q) /\ i - 1 \in 0..Len(q)
      BY <1>2, <2>1
    <3> QED BY <1>1, <1>2, <1>3, <2>1, <3>1
  <2>2. CASE i # Len(longer)
    <3>1. i \in 1..Len(q) /\ i - 1 \in 0..Len(q)
      BY <1>2, <2>2
    <3> QED BY <1>1, <1>2, <1>3, <3>1
  <2> QED BY <2>1, <2>2
<1>5. 0 \in 0..Len(q)
  BY <1>2
<1>6. Leads(longer, v, After(w, r))
  BY <1>1, <1>3, <1>4, <1>5 DEF Leads
<1> QED BY <1>6 DEF longer

LEMMA OneRequestLess ==
  ASSUME NEW S, NEW q \in Seq(S), q # <<>>, NEW v, NEW w, Leads(q, v, w)
  PROVE  After(v, Head(q)) \in Wished /\ Leads(Tail(q), After(v, Head(q)), w)
<1>1. PICK path \in [0..Len(q) -> Wished] :
        /\ path[0] = v /\ path[Len(q)] = w
        /\ \A i \in 1..Len(q) : path[i] = After(path[i - 1], q[i])
  BY DEF Leads
<1> DEFINE rest == Tail(q)
           onward == [n \in 0..Len(rest) |-> path[n + 1]]
<1>2. /\ Len(rest) \in Nat /\ Len(q) = Len(rest) + 1
      /\ Head(q) = q[1] /\ \A i \in 1..Len(rest) : rest[i] = q[i + 1]
  OBVIOUS
<1> HIDE DEF rest
<1>3. path[1] = After(v, Head(q)) /\ path[1] \in Wished
  <2>1. 1 \in 1..Len(q) /\ 1 \in 0..Len(q) /\ 1 - 1 = 0
    BY <1>2
  <2> QED BY <1>1, <1>2, <2>1
<1>4. /\ onward \in [0..Len(rest) -> Wished]
      /\ \A n \in 0..Len(rest) : onward[n] = path[n + 1]
  BY <1>2
<1> HIDE DEF onward
<1>5. onward[0] = path[1] /\ onward[Len(rest)] = w
  <2>1. 0 \in 0..Len(rest) /\ Len(rest) \in 0..Len(rest) /\ 0 + 1 = 1
    BY <1>2
  <2> QED BY <1>1, <1>2, <1>4, <2>1
<1>6. ASSUME NEW i \in 1..Len(rest) PROVE onward[i] = After(onward[i - 1], rest[i])
  <2>1. /\ i \in 0..Len(rest) /\ i - 1 \in 0..Len(rest) /\ (i - 1) + 1 = i
        /\ i + 1 \in 1..Len(q) /\ (i + 1) - 1 = i
    BY <1>2
  <2>2. path[i + 1] = After(path[i], q[i + 1])
    BY <1>1, <2>1
  <2> QED BY <1>2, <1>4, <2>1, <2>2
<1>7. Leads(rest, After(v, Head(q)), w)
  BY <1>3, <1>4, <1>5, <1>6 DEF Leads
<1> QED BY <1>3, <1>7 DEF rest

-----------------------------------------------------------------------------
(* Ranges.                                                                 *)

LEMMA MovedInRange ==
  ASSUME NEW x \in Int, NEW axis \in Int, NEW speed \in Int, NEW delta \in Int,
         NEW low \in Int, NEW high \in Int, low <= high
  PROVE  Clamp(x + axis * speed * delta, low, high) \in low..high
<1>1. PICK y \in Int : y = x + axis * speed * delta
  OBVIOUS
<1>2. Clamp(y, low, high) \in low..high
  BY DEF Clamp
<1> QED BY <1>1, <1>2

LEMMA MovedNonNegative ==
  ASSUME NEW x \in Int, NEW axis \in Int, NEW speed \in Int, NEW delta \in Int
  PROVE  NonNegative(x + axis * speed * delta) \in Nat
<1>1. PICK y \in Int : y = x + axis * speed * delta
  OBVIOUS
<1>2. NonNegative(y) \in Nat
  BY DEF NonNegative
<1> QED BY <1>1, <1>2

\* What a tick makes of the intents stays in their ranges.
LEMMA TickInRange ==
  ASSUME intent \in Intents, NEW axes \in Axes, NEW delta \in Deltas,
         NextVertical(axes.ballast, delta).depth <= MaxDepth
  PROVE  /\ NextLamp(axes.lamp, delta) \in 0..LampMax
         /\ TurnedPitch(axes.pitch, delta) \in -PitchMax..PitchMax
         /\ 0 \in -PitchMax..PitchMax
         /\ NextVertical(axes.ballast, delta) \in Vertical
         /\ NextVertical(axes.ballast, delta).mode = intent.vertical.mode
<1>1. /\ axes.lamp \in Int /\ axes.pitch \in Int /\ axes.ballast \in Int /\ delta \in Int
      /\ LampMax \in Nat /\ PitchMax \in Nat /\ BallastMax \in Nat /\ MaxDepth \in Nat
      /\ LampSpeed \in Int /\ PitchSpeed \in Int /\ BallastSpeed \in Int /\ DepthSpeed \in Int
  <2>1. axes \in [lamp : -1..1, pitch : -1..1, ballast : -1..1] /\ delta \in Nat
    BY ControlAssumption
  <2> QED BY <2>1, ControlAssumption
<1>2. /\ intent.lamp \in Int /\ intent.pitch \in Int /\ intent.vertical \in Vertical
      /\ intent.vertical.ballast \in Int /\ intent.vertical.depth \in 0..MaxDepth
      /\ intent.vertical.mode \in Modes
  BY <1>1 DEF Intents, Vertical
<1>3. 0 <= LampMax /\ 0 <= BallastMax /\ -PitchMax <= PitchMax /\ -PitchMax \in Int
      /\ 0 \in -PitchMax..PitchMax /\ LampMax \in Int /\ PitchMax \in Int
      /\ BallastMax \in Int /\ intent.vertical.depth \in Int /\ 0 \in Int
  BY <1>1, <1>2
<1>4. NextLamp(axes.lamp, delta) \in 0..LampMax
  BY <1>1, <1>2, <1>3, MovedInRange, Zenon DEF NextLamp
<1>5. TurnedPitch(axes.pitch, delta) \in -PitchMax..PitchMax /\ 0 \in -PitchMax..PitchMax
  <2>1. TurnedPitch(axes.pitch, delta) \in -PitchMax..PitchMax
    BY <1>1, <1>2, <1>3, MovedInRange DEF TurnedPitch
  <2> QED BY <1>3, <2>1
<1>6. /\ NextVertical(axes.ballast, delta) \in Vertical
      /\ NextVertical(axes.ballast, delta).mode = intent.vertical.mode
  <2> DEFINE v == intent.vertical
             ballast == Clamp(v.ballast + axes.ballast * BallastSpeed * delta, 0, BallastMax)
             depth == NonNegative(v.depth + axes.ballast * DepthSpeed * delta)
  <2>1. ballast \in 0..BallastMax
    BY <1>1, <1>2, <1>3, MovedInRange
  <2>2. depth \in Nat
    BY <1>1, <1>2, <1>3, MovedNonNegative
  <2>3. CASE v.mode = "ballast"
    <3>1. NextVertical(axes.ballast, delta) = [v EXCEPT !.ballast = ballast]
      BY <2>3 DEF NextVertical
    <3> HIDE DEF ballast
    <3> QED BY <1>2, <2>1, <3>1 DEF Vertical
  <2>4. CASE v.mode = "depth"
    <3>1. NextVertical(axes.ballast, delta) = [v EXCEPT !.depth = depth]
      BY <2>4 DEF NextVertical
    <3> HIDE DEF depth
    <3>2. depth <= MaxDepth
      <4>1. NextVertical(axes.ballast, delta).depth = depth
        BY <1>2, <3>1 DEF Vertical
      <4> QED BY <4>1
    <3>3. depth \in 0..MaxDepth
      BY <1>1, <2>2, <3>2
    <3> QED BY <1>2, <3>1, <3>3 DEF Vertical
  <2>5. CASE v.mode = "keep"
    BY <1>2, <2>5 DEF NextVertical
  <2> QED BY <1>2, <2>3, <2>4, <2>5 DEF Modes
<1> QED BY <1>4, <1>5, <1>6

-----------------------------------------------------------------------------
(* The inductive invariant.                                                *)

LEMMA CamerasHaveFields ==
  ASSUME NEW c \in Cameras PROVE DOMAIN c = Fields
<1>1. c = [enabled |-> c.enabled, autoFocus |-> c.autoFocus, focus |-> c.focus,
           profile |-> c.profile]
  BY ControlAssumption
<1>2. \A a, b, d, e : DOMAIN [enabled |-> a, autoFocus |-> b, focus |-> d, profile |-> e] = Fields
  BY DEF Fields
<1> QED BY <1>1, <1>2

LEMMA PanelsFollowIs ==
  ASSUME intent \in Intents
  PROVE  PanelsFollow <=> Follow(shown, signals, intent)
BY TopicsOfIntents DEF PanelsFollow, Follow

LEMMA PanelsFollowNextIs ==
  ASSUME intent' \in Intents
  PROVE  PanelsFollow' <=> Follow(shown', signals', intent')
BY TopicsOfIntents DEF PanelsFollow, Follow

\* A slot leaves panels that followed the intents to follow the new ones.
LEMMA SetIsFollowed ==
  ASSUME IInv, NEW t \in Topics, NEW v, Signal(t, v) \in Signals, Set(t, v)
  PROVE  /\ intent' \in Intents /\ intent' = [intent EXCEPT ![t] = v]
         /\ signals' \in Seq(Signals)
         /\ Follow(shown, signals', intent')
<1>1. intent \in Intents /\ signals \in Seq(Signals) /\ Follow(shown, signals, intent)
  BY PanelsFollowIs DEF IInv, TypeOK
<1>2. signals' = signals \o Changed(t, intent[t], v)
  <2>1. CASE intent[t] = v
    <3>1. signals \o <<>> = signals
      BY <1>1
    <3> QED BY <2>1, <3>1 DEF Set, Changed
  <2>2. CASE intent[t] # v
    <3>1. signals \o <<Signal(t, v)>> = Append(signals, Signal(t, v))
      BY <1>1, OneMore
    <3> QED BY <2>2, <3>1 DEF Set, Changed
  <2> QED BY <2>1, <2>2
<1>3. intent' = [intent EXCEPT ![t] = v]
  BY DEF Set
<1> QED BY <1>1, <1>2, <1>3, ChangeIsFollowed

LEMMA InitIInv == Init => IInv
<1> SUFFICES ASSUME Init PROVE IInv
  OBVIOUS
<1>1. FirstCamera \in Cameras /\ LampMax \in Nat /\ PitchMax \in Nat /\ BallastMax \in Nat
      /\ MaxDepth \in Nat /\ MaxRequests \in Nat
  BY ControlAssumption
<1>2. intent \in Intents /\ shown = intent
  BY <1>1 DEF Init, Intents, Vertical, Modes
<1>3. asked = Wanted(intent) /\ asked \in Wished
  BY <1>1 DEF Init, Wanted, Wished, Modes
<1>4. TypeOK
  <2>1. Len(requests) <= MaxRequests
    BY <1>1 DEF Init
  <2>2. published \in BOOLEAN /\ centreKey = "unread" /\ sent \in {NothingSent}
    BY DEF Init
  <2> QED BY <1>2, <1>3, <2>1, <2>2 DEF TypeOK, Wished
<1>5. signals = <<>> /\ requests = <<>> /\ signals \in Seq(Signals) /\ requests \in Seq(Requests)
  BY DEF Init
<1>6. PanelsFollow
  BY <1>2, <1>5, NothingToHear DEF PanelsFollow
<1>7. Leads(requests, Wanted(intent), asked)
  BY <1>3, <1>5, NoRequests
<1> QED BY <1>4, <1>5, <1>6, <1>7 DEF IInv

\* Asking is remembered as what it asks for.
LEMMA AskKeepsIInv ==
  ASSUME IInv, NEW slot, NEW value, Ask(slot, value), Signal(slot, value) \in Requests,
         asked' = After(asked, Signal(slot, value)), asked' \in Wished
  PROVE  IInv'
<1> DEFINE r == Signal(slot, value)
<1>1. requests' = Append(requests, r) /\ requests \in Seq(Requests) /\ r \in Requests
      /\ Len(requests) < MaxRequests
      /\ UNCHANGED <<intent, published, centreKey, sent, signals, shown>>
  BY DEF Ask, IInv
<1> HIDE DEF r
<1>2. requests' \in Seq(Requests) /\ Len(requests') <= MaxRequests
  <2>1. MaxRequests \in Nat
    BY ControlAssumption
  <2> QED BY <1>1, <2>1
<1>3. TypeOK'
  BY <1>1, <1>2 DEF IInv, TypeOK, Wished
<1>4. Leads(requests', Wanted(intent'), asked')
  BY <1>1, OneMoreRequest DEF IInv, Wanted, r
<1>5. PanelsFollow'
  BY <1>1 DEF IInv, PanelsFollow
<1> QED BY <1>1, <1>2, <1>3, <1>4, <1>5 DEF IInv

\* What a request does to the intents is what it was to do.
LEMMA HandleRequestKeepsIInv ==
  ASSUME IInv, HandleRequest
  PROVE  IInv'
<1> DEFINE r == Head(requests)
           w == Wanted(intent)
<1>1. /\ intent \in Intents /\ intent.camera \in Cameras /\ intent.vertical \in Vertical
      /\ intent.lamp \in 0..LampMax
  BY DEF IInv, TypeOK, Intents
<1>2. requests # <<>> /\ requests' = Tail(requests) /\ requests \in Seq(Requests)
      /\ UNCHANGED <<published, centreKey, sent, shown, asked>>
  BY DEF HandleRequest, IInv
<1>3. r \in Requests /\ requests' \in Seq(Requests) /\ Len(requests') <= MaxRequests
  <2>1. Len(requests) <= MaxRequests /\ MaxRequests \in Nat
    BY ControlAssumption DEF IInv, TypeOK
  <2>2. Len(requests') \in Nat /\ Len(requests') <= Len(requests) /\ Len(requests) \in Nat
    BY <1>2
  <2>3. Len(requests') <= MaxRequests
    BY <2>1, <2>2
  <2> QED BY <1>2, <2>3
<1>4. After(w, r) \in Wished /\ Leads(requests', After(w, r), asked')
  BY <1>2, OneRequestLess DEF IInv
<1> SUFFICES ASSUME intent' \in Intents, signals' \in Seq(Signals),
                    Follow(shown, signals', intent'), Wanted(intent') = After(w, r)
             PROVE  IInv'
  <2> SUFFICES /\ intent' \in Intents /\ signals' \in Seq(Signals)
               /\ Follow(shown, signals', intent') /\ Wanted(intent') = After(w, r)
    OBVIOUS
  <2>1. CASE r.topic = "lamp" /\ Set("lamp", Clamp(intent.lamp + r.value, 0, LampMax))
    <3>1. r.value \in Int
      <4>1. r.value \in {LampStep, -LampStep} /\ LampStep \in Nat
        BY <1>3, <2>1, ControlAssumption DEF Requests, Fields
      <4> QED BY <4>1
    <3>2. Clamp(intent.lamp + r.value, 0, LampMax) \in 0..LampMax
      <4>1. LampMax \in Nat
        BY ControlAssumption
      <4> QED BY <1>1, <3>1, <4>1 DEF Clamp
    <3>3. "lamp" \in Topics
          /\ Signal("lamp", Clamp(intent.lamp + r.value, 0, LampMax)) \in Signals
      BY <3>2 DEF Topics, Signal, Signals
    <3>4. /\ intent' \in Intents /\ signals' \in Seq(Signals) /\ Follow(shown, signals', intent')
          /\ intent' = [intent EXCEPT !["lamp"] = Clamp(intent.lamp + r.value, 0, LampMax)]
      BY <2>1, <3>3, SetIsFollowed
    <3>5. Wanted(intent') = w
      BY <1>1, <3>4 DEF Wanted, Intents
    <3> QED BY <2>1, <3>4, <3>5 DEF After
  <2>2. CASE r.topic = "hold" /\ Set("hold", r.value)
    <3>1. r.value \in BOOLEAN
      BY <1>3, <2>2 DEF Requests, Fields
    <3>2. "hold" \in Topics /\ Signal("hold", r.value) \in Signals
      BY <3>1 DEF Topics, Signal, Signals
    <3>3. /\ intent' \in Intents /\ signals' \in Seq(Signals) /\ Follow(shown, signals', intent')
          /\ intent' = [intent EXCEPT !["hold"] = r.value]
      BY <2>2, <3>2, SetIsFollowed
    <3>4. Wanted(intent') = [w EXCEPT !.hold = r.value]
      BY <1>1, <3>3 DEF Wanted, Intents
    <3> QED BY <2>2, <3>3, <3>4 DEF After
  <2>3. CASE r.topic = "mode" /\ SetMode(r.value)
    <3>1. r.value \in Modes
      BY <1>3, <2>3 DEF Requests, Fields
    <3>2. [intent.vertical EXCEPT !.mode = r.value] \in Vertical
      BY <1>1, <3>1 DEF Vertical
    <3>3. "vertical" \in Topics
          /\ Signal("vertical", [intent.vertical EXCEPT !.mode = r.value]) \in Signals
      BY <3>2 DEF Topics, Signal, Signals
    <3>4. /\ intent' \in Intents /\ signals' \in Seq(Signals) /\ Follow(shown, signals', intent')
          /\ intent' = [intent EXCEPT !["vertical"] = [intent.vertical EXCEPT !.mode = r.value]]
      BY <2>3, <3>3, SetIsFollowed DEF SetMode
    <3>5. Wanted(intent') = [w EXCEPT !.mode = r.value]
      BY <1>1, <3>4 DEF Wanted, Intents, Vertical
    <3> QED BY <2>3, <3>4, <3>5 DEF After
  <2>4. CASE /\ r.topic \in DOMAIN intent.camera
             /\ Set("camera", [intent.camera EXCEPT ![r.topic] = r.value])
    <3>1. r.topic \notin {"lamp", "hold", "mode"}
      BY <1>1, <2>4, CamerasHaveFields DEF Fields
    <3>2. After(w, r) = [w EXCEPT !.camera = [intent.camera EXCEPT ![r.topic] = r.value]]
      BY <3>1 DEF After, Wanted
    <3>3. [intent.camera EXCEPT ![r.topic] = r.value] \in Cameras
      <4>1. After(w, r).camera \in Cameras
        BY <1>4 DEF Wished
      <4>2. After(w, r).camera = [intent.camera EXCEPT ![r.topic] = r.value]
        BY <3>2 DEF Wanted
      <4> QED BY <4>1, <4>2
    <3>4. "camera" \in Topics
          /\ Signal("camera", [intent.camera EXCEPT ![r.topic] = r.value]) \in Signals
      BY <3>3 DEF Topics, Signal, Signals
    <3>5. /\ intent' \in Intents /\ signals' \in Seq(Signals) /\ Follow(shown, signals', intent')
          /\ intent' = [intent EXCEPT !["camera"] = [intent.camera EXCEPT ![r.topic] = r.value]]
      BY <2>4, <3>4, SetIsFollowed
    <3>6. Wanted(intent') = [w EXCEPT !.camera = [intent.camera EXCEPT ![r.topic] = r.value]]
      BY <1>1, <3>5 DEF Wanted, Intents
    <3> QED BY <3>2, <3>5, <3>6
  <2> QED BY <2>1, <2>2, <2>3, <2>4 DEF HandleRequest
<1>5. TypeOK'
  BY <1>2, <1>3 DEF IInv, TypeOK
<1>6. PanelsFollow'
  BY <1>2, PanelsFollowNextIs
<1> QED BY <1>3, <1>4, <1>5, <1>6 DEF IInv

\* To hear a signal is to show more of what was to come.
LEMMA HearSignalKeepsIInv ==
  ASSUME IInv, HearSignal
  PROVE  IInv'
<1> DEFINE s == Head(signals)
<1>1. /\ signals \in Seq(Signals) /\ signals # <<>> /\ signals' = Tail(signals)
      /\ shown' = [shown EXCEPT ![s.topic] = s.value]
      /\ intent' = intent /\ requests' = requests /\ asked' = asked
      /\ UNCHANGED <<published, centreKey, sent>>
  BY DEF HearSignal, IInv
<1>2. s \in Signals /\ signals' \in Seq(Signals)
  BY <1>1
<1>3. intent \in Intents /\ shown \in Intents /\ Follow(shown, signals, intent)
  BY PanelsFollowIs DEF IInv, TypeOK
<1>4. shown' \in Intents /\ DOMAIN shown = Topics
  BY <1>1, <1>2, <1>3, HeardIntents, TopicsOfIntents
<1>5. TypeOK'
  BY <1>1, <1>4 DEF IInv, TypeOK
<1>6. Follow(shown', signals', intent')
  <2>1. \A t \in Topics : shown'[t] = IF s.topic = t THEN s.value ELSE shown[t]
    BY <1>1, <1>4
  <2>2. \A t \in Topics : ComesTo(IF s.topic = t THEN s.value ELSE shown[t],
                                  Tail(signals), t, intent[t])
    BY <1>1, <1>3, OneIsHeard DEF Follow
  <2> QED BY <1>1, <2>1, <2>2 DEF Follow
<1>7. PanelsFollow'
  BY <1>1, <1>3, <1>6, PanelsFollowNextIs
<1>8. Leads(requests', Wanted(intent'), asked')
  BY <1>1 DEF IInv
<1> QED BY <1>1, <1>2, <1>5, <1>7, <1>8 DEF IInv

\* A tick changes three intents, one of them twice, and may publish all; what
\* the panels decide of the intents it leaves alone.
LEMMA TickIsFollowed ==
  ASSUME IInv, NEW axes \in Axes, NEW pressed \in BOOLEAN, NEW delta \in Deltas,
         NEW accepted \in BOOLEAN, Tick(axes, pressed, delta, accepted)
  PROVE  /\ intent' \in Intents /\ signals' \in Seq(Signals)
         /\ Follow(shown, signals', intent')
         /\ Wanted(intent') = Wanted(intent)
<1> DEFINE lamp == NextLamp(axes.lamp, delta)
           turned == TurnedPitch(axes.pitch, delta)
           pitch == IF Centres(pressed) THEN 0 ELSE turned
           vertical == NextVertical(axes.ballast, delta)
           i1 == [intent EXCEPT !["lamp"] = lamp]
           q1 == signals \o Changed("lamp", intent["lamp"], lamp)
           i2 == [i1 EXCEPT !["pitch"] = turned]
           q2 == q1 \o Changed("pitch", i1["pitch"], turned)
           i3 == [i2 EXCEPT !["pitch"] = pitch]
           q3 == q2 \o Changed("pitch", i2["pitch"], pitch)
           i4 == [i3 EXCEPT !["vertical"] = vertical]
           q4 == q3 \o Changed("vertical", i3["vertical"], vertical)
<1>1. intent \in Intents /\ signals \in Seq(Signals) /\ Follow(shown, signals, intent)
  BY PanelsFollowIs DEF IInv, TypeOK
<1>2. vertical.depth <= MaxDepth
  BY DEF Tick
<1>3. /\ lamp \in 0..LampMax /\ turned \in -PitchMax..PitchMax /\ 0 \in -PitchMax..PitchMax
      /\ vertical \in Vertical /\ vertical.mode = intent.vertical.mode
  BY <1>1, <1>2, TickInRange
<1>4. pitch \in -PitchMax..PitchMax
  BY <1>3
<1>5. /\ intent' = [intent EXCEPT !.lamp = lamp, !.pitch = pitch, !.vertical = vertical]
      /\ signals' = signals
           \o Changed("lamp", intent.lamp, lamp)
           \o Changed("pitch", intent.pitch, turned) \o Changed("pitch", turned, pitch)
           \o Changed("vertical", intent.vertical, vertical)
           \o (IF published \/ ~accepted THEN <<>>
               ELSE <<Signal("camera", intent.camera), Signal("pitch", pitch),
                      Signal("hold", intent.hold), Signal("vertical", vertical)>>)
  BY DEF Tick
<1> HIDE DEF lamp, turned, pitch, vertical
<1>6. /\ "lamp" \in Topics /\ "pitch" \in Topics /\ "vertical" \in Topics
      /\ "camera" \in Topics /\ "hold" \in Topics
      /\ Signal("lamp", lamp) \in Signals /\ Signal("pitch", turned) \in Signals
      /\ Signal("pitch", pitch) \in Signals /\ Signal("vertical", vertical) \in Signals
  BY <1>3, <1>4 DEF Topics, Signal, Signals
<1>7. /\ i1.pitch = intent.pitch /\ i2.pitch = turned /\ i3.vertical = intent.vertical
      /\ i4 = intent'
      /\ i4.lamp = lamp /\ i4.pitch = pitch /\ i4.vertical = vertical
      /\ i4.camera = intent.camera /\ i4.hold = intent.hold
  BY <1>1, <1>5 DEF Intents
<1>8. q1 \in Seq(Signals) /\ Follow(shown, q1, i1) /\ i1 \in Intents
  BY <1>1, <1>6, ChangeIsFollowed
<1> HIDE DEF i1, q1
<1>9. q2 \in Seq(Signals) /\ Follow(shown, q2, i2) /\ i2 \in Intents
  BY <1>6, <1>8, ChangeIsFollowed
<1> HIDE DEF i2, q2
<1>10. q3 \in Seq(Signals) /\ Follow(shown, q3, i3) /\ i3 \in Intents
  BY <1>6, <1>9, ChangeIsFollowed
<1> HIDE DEF i3, q3
<1>11. q4 \in Seq(Signals) /\ Follow(shown, q4, i4) /\ i4 \in Intents
  BY <1>6, <1>10, ChangeIsFollowed
<1>12. q4 = signals
           \o Changed("lamp", intent.lamp, lamp)
           \o Changed("pitch", intent.pitch, turned) \o Changed("pitch", turned, pitch)
           \o Changed("vertical", intent.vertical, vertical)
  BY <1>7 DEF q1, q2, q3
<1> HIDE DEF i4, q4
<1>13. CASE published \/ ~accepted
  <2>1. q4 \o <<>> = q4
    BY <1>11
  <2>2. (IF published \/ ~accepted THEN <<>>
         ELSE <<Signal("camera", intent.camera), Signal("pitch", pitch),
                Signal("hold", intent.hold), Signal("vertical", vertical)>>) = <<>>
    BY <1>13
  <2>3. signals' = q4 \o <<>>
    BY <1>5, <1>12, <2>2, Zenon
  <2>4. signals' = q4
    BY <2>1, <2>3
  <2> QED BY <1>3, <1>7, <1>11, <2>4 DEF Wanted
<1>14. CASE ~(published \/ ~accepted)
  <2> DEFINE a == Signal("camera", i4["camera"])
             b == Signal("pitch", i4["pitch"])
             c == Signal("hold", i4["hold"])
             d == Signal("vertical", i4["vertical"])
             p1 == Append(q4, a)
             p2 == Append(p1, b)
             p3 == Append(p2, c)
             p4 == Append(p3, d)
  <2>1. signals' = q4 \o <<a, b, c, d>>
    BY <1>5, <1>7, <1>12, <1>14
  <2>2. a \in Signals /\ b \in Signals /\ c \in Signals /\ d \in Signals
    BY <1>6, <1>11, TopicsOfIntents
  <2>3. p1 \in Seq(Signals) /\ Follow(shown, p1, i4)
    BY <1>6, <1>11, RepeatIsFollowed
  <2>4. p2 \in Seq(Signals) /\ Follow(shown, p2, i4)
    <3> HIDE DEF p1
    <3> QED BY <1>6, <1>11, <2>3, RepeatIsFollowed
  <2>5. p3 \in Seq(Signals) /\ Follow(shown, p3, i4)
    <3> HIDE DEF p2
    <3> QED BY <1>6, <1>11, <2>4, RepeatIsFollowed
  <2>6. p4 \in Seq(Signals) /\ Follow(shown, p4, i4)
    <3> HIDE DEF p3
    <3> QED BY <1>6, <1>11, <2>5, RepeatIsFollowed
  <2>7. q4 \o <<a, b, c, d>> = p4
    <3> HIDE DEF a, b, c, d
    <3> QED BY <1>11, <2>2, FourMore
  <2> HIDE DEF p4
  <2> QED BY <1>3, <1>7, <1>11, <2>1, <2>6, <2>7 DEF Wanted
<1> QED BY <1>13, <1>14

LEMMA TickKeepsIInv ==
  ASSUME IInv, NEW axes \in Axes, NEW pressed \in BOOLEAN, NEW delta \in Deltas,
         NEW accepted \in BOOLEAN, Tick(axes, pressed, delta, accepted)
  PROVE  IInv'
<1>1. /\ intent' \in Intents /\ signals' \in Seq(Signals)
      /\ Follow(shown, signals', intent')
      /\ Wanted(intent') = Wanted(intent)
  BY TickIsFollowed
<1>2. /\ UNCHANGED <<requests, shown, asked>>
      /\ published' \in BOOLEAN /\ centreKey' \in {"unread", "pressed", "released"}
      /\ sent' \in {sent, Command(intent')}
  <2>1. published \in BOOLEAN
    BY DEF IInv, TypeOK
  <2> QED BY <2>1 DEF Tick
<1>3. Command(intent') \in
        [hold : BOOLEAN, mode : Modes, camera : {<<>>} \cup {<<c>> : c \in Cameras}]
  <2>1. intent'.hold \in BOOLEAN /\ intent'.vertical.mode \in Modes /\ intent'.camera \in Cameras
    BY <1>1 DEF Intents, Vertical
  <2> QED BY <2>1 DEF Command
<1>4. TypeOK'
  BY <1>1, <1>2, <1>3 DEF IInv, TypeOK
<1>5. PanelsFollow'
  BY <1>1, <1>2, PanelsFollowNextIs
<1>6. Leads(requests', Wanted(intent'), asked') /\ requests' \in Seq(Requests)
  BY <1>1, <1>2 DEF IInv
<1> QED BY <1>1, <1>4, <1>5, <1>6 DEF IInv

LEMMA NextIInv == IInv /\ [Next]_vars => IInv'
<1> SUFFICES ASSUME IInv, [Next]_vars PROVE IInv'
  OBVIOUS
<1>1. asked \in Wished
  BY DEF IInv, TypeOK, Wished
<1>2. CASE AskLamp
  <2>1. PICK step \in {LampStep, -LampStep} : Ask("lamp", step) /\ asked' = asked
    BY <1>2 DEF AskLamp
  <2>2. Signal("lamp", step) \in Requests /\ After(asked, Signal("lamp", step)) = asked
    BY DEF Requests, Signal, After
  <2> QED BY <1>1, <2>1, <2>2, AskKeepsIInv
<1>3. CASE AskHold
  <2>1. PICK on \in BOOLEAN : Ask("hold", on) /\ asked' = [asked EXCEPT !.hold = on]
    BY <1>3 DEF AskHold
  <2>2. /\ Signal("hold", on) \in Requests
        /\ After(asked, Signal("hold", on)) = [asked EXCEPT !.hold = on]
        /\ [asked EXCEPT !.hold = on] \in Wished
    BY <1>1 DEF Requests, Signal, After, Wished
  <2> QED BY <2>1, <2>2, AskKeepsIInv
<1>4. CASE AskMode
  <2>1. PICK m \in Modes : Ask("mode", m) /\ asked' = [asked EXCEPT !.mode = m]
    BY <1>4 DEF AskMode
  <2>2. /\ Signal("mode", m) \in Requests
        /\ After(asked, Signal("mode", m)) = [asked EXCEPT !.mode = m]
        /\ [asked EXCEPT !.mode = m] \in Wished
    BY <1>1 DEF Requests, Signal, After, Wished
  <2> QED BY <2>1, <2>2, AskKeepsIInv
<1>5. CASE AskCamera
  <2>1. PICK field \in DOMAIN FirstCamera, c \in Cameras :
          /\ c = [asked.camera EXCEPT ![field] = c[field]]
          /\ Ask(field, c[field])
          /\ asked' = [asked EXCEPT !.camera = c]
    BY <1>5 DEF AskCamera
  <2>2. field \in Fields
    BY CamerasHaveFields, ControlAssumption
  <2>3. Signal(field, c[field]) \in Requests
    BY <2>2 DEF Requests, Signal
  <2>4. After(asked, Signal(field, c[field])) = [asked EXCEPT !.camera = c]
    <3>1. field \notin {"lamp", "hold", "mode"}
      BY <2>2 DEF Fields
    <3> QED BY <2>1, <3>1 DEF After, Signal
  <2>5. [asked EXCEPT !.camera = c] \in Wished
    BY <1>1 DEF Wished
  <2> QED BY <2>1, <2>3, <2>4, <2>5, AskKeepsIInv
<1>6. CASE HearSignal
  BY <1>6, HearSignalKeepsIInv
<1>7. CASE HandleRequest
  BY <1>7, HandleRequestKeepsIInv
<1>8. CASE AcceptedTick
  BY <1>8, TickKeepsIInv DEF AcceptedTick
<1>9. CASE RejectedTick
  BY <1>9, TickKeepsIInv DEF RejectedTick
<1>10. CASE UNCHANGED vars
  BY <1>10 DEF vars, IInv, TypeOK, PanelsFollow
<1> QED BY <1>2, <1>3, <1>4, <1>5, <1>6, <1>7, <1>8, <1>9, <1>10 DEF Next

-----------------------------------------------------------------------------
(* Theorems.                                                               *)

THEOREM Invariance == Spec => []IInv
BY InitIInv, NextIInv, PTL DEF Spec

\* Intents, requests, commands and panels keep their types.
THEOREM TypeCorrect == Spec => []TypeOK
<1>1. IInv => TypeOK
  BY DEF IInv
<1> QED BY Invariance, <1>1, PTL

\* No intent, and so no command, ever leaves its range, for all limits and
\* speeds: the clamps of ticks and slots hold whatever is integrated.
THEOREM IntentsStayInRange == Spec => []IntentsInRange
<1>1. TypeOK => IntentsInRange
  BY DEF TypeOK, IntentsInRange
<1> QED BY TypeCorrect, <1>1, PTL

\* The signals that wait bring the panels to the intents, whatever requests
\* and ticks they are mixed from.
THEOREM PanelsCatchUp == Spec => []PanelsFollow
<1>1. IInv => PanelsFollow
  BY DEF IInv
<1> QED BY Invariance, <1>1, PTL

\* A command that is new says all that was last asked for.
THEOREM LastWordReachesTheSubmarine == Spec => LastWordIsSent
<1>1. IInv /\ [Next]_vars => [sent' # sent /\ requests = <<>> => Told']_vars
  <2> SUFFICES ASSUME IInv, Next, sent' # sent, requests = <<>> PROVE Told'
    OBVIOUS
  <2>1. PICK axes \in Axes, pressed \in BOOLEAN, delta \in Deltas :
          Tick(axes, pressed, delta, TRUE)
    BY DEF Next, AskLamp, AskHold, AskMode, AskCamera, Ask, HearSignal, HandleRequest,
           RejectedTick, AcceptedTick, Tick
  <2>2. intent' \in Intents /\ Wanted(intent') = Wanted(intent)
    BY <2>1, TickIsFollowed
  <2>3. Wanted(intent) = asked /\ asked' = asked /\ sent' = Command(intent')
    BY <2>1, NoRequests DEF IInv, Tick
  <2>4. /\ intent'.hold = asked'.hold /\ intent'.camera = asked'.camera
        /\ intent'.vertical.mode = asked'.mode
    BY <2>2, <2>3 DEF Wanted
  <2>5. Command([intent' EXCEPT !.hold = asked'.hold, !.camera = asked'.camera,
                                !.vertical.mode = asked'.mode]) = Command(intent')
    BY <2>2, <2>4 DEF Command, Intents, Vertical
  <2> QED BY <2>3, <2>5 DEF Told
<1> QED BY Invariance, <1>1, PTL DEF Spec, LastWordIsSent
=============================================================================
