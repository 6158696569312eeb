------------------------- MODULE VideoPipelineProofs -------------------------
(***************************************************************************)
(* The safety of VideoPipeline, for pipelines of any number of elements and *)
(* any number of retries: who owns which elements, that the QML item never  *)
(* has two sinks, and that a rebuild is one step of VideoPlayer.            *)
(***************************************************************************)
EXTENDS VideoPipeline, TLAPS

(* Counting elements needs to know, at each step of a build, which of them  *)
(* are still held by the function and whether the controller's pipeline has *)
(* an element; the refinement needs to know what became of the old one.     *)

\* What the unique_ptrs of BuildPipeline hold at each step.
LocalsInv ==
  /\ step \notin {"tail", "link", "linking"} => made = 0
  /\ step \notin {"link", "linking"} => ~tail
  /\ step = "linking" => Complete
  /\ step \notin {"idle", "undefined"} => building \in Endpoints

\* While the new elements are made the controller has the old pipeline,
\* stopped, or none; then the new one, which does not play yet.
PlayerInv ==
  /\ step \in {"elements", "tail", "link", "linking", "undefined"} =>
       \/ player = None /\ before = NoPipeline
       \/ /\ player # None /\ player.element = "gone"
          /\ before.state \in {"running", "stopped"} /\ before.ep = player.ep
  /\ step = "play" =>
       player = [ep |-> building, element |-> "stopped"]

\* The types, those of linkFailed and releasedTwice apart.
CoreTypeOK ==
  /\ step \in {"idle", "elements", "tail", "link", "linking", "play", "undefined"}
  /\ building \in Endpoints \cup {None}
  /\ player \in Players \cup {None}
  /\ made \in 0..SourceCount /\ tail \in BOOLEAN
  /\ sources \in Nat /\ tails \in Nat /\ sinks \in Nat
  /\ messages \in 0..MaxMessages
  /\ result \in {"ok", "failed", None}
  /\ window \in {"none", "hidden", "exposed"}
  /\ calm \in BOOLEAN
  /\ lost \in 0..MaxLost
  /\ before \in [state : {"none", "stopped", "running"}, ep : Endpoints \cup {None}]

IInv == CoreTypeOK /\ EachIsOwned /\ LocalsInv /\ PlayerInv

\* Two owners release an element when a link has failed, and only then.
OwnersInv ==
  /\ linkFailed \in BOOLEAN /\ releasedTwice \in BOOLEAN
  /\ releasedTwice <=> linkFailed

-----------------------------------------------------------------------------
\* The invariant holds at the start.
LEMMA InitIInv == Init => IInv
<1> SUFFICES ASSUME Init PROVE IInv
  OBVIOUS
<1> USE VideoPipelineAssumption DEF Init
<1>1. CoreTypeOK
  <2>1. tail \in BOOLEAN /\ calm \in BOOLEAN
    OBVIOUS
  <2>2. /\ made \in 0..SourceCount /\ messages \in 0..MaxMessages /\ lost \in 0..MaxLost
        /\ sources \in Nat /\ tails \in Nat /\ sinks \in Nat
    OBVIOUS
  <2>3. before \in [state : {"none", "stopped", "running"}, ep : Endpoints \cup {None}]
    BY DEF NoPipeline
  <2> QED BY <2>1, <2>2, <2>3 DEF CoreTypeOK
<1>2. EachIsOwned
  <2>1. ~HasElement /\ tail = FALSE /\ made = 0 /\ lost = 0
    BY DEF HasElement
  <2> QED BY <2>1 DEF EachIsOwned
<1>3. LocalsInv /\ PlayerInv
  BY DEF LocalsInv, PlayerInv
<1> QED BY <1>1, <1>2, <1>3 DEF IInv

\* What Stop leaves of the counts when they were right.
LEMMA StopIsRight ==
  ASSUME CoreTypeOK, EachIsOwned, StopElement
  PROVE  /\ sources' = made
         /\ tails' = TailCount * (IF tail THEN 1 ELSE 0) + lost
         /\ sinks' = IF tail THEN 1 ELSE 0
         /\ messages' = 0
<1> DEFINE held == IF tail THEN 1 ELSE 0
<1> USE VideoPipelineAssumption
<1>1. made \in Nat /\ lost \in Nat /\ tail \in BOOLEAN
  BY DEF CoreTypeOK
<1>2. CASE HasElement
  <2>1. /\ sources = made + SourceCount * 1
        /\ tails = TailCount * (1 + held) + lost /\ sinks = 1 + held
    BY <1>2 DEF EachIsOwned
  <2>2. /\ sources' = sources - SourceCount
        /\ tails' = tails - TailCount /\ sinks' = sinks - 1 /\ messages' = 0
    BY <1>2 DEF StopElement
  <2> QED BY <1>1, <2>1, <2>2
<1>3. CASE ~HasElement
  <2>1. /\ sources = made + SourceCount * 0
        /\ tails = TailCount * (0 + held) + lost /\ sinks = 0 + held
    BY <1>3 DEF EachIsOwned
  <2>2. sources' = sources /\ tails' = tails /\ sinks' = sinks /\ messages' = 0
    BY <1>3 DEF StopElement
  <2> QED BY <1>1, <2>1, <2>2
<1> QED BY <1>2, <1>3

\* A step that leaves the counts, the unique_ptrs and the ownership alone
\* keeps the counts right.
LEMMA CountsStay ==
  ASSUME EachIsOwned, UNCHANGED <<live, made, tail, lost>>,
         HasElement' = HasElement
  PROVE  EachIsOwned'
BY DEF EachIsOwned, live

\* Stopping the old pipeline and asking for a new one.
LEMMA RebuildBeginsIInv ==
  ASSUME IInv, NEW ep \in Endpoints, RebuildBegins(ep)
  PROVE  IInv'
<1> USE VideoPipelineAssumption
<1>1. made = 0 /\ tail = FALSE /\ lost \in Nat /\ UNCHANGED <<made, tail, lost>>
  BY DEF IInv, CoreTypeOK, LocalsInv, RebuildBegins
<1>2. sources' = 0 /\ tails' = lost /\ sinks' = 0 /\ messages' = 0
  BY <1>1, StopIsRight DEF IInv, RebuildBegins
<1>3. ~HasElement'
  BY DEF RebuildBegins, HasElement, IInv, CoreTypeOK, Players
<1>4. CoreTypeOK'
  BY <1>1, <1>2 DEF CoreTypeOK, IInv, RebuildBegins, Pipeline, NoPipeline, Players
<1>5. EachIsOwned'
  BY <1>1, <1>2, <1>3 DEF EachIsOwned
<1>6. LocalsInv'
  BY <1>1 DEF LocalsInv, RebuildBegins
<1>7. PlayerInv'
  BY DEF PlayerInv, RebuildBegins, Pipeline, NoPipeline, IInv, CoreTypeOK, Players
<1> QED BY <1>4, <1>5, <1>6, <1>7 DEF IInv

\* Creating the elements up to the queue before the tail.
LEMMA CreateElementsIInv ==
  ASSUME IInv, NEW n \in 0..SourceCount, CreateElements(n)
  PROVE  IInv'
<1> USE VideoPipelineAssumption
<1>1. made = 0 /\ ~HasElement /\ ~HasElement'
  BY DEF IInv, LocalsInv, PlayerInv, CreateElements, HasElement
<1>2. CoreTypeOK'
  BY DEF CoreTypeOK, IInv, CreateElements, history
<1>3. EachIsOwned'
  BY <1>1 DEF EachIsOwned, IInv, CoreTypeOK, CreateElements, history
<1>4. LocalsInv' /\ PlayerInv'
  BY DEF IInv, LocalsInv, PlayerInv, CreateElements, history
<1> QED BY <1>2, <1>3, <1>4 DEF IInv

\* With nothing owned, only what the build holds and what is lost counts.
LEMMA NothingOwned ==
  ASSUME ~HasElement', ~tail', made' \in Nat, lost' \in Nat,
         sources' = made', tails' = lost', sinks' = 0
  PROVE  EachIsOwned'
<1>1. (IF HasElement THEN 1 ELSE 0)' = 0 /\ (IF tail THEN 1 ELSE 0)' = 0
  OBVIOUS
<1>2. SourceCount * 0 = 0 /\ TailCount * (0 + 0) = 0
  BY VideoPipelineAssumption
<1>3. made' + SourceCount * 0 = made' /\ TailCount * (0 + 0) + lost' = lost'
  BY <1>2
<1> QED BY <1>1, <1>3 DEF EachIsOwned

\* The tail, whether or not there is one in the end.
LEMMA CreatePipelineTailIInv ==
  ASSUME IInv, CreatePipelineTail
  PROVE  IInv'
<1> USE VideoPipelineAssumption
<1>1. /\ tail = FALSE /\ ~HasElement /\ ~HasElement'
      /\ sources = made /\ tails = lost /\ sinks = 0
      /\ made \in 0..SourceCount /\ lost \in 0..MaxLost
      /\ sources' = sources /\ made' = made
  BY DEF IInv, CoreTypeOK, LocalsInv, PlayerInv, EachIsOwned, HasElement,
         CreatePipelineTail
<1>2. LocalsInv' /\ PlayerInv'
  BY DEF IInv, LocalsInv, PlayerInv, CreatePipelineTail
<1>3. CASE TailNotReady \/ TailNotLinked
  BY <1>1, <1>3 DEF TailNotReady, TailNotLinked, CoreTypeOK, EachIsOwned, IInv,
     CreatePipelineTail, LocalsInv, PlayerInv, HasElement
<1>4. CASE \E n \in 0..(TailCount - 1) : TailPartial(n)
  <2>1. PICK n \in 0..(TailCount - 1) : TailPartial(n)
    BY <1>4
  <2>2. /\ tails' = tails + n /\ lost' = lost + n /\ lost + n <= MaxLost
        /\ tail' = tail /\ sinks' = sinks
    BY <2>1 DEF TailPartial
  <2>3. lost' \in 0..MaxLost /\ tails' = lost' /\ sinks' = 0
    BY <1>1, <2>2
  <2>4. ~tail' /\ tail' \in BOOLEAN
    BY <1>1, <2>2
  <2>5. CoreTypeOK'
    BY <1>1, <2>3, <2>4 DEF IInv, CoreTypeOK, CreatePipelineTail
  <2>6. sources' = made' /\ made' \in Nat /\ lost' \in Nat
    BY <1>1, <2>3
  <2>7. EachIsOwned'
    BY <1>1, <2>3, <2>4, <2>6, NothingOwned
  <2> QED BY <1>2, <2>5, <2>7 DEF IInv
<1>5. CASE TailMade
  <2>1. tails' = TailCount + lost' /\ sinks' = 1 /\ lost' = lost
    BY <1>1, <1>5 DEF TailMade
  <2>2. /\ sources' \in Nat /\ tails' \in Nat /\ sinks' \in Nat
        /\ lost' \in 0..MaxLost
    BY <1>1, <2>1
  <2>3. tail' /\ tail' \in BOOLEAN
    BY <1>5 DEF TailMade
  <2>4. CoreTypeOK'
    BY <1>1, <2>2, <2>3 DEF IInv, CoreTypeOK, CreatePipelineTail
  <2>5. /\ sources' = made' + SourceCount * 0
        /\ tails' = TailCount * (0 + 1) + lost' /\ sinks' = 0 + 1
    BY <1>1, <2>1
  <2>6. EachIsOwned'
    BY <1>1, <2>3, <2>5 DEF EachIsOwned
  <2> QED BY <1>2, <2>4, <2>6 DEF IInv
<1> QED BY <1>3, <1>4, <1>5 DEF CreatePipelineTail

\* With an error all that was made is freed.
LEMMA ErrorsIInv ==
  ASSUME IInv, BuildFails \/ LinkFails
  PROVE  IInv'
<1> USE VideoPipelineAssumption
<1>0. step \in {"link", "linking"} /\ player' = player
  BY DEF BuildFails, LinkFails
<1>1. /\ ~HasElement /\ ~HasElement'
      /\ made \in 0..SourceCount /\ lost \in 0..MaxLost /\ tail \in BOOLEAN
      /\ sources = made
      /\ tails = TailCount * (IF tail THEN 1 ELSE 0) + lost
      /\ sinks = IF tail THEN 1 ELSE 0
  <2>1. ~HasElement /\ ~HasElement'
    BY <1>0 DEF IInv, PlayerInv, HasElement
  <2> QED BY <2>1 DEF IInv, CoreTypeOK, EachIsOwned
<1>2. /\ made' = 0 /\ tail' = FALSE /\ lost' = lost
      /\ sources' = 0 /\ tails' = lost /\ sinks' = 0
  BY <1>1 DEF BuildFails, LinkFails, FreeLocals
<1>3. CoreTypeOK'
  <2>1. /\ sources' \in Nat /\ tails' \in Nat /\ sinks' \in Nat
        /\ made' \in 0..SourceCount /\ lost' \in 0..MaxLost
    BY <1>1, <1>2
  <2>2. tail' \in BOOLEAN
    BY <1>2
  <2>3. /\ step' \in {"idle", "undefined"} /\ building' = None
        /\ result' \in {"failed", result}
        /\ UNCHANGED <<player, messages, window, calm, before>>
    BY DEF BuildFails, LinkFails, Throws
  <2> QED BY <2>1, <2>2, <2>3 DEF IInv, CoreTypeOK
<1>4. EachIsOwned'
  BY <1>1, <1>2 DEF EachIsOwned
<1>5. LocalsInv' /\ PlayerInv'
  <2>1. step' \in {"idle", "undefined"} /\ before' = before
    BY DEF BuildFails, LinkFails, Throws
  <2> QED BY <1>0, <1>2, <2>1 DEF IInv, LocalsInv, PlayerInv
<1> QED BY <1>3, <1>4, <1>5 DEF IInv

\* The bin has the elements, which the unique_ptrs hold as before.
LEMMA AddToBinIInv ==
  ASSUME IInv, AddToBin
  PROVE  IInv'
<1>1. /\ UNCHANGED <<building, made, tail, player, sources, tails, sinks, messages,
                     result, window, calm, lost, before>>
      /\ step = "link" /\ step' = "linking" /\ Complete
  BY DEF AddToBin, locals, live, history
<1>2. HasElement' = HasElement
  BY <1>1 DEF HasElement
<1>3. CoreTypeOK'
  BY <1>1 DEF IInv, CoreTypeOK
<1>4. EachIsOwned'
  BY <1>1, <1>2, CountsStay DEF IInv, live
<1>5. LocalsInv' /\ PlayerInv'
  BY <1>1 DEF IInv, LocalsInv, PlayerInv, Complete
<1> QED BY <1>3, <1>4, <1>5 DEF IInv

\* The elements change hands.
LEMMA BuiltIInv ==
  ASSUME IInv, Built
  PROVE  IInv'
<1> USE VideoPipelineAssumption
<1>1. /\ ~HasElement /\ made = SourceCount /\ tail = TRUE
      /\ sources = SourceCount /\ tails = TailCount + lost /\ sinks = 1
      /\ lost \in 0..MaxLost /\ building \in Endpoints
  BY DEF IInv, CoreTypeOK, LocalsInv, PlayerInv, EachIsOwned, HasElement,
         Built, Complete
<1>2. /\ made' = 0 /\ tail' = FALSE /\ UNCHANGED <<live, lost, building>>
      /\ player' = [ep |-> building, element |-> "stopped"]
  BY DEF Built, history
<1>3. player' \in Players /\ player' # None
  BY <1>1, <1>2 DEF Players
<1>4. HasElement'
  BY <1>2, <1>3 DEF HasElement
<1>5. CoreTypeOK'
  <2>1. tail' \in BOOLEAN /\ UNCHANGED <<sources, tails, sinks, lost, building>>
    BY <1>2 DEF live
  <2>2. made' \in 0..SourceCount
    BY <1>2
  <2>3. /\ step' = "play" /\ UNCHANGED <<messages, result, window, calm, before>>
    BY DEF Built, history
  <2> QED BY <1>3, <2>1, <2>2, <2>3 DEF IInv, CoreTypeOK
<1>6. EachIsOwned'
  BY <1>1, <1>2, <1>4 DEF EachIsOwned, live
<1>7. LocalsInv' /\ PlayerInv'
  BY <1>1, <1>2 DEF LocalsInv, PlayerInv, Built
<1> QED BY <1>5, <1>6, <1>7 DEF IInv

\* The new pipeline is told to play.
LEMMA PlayIInv ==
  ASSUME IInv, Played \/ PlayFails
  PROVE  IInv'
<1> USE VideoPipelineAssumption
<1>1. /\ player = [ep |-> building, element |-> "stopped"]
      /\ building \in Endpoints /\ made = 0 /\ tail = FALSE
  BY DEF IInv, CoreTypeOK, LocalsInv, PlayerInv, Played, PlayFails
<1>2. player \in Players /\ player # None
  BY <1>1 DEF Players
<1>3. player' \in Players /\ player' # None /\ player'.element # "gone"
  BY <1>1, <1>2 DEF Played, PlayFails, Players
<1>4. HasElement /\ HasElement'
  BY <1>1, <1>2, <1>3 DEF HasElement
<1>5. UNCHANGED <<live, made, tail, lost>>
  BY DEF Played, PlayFails, history
<1>6. EachIsOwned'
  BY <1>4, <1>5, CountsStay DEF IInv
<1>7. CoreTypeOK'
  BY <1>3, <1>5 DEF IInv, CoreTypeOK, Played, PlayFails, Throws, DrainBusMessages, history, live
<1>8. LocalsInv' /\ PlayerInv'
  BY <1>1, <1>5 DEF LocalsInv, PlayerInv, Played, PlayFails, Throws
<1> QED BY <1>6, <1>7, <1>8 DEF IInv

\* Video/Controller::Stop.
LEMMA DropIInv ==
  ASSUME IInv, Drop
  PROVE  IInv'
<1> USE VideoPipelineAssumption
<1>1. made = 0 /\ tail = FALSE /\ lost \in Nat /\ UNCHANGED <<made, tail, lost>>
  BY DEF IInv, CoreTypeOK, LocalsInv, Drop, locals, history
<1>2. sources' = 0 /\ tails' = lost /\ sinks' = 0 /\ messages' = 0
  BY <1>1, StopIsRight DEF IInv, Drop
<1>3. ~HasElement'
  BY DEF Drop, HasElement
<1>4. CoreTypeOK'
  BY <1>1, <1>2 DEF CoreTypeOK, IInv, Drop, locals, history
<1>5. EachIsOwned'
  BY <1>1, <1>2, <1>3 DEF EachIsOwned
<1>6. LocalsInv' /\ PlayerInv'
  BY <1>1 DEF LocalsInv, PlayerInv, Drop
<1> QED BY <1>4, <1>5, <1>6 DEF IInv

\* Steps of the surroundings: no element is made or freed.
LEMMA SurroundingsIInv ==
  ASSUME IInv, PollBus \/ StreamFails \/ WindowChanges \/ GetsCalm
  PROVE  IInv'
<1> USE VideoPipelineAssumption
<1>1. UNCHANGED <<live, made, tail, lost, step, building, before>>
  BY DEF PollBus, StreamFails, WindowChanges, GetsCalm, locals, history
<1>2. \/ player' = player
      \/ StreamFails /\ player' = [player EXCEPT !.element = "stopped"]
  BY DEF PollBus, StreamFails, WindowChanges, GetsCalm
<1>3. StreamFails => player \in Players /\ player.element = "playing"
  BY DEF StreamFails, IsRunning, IInv, CoreTypeOK
<1>4. player' \in Players \cup {None} /\ HasElement' = HasElement
  BY <1>2, <1>3 DEF IInv, CoreTypeOK, Players, HasElement
<1>5. EachIsOwned'
  BY <1>1, <1>4, CountsStay DEF IInv
<1>6. messages' \in 0..MaxMessages
  BY DEF IInv, CoreTypeOK, PollBus, StreamFails, WindowChanges, GetsCalm,
         DrainBusMessages
<1>7. CoreTypeOK'
  <2>1. /\ window' \in {"none", "hidden", "exposed"} /\ calm' \in BOOLEAN
        /\ result' = result
    BY DEF IInv, CoreTypeOK, PollBus, StreamFails, WindowChanges, GetsCalm
  <2>2. UNCHANGED <<sources, tails, sinks>>
    BY <1>1 DEF live
  <2> QED BY <1>1, <1>4, <1>6, <2>1, <2>2 DEF IInv, CoreTypeOK
<1>8. LocalsInv'
  BY <1>1 DEF IInv, LocalsInv, Complete
<1>9. PlayerInv'
  BY <1>1, <1>2, <1>3 DEF IInv, PlayerInv
<1> QED BY <1>5, <1>7, <1>8, <1>9 DEF IInv

\* Every step keeps the invariant.
LEMMA NextIInv == IInv /\ [Next]_vars => IInv'
<1> SUFFICES ASSUME IInv, [Next]_vars PROVE IInv'
  OBVIOUS
<1>1. CASE \E ep \in Endpoints : RebuildBegins(ep)
  BY <1>1, RebuildBeginsIInv
<1>2. CASE BuildStep
  BY <1>2, CreateElementsIInv, CreatePipelineTailIInv, ErrorsIInv, AddToBinIInv, BuiltIInv,
     PlayIInv DEF BuildStep
<1>3. CASE Drop
  BY <1>3, DropIInv
<1>4. CASE PollBus \/ StreamFails \/ WindowChanges \/ GetsCalm
  BY <1>4, SurroundingsIInv
<1>5. CASE UNCHANGED vars
  BY <1>5 DEF vars, locals, live, history, IInv, CoreTypeOK, EachIsOwned,
     LocalsInv, PlayerInv, HasElement, Complete
<1> QED BY <1>1, <1>2, <1>3, <1>4, <1>5 DEF Next

\* The invariant holds throughout.
THEOREM PipelineInvariant == Spec => []IInv
BY InitIInv, NextIInv, PTL DEF Spec

-----------------------------------------------------------------------------
\* While an element has two owners there are elements, so that a link which
\* fails then has them released twice; every other step releases what has one.
LEMMA OwnersStep == IInv /\ OwnersInv /\ [Next]_vars => OwnersInv'
<1> SUFFICES ASSUME IInv, OwnersInv, [Next]_vars PROVE OwnersInv'
  OBVIOUS
<1>1. CASE BuildFails
  BY <1>1 DEF BuildFails, FreeLocals, OwnedByBoth, OwnersInv
<1>2. CASE LinkFails
  <2>1. made > 0
    BY <1>2, VideoPipelineAssumption DEF IInv, LocalsInv, Complete, LinkFails
  <2>2. linkFailed' = TRUE /\ releasedTwice' = TRUE
    BY <1>2, <2>1 DEF LinkFails, FreeLocals, OwnedByBoth
  <2> QED BY <2>2 DEF OwnersInv
<1>3. CASE UNCHANGED owners
  BY <1>3 DEF owners, OwnersInv
<1>4. ~BuildFails /\ ~LinkFails => UNCHANGED owners
  BY DEF Next, BuildStep, RebuildBegins, CreateElements, CreatePipelineTail, AddToBin,
         Built, Played, PlayFails, Drop, PollBus, StreamFails, WindowChanges, GetsCalm,
         vars, history
<1> QED BY <1>1, <1>2, <1>3, <1>4

THEOREM OwnersInvariant == Spec => []OwnersInv
<1>1. Init => OwnersInv
  BY DEF Init, OwnersInv
<1> QED BY <1>1, OwnersStep, PipelineInvariant, PTL DEF Spec

-----------------------------------------------------------------------------
\* Every variable of a build keeps its type; what a step takes off the counts
\* of live elements was counted.
THEOREM PipelineTypeCorrect == Spec => []TypeOK
<1>1. IInv /\ OwnersInv => TypeOK
  <2> SUFFICES ASSUME IInv, OwnersInv PROVE TypeOK
    OBVIOUS
  <2>1. linkFailed \in BOOLEAN /\ releasedTwice \in BOOLEAN
    BY DEF OwnersInv
  <2> QED BY <2>1, Zenon DEF IInv, CoreTypeOK, TypeOK
<1> QED BY <1>1, PipelineInvariant, OwnersInvariant, PTL

\* Every live element is owned, except those of unfinished tails, and none is
\* released by two owners but those of a link that failed, after any sequence
\* of failed and successful builds.
THEOREM OnlyTailsLose == Spec => []NothingElseIsLost
<1>1. IInv /\ OwnersInv => NothingElseIsLost
  BY DEF IInv, OwnersInv, NothingElseIsLost
<1> QED BY <1>1, PipelineInvariant, OwnersInvariant, PTL

\* The QML item never has two sinks.
THEOREM NeverTwoSinks == Spec => []OneSinkOnItem
<1>1. IInv => OneSinkOnItem
  BY DEF IInv, CoreTypeOK, EachIsOwned, LocalsInv, PlayerInv, OneSinkOnItem,
         HasElement
<1> QED BY <1>1, PipelineInvariant, PTL

-----------------------------------------------------------------------------
(* A rebuild is one step of VideoPlayer, taken where it returns.            *)

LEMMA PlayerInit == Init => Player!Init
BY DEF Init, Player!Init, Pipeline, NoPipeline, Player!NoPipeline

\* A rebuild that ends in an exception or a pipeline that will not play.
LEMMA FailureRefines ==
  ASSUME IInv, BuildFails \/ PlayFails \/ (LinkFails /\ Throws)
  PROVE  Player!RebuildFailed(building)
<1>1. /\ step # "idle" /\ step' = "idle" /\ UNCHANGED <<player, before>>
      /\ result' = "failed"
  BY DEF BuildFails, PlayFails, LinkFails, Throws, history
<1>2. player' = None => before = NoPipeline /\ Pipeline' = NoPipeline
  BY <1>1, VideoPipelineAssumption DEF IInv, PlayerInv, LocalsInv, BuildFails,
     LinkFails, PlayFails, Pipeline, Players
<1>3. CASE player = None
  BY <1>1, <1>2, <1>3 DEF Player!RebuildFailed, Player!NoPipeline, NoPipeline
<1>4. CASE player # None /\ (BuildFails \/ LinkFails)
  <2>1. /\ player.element = "gone" /\ before.ep = player.ep
        /\ before.state \in {"running", "stopped"}
    BY <1>4 DEF IInv, PlayerInv, BuildFails, LinkFails
  <2>2. Pipeline' = [state |-> "stopped", ep |-> player.ep]
    BY <1>1, <1>4, <2>1 DEF Pipeline, IsRunning
  <2>3. /\ before # NoPipeline
        /\ [before EXCEPT !.state = "stopped"] = [state |-> "stopped", ep |-> player.ep]
    BY <2>1 DEF IInv, CoreTypeOK, NoPipeline
  <2> QED BY <1>1, <2>2, <2>3 DEF Player!RebuildFailed, Player!NoPipeline, NoPipeline
<1>5. CASE player # None /\ PlayFails
  <2>1. player = [ep |-> building, element |-> "stopped"]
    BY <1>5 DEF IInv, PlayerInv, PlayFails
  <2>2. Pipeline' = [state |-> "stopped", ep |-> building]
    BY <1>1, <1>5, <2>1 DEF Pipeline, IsRunning
  <2> QED BY <1>1, <2>2 DEF Player!RebuildFailed
<1> QED BY <1>3, <1>4, <1>5

\* A rebuild that returns with a pipeline told to play.
LEMMA SuccessRefines ==
  ASSUME IInv, Played
  PROVE  Player!Rebuilt(building)
<1>1. /\ player = [ep |-> building, element |-> "stopped"] /\ building \in Endpoints
      /\ step = "play" /\ step' = "idle" /\ result' = "ok"
      /\ player' = [player EXCEPT !.element = "playing"]
  BY DEF IInv, PlayerInv, LocalsInv, Played
<1>2. player' = [ep |-> building, element |-> "playing"] /\ player' \in Players
  BY <1>1 DEF Players
<1>3. Pipeline' = [state |-> "running", ep |-> building]
  BY <1>2, VideoPipelineAssumption DEF Pipeline, IsRunning
<1> QED BY <1>1, <1>3 DEF Player!Rebuilt

\* The other steps of a build are not seen.
LEMMA BuildingStutters ==
  ASSUME IInv,
         \/ \E ep \in Endpoints : RebuildBegins(ep)
         \/ \E n \in 0..SourceCount : CreateElements(n)
         \/ CreatePipelineTail \/ AddToBin \/ Built
         \/ LinkFails /\ step' = "undefined"
  PROVE  UNCHANGED Player!playerVars
BY DEF RebuildBegins, CreateElements, CreatePipelineTail, AddToBin, LinkFails, Throws,
       Built, history, Player!playerVars

LEMMA DropRefines ==
  ASSUME IInv, Drop
  PROVE  Player!Stop
BY DEF Drop, Player!Stop, Pipeline, NoPipeline, Player!NoPipeline, locals

\* A stream that fails ends the pipeline, or is not seen.
LEMMA StreamFailsRefines ==
  ASSUME IInv, StreamFails
  PROVE  Player!Ends \/ UNCHANGED Player!playerVars
<1>1. /\ step = "idle" /\ step' = "idle" /\ result' = result
      /\ player \in Players /\ player # None /\ player.element = "playing"
  BY VideoPipelineAssumption DEF StreamFails, IsRunning, IInv, CoreTypeOK, LocalsInv,
     PlayerInv, locals, Players
<1>2. Pipeline = [state |-> "running", ep |-> player.ep]
  BY <1>1 DEF Pipeline, IsRunning
<1>3. CASE player' = player
  BY <1>1, <1>3 DEF Pipeline, IsRunning, Player!playerVars
<1>4. CASE player' = [player EXCEPT !.element = "stopped"]
  <2>1. player' \in Players /\ player'.element = "stopped" /\ player'.ep = player.ep
    BY <1>1, <1>4 DEF Players
  <2>2. Pipeline' = [state |-> "stopped", ep |-> player.ep]
    BY <2>1, VideoPipelineAssumption DEF Pipeline, IsRunning
  <2> QED BY <1>1, <1>2, <2>2 DEF Player!Ends
<1> QED BY <1>3, <1>4 DEF StreamFails

LEMMA PlayerNext ==
  IInv /\ [Next]_vars => [Player!Next]_(Player!playerVars)
<1> SUFFICES ASSUME IInv, [Next]_vars
             PROVE  Player!Next \/ UNCHANGED Player!playerVars
  OBVIOUS
<1>1. CASE (\E ep \in Endpoints : RebuildBegins(ep))
           \/ (\E n \in 0..SourceCount : CreateElements(n))
           \/ CreatePipelineTail \/ AddToBin \/ Built
           \/ (LinkFails /\ step' = "undefined")
  BY <1>1, BuildingStutters
<1>2. CASE BuildFails \/ PlayFails \/ (LinkFails /\ Throws)
  <2>1. building \in Endpoints
    BY <1>2 DEF IInv, LocalsInv, BuildFails, LinkFails, PlayFails
  <2> QED BY <1>2, <2>1, FailureRefines DEF Player!Next
<1>3. CASE Played
  <2>1. building \in Endpoints
    BY <1>3 DEF IInv, LocalsInv, Played
  <2> QED BY <1>3, <2>1, SuccessRefines DEF Player!Next
<1>4. CASE Drop
  BY <1>4, DropRefines DEF Player!Next
<1>5. CASE StreamFails
  BY <1>5, StreamFailsRefines DEF Player!Next
<1>6. CASE PollBus \/ WindowChanges \/ GetsCalm \/ UNCHANGED vars
  BY <1>6 DEF PollBus, WindowChanges, GetsCalm, vars, locals, history,
     Player!playerVars, Pipeline, IsRunning
<1>7. LinkFails => Throws \/ step' = "undefined"
  BY DEF LinkFails
<1> QED BY <1>1, <1>2, <1>3, <1>4, <1>5, <1>6, <1>7 DEF Next, BuildStep

\* What the video controller assumes of a rebuild is what the elements of
\* GStreamer are made to do.
THEOREM PipelineImplementsPlayer == Spec => ImplementsPlayer
<1> USE DEF Player!Spec
<1> QED BY PlayerInit, PlayerNext, PipelineInvariant, PTL
        DEF Spec, ImplementsPlayer, Player!Spec
=============================================================================
