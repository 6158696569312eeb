---------------------------- MODULE VideoPipeline ----------------------------
(***************************************************************************)
(* Video/Controller::RebuildPipeline down to the elements of GStreamer: on *)
(* the controller thread the old pipeline is stopped, the elements of the  *)
(* new one are created, the GUI thread is asked for a tail that paints on  *)
(* the QML item, all is linked and told to play.  RtpPipeline and          *)
(* FakePipeline differ in the number of elements; the tails of Windows and *)
(* Linux in their names.                                                   *)
(*                                                                         *)
(* Who owns an element changes on the way (unique_ptr, raw pointer, bin,   *)
(* pipeline object), and every step may fail, again at every retry.  Live  *)
(* elements are counted.  GStreamer was initialised by main before any     *)
(* pipeline is built (main returns otherwise).                             *)
(*                                                                         *)
(* The bin of the new pipeline owns the elements as soon as they are added *)
(* to it, and the unique_ptrs let go of them only when all are linked.  If *)
(* a link fails in between, both release them.  What comes of that is not  *)
(* the station's to say: GStreamer may keep an element that still has a    *)
(* parent until the parent releases it, or it is freed twice and the model *)
(* ends (step "undefined"), as nothing can be said of what follows.        *)
(***************************************************************************)
EXTENDS Naturals

CONSTANTS
  Endpoints,    (* receive endpoints                                        *)
  SourceCount,  (* elements from the source to the queue before the tail    *)
  TailCount,    (* elements of a tail, the sink among them                  *)
  MaxLost,      (* bound on the elements that are lost                      *)
  MaxMessages,  (* bound on the messages on the bus                         *)
  None          (* an absent value                                          *)

Players == [ep : Endpoints, element : {"gone", "stopped", "playing"}]

ASSUME VideoPipelineAssumption ==
  /\ SourceCount \in Nat \ {0} /\ TailCount \in Nat \ {0}
  /\ MaxLost \in Nat /\ MaxMessages \in Nat
  /\ None \notin Endpoints \cup Players

VARIABLES
  step,      (* what RebuildPipeline does next, "idle" or "undefined"       *)
  building,  (* the endpoint it builds for                                  *)
  player,    (* m_Pipeline: its endpoint and what became of its element     *)
  made,      (* elements held by unique_ptrs of BuildPipeline               *)
  tail,      (* whether a finished tail is held by one                      *)
  sources,   (* live elements up to the queue                               *)
  tails,     (* live elements of tails                                      *)
  sinks,     (* live sinks that paint on the QML item                       *)
  messages,  (* messages on the bus of the pipeline                         *)
  result,    (* what the last RebuildPipeline returned, or None             *)
  window,    (* the window of the QML item, as the GUI thread sees it       *)
  calm,      (* nothing fails any more                                      *)
  lost,      (* elements no one will ever free (history)                    *)
  before,    (* the pipeline the controller had before this rebuild         *)
             (* (history)                                                   *)
  linkFailed,    (* a link between elements has failed (history)            *)
  releasedTwice  (* an element was released by two owners (history)         *)

locals == <<building, made, tail>>
live == <<sources, tails, sinks>>
owners == <<linkFailed, releasedTwice>>
history == <<lost, before, owners>>
vars == <<step, locals, player, live, messages, result, window, calm, history>>

NoPipeline == [state |-> "none", ep |-> None]

\* IsRunning: in PLAYING or on the way there.
IsRunning == player # None /\ player.element = "playing"

\* What the controller can tell of its pipeline.
Pipeline ==
  IF player = None THEN NoPipeline
  ELSE [state |-> IF IsRunning THEN "running" ELSE "stopped", ep |-> player.ep]

HasElement == player # None /\ player.element # "gone"

Init ==
  /\ step = "idle" /\ building = None
  /\ player = None
  /\ made = 0 /\ tail = FALSE
  /\ sources = 0 /\ tails = 0 /\ sinks = 0
  /\ messages = 0
  /\ result = None
  /\ window = "none"
  /\ calm = FALSE
  /\ lost = 0 /\ before = NoPipeline
  /\ linkFailed = FALSE /\ releasedTwice = FALSE

-----------------------------------------------------------------------------
\* Messages are logged, whatever they say, and forgotten.
DrainBusMessages == messages' = 0

\* GstreamerPipeline::Stop: the element goes to NULL and is dropped, which
\* frees all it contains, and its bus.
StopElement ==
  /\ sources' = IF HasElement THEN sources - SourceCount ELSE sources
  /\ tails' = IF HasElement THEN tails - TailCount ELSE tails
  /\ sinks' = IF HasElement THEN sinks - 1 ELSE sinks
  /\ messages' = 0

\* Mutant: the old pipeline goes on until the new one replaces it.
RebuildBegins_OldPlaysOn(ep) ==
  /\ step = "idle"
  /\ step' = "elements" /\ building' = ep
  /\ before' = Pipeline
  /\ UNCHANGED <<player, made, tail, live, messages, result, window, calm, lost, owners>>

RebuildBegins(ep) ==
  /\ step = "idle"
  /\ step' = "elements" /\ building' = ep
  /\ StopElement
  /\ player' = IF player = None THEN None ELSE [player EXCEPT !.element = "gone"]
  /\ before' = Pipeline
  /\ UNCHANGED <<made, tail, result, window, calm, lost, owners>>

\* A factory GStreamer does not have gives no element; the tail is asked for
\* all the same.
CreateElements(n) ==
  /\ step = "elements"
  /\ calm => n = SourceCount
  /\ step' = "tail"
  /\ made' = n
  /\ sources' = sources + n
  /\ UNCHANGED <<building, player, tail, tails, sinks, messages, result, window, calm,
                 history>>

-----------------------------------------------------------------------------
(* The tail, made on the GUI thread while the controller thread waits.     *)

\* Mutant: an exposed window may have to be active as well.
TailNotReady_Inactive == UNCHANGED <<tail, tails, sinks, lost>>

\* The item has no window yet, or one that is not exposed.
TailNotReady ==
  /\ window # "exposed"
  /\ UNCHANGED <<tail, tails, sinks, lost>>

\* n elements were made, another was not: the empty bin is freed, they are not.
TailPartial(n) ==
  /\ window = "exposed" /\ ~calm
  /\ lost + n <= MaxLost
  /\ tails' = tails + n
  /\ lost' = lost + n
  /\ UNCHANGED <<tail, sinks>>

\* All were made and put into the bin, which is freed with them.
TailNotLinked ==
  /\ window = "exposed" /\ ~calm
  /\ UNCHANGED <<tail, tails, sinks, lost>>

TailMade ==
  /\ window = "exposed"
  /\ tail' = TRUE
  /\ tails' = tails + TailCount
  /\ sinks' = sinks + 1
  /\ UNCHANGED lost

CreatePipelineTail ==
  /\ step = "tail"
  /\ step' = "link"
  /\ \/ TailNotReady
     \/ \E n \in 0..(TailCount - 1) : TailPartial(n)
     \/ TailNotLinked
     \/ TailMade
  /\ UNCHANGED <<building, player, made, sources, messages, result, window, calm,
                 before, owners>>

-----------------------------------------------------------------------------
\* From gst_bin_add_many until ReleaseOwnership an element has two owners: the
\* bin, which took its only reference, and a unique_ptr.
OwnedByBoth == step = "linking"

\* The deleters of the unique_ptrs.  What the bin owns too it releases again
\* as it goes with the pipeline.
FreeLocals ==
  /\ sources' = sources - made
  /\ tails' = IF tail THEN tails - TailCount ELSE tails
  /\ sinks' = IF tail THEN sinks - 1 ELSE sinks
  /\ made' = 0 /\ tail' = FALSE
  /\ releasedTwice' = (releasedTwice \/ (OwnedByBoth /\ made > 0))

\* The constructor throws, and the controller keeps its old pipeline.
Throws == step' = "idle" /\ result' = "failed"

Complete == made = SourceCount /\ tail

\* Something is missing, or the caps of the source cannot be made.
BuildFails ==
  /\ step = "link"
  /\ Complete => ~calm
  /\ FreeLocals
  /\ Throws
  /\ building' = None
  /\ UNCHANGED <<player, messages, window, calm, lost, before, linkFailed>>

AddToBin ==
  /\ step = "link"
  /\ Complete
  /\ step' = "linking"
  /\ UNCHANGED <<locals, player, live, messages, result, window, calm, history>>

\* GStreamer bears the release by two owners, or it does not.
LinkFails ==
  /\ step = "linking" /\ ~calm
  /\ FreeLocals
  /\ linkFailed' = TRUE
  /\ \/ Throws
     \/ step' = "undefined" /\ UNCHANGED result
  /\ building' = None
  /\ UNCHANGED <<player, messages, window, calm, lost, before>>

\* Mutant: one unique_ptr, that of the tail, is not made to let go.
Built_KeepsTail ==
  /\ step = "linking"
  /\ step' = "play"
  /\ player' = [ep |-> building, element |-> "stopped"]
  /\ made' = 0 /\ tail' = FALSE
  /\ releasedTwice' = TRUE
  /\ UNCHANGED <<building, live, messages, result, window, calm, lost, before,
                 linkFailed>>

\* All is linked and the unique_ptrs let go: the elements belong to the
\* pipeline, the pipeline to the controller.
Built ==
  /\ step = "linking"
  /\ step' = "play"
  /\ player' = [ep |-> building, element |-> "stopped"]
  /\ made' = 0 /\ tail' = FALSE
  /\ UNCHANGED <<building, live, messages, result, window, calm, history>>

Played ==
  /\ step = "play"
  /\ player' = [player EXCEPT !.element = "playing"]
  /\ step' = "idle" /\ result' = "ok" /\ building' = None
  /\ UNCHANGED <<made, tail, live, messages, window, calm, history>>

\* The bus is drained, the pipeline kept as it is; the rebuild has failed.
PlayFails ==
  /\ step = "play" /\ ~calm
  /\ DrainBusMessages
  /\ Throws
  /\ building' = None
  /\ UNCHANGED <<player, made, tail, live, window, calm, history>>

BuildStep ==
  \/ \E n \in 0..SourceCount : CreateElements(n)
  \/ CreatePipelineTail
  \/ BuildFails \/ AddToBin \/ LinkFails \/ Built
  \/ Played \/ PlayFails

-----------------------------------------------------------------------------
(* Around the build.                                                       *)

\* Video/Controller::Stop.
Drop ==
  /\ step = "idle" /\ player # None
  /\ StopElement
  /\ player' = None
  /\ UNCHANGED <<step, locals, result, window, calm, history>>

\* A tick of the controller begins.
PollBus ==
  /\ step = "idle" /\ HasElement
  /\ DrainBusMessages
  /\ UNCHANGED <<step, locals, player, live, result, window, calm, history>>

\* An element fails; the pipeline leaves PLAYING with it or stays there.
StreamFails ==
  /\ IsRunning /\ ~calm
  /\ messages < MaxMessages
  /\ messages' = messages + 1
  /\ player' \in {player, [player EXCEPT !.element = "stopped"]}
  /\ UNCHANGED <<step, locals, live, result, window, calm, history>>

WindowChanges ==
  /\ ~calm
  /\ window' \in {"none", "hidden", "exposed"}
  /\ UNCHANGED <<step, locals, player, live, messages, result, calm, history>>

GetsCalm ==
  /\ window = "exposed"
  /\ calm' = TRUE
  /\ UNCHANGED <<step, locals, player, live, messages, result, window, history>>

\* A tick of the controller with a pipeline that does not run.
Retry == ~IsRunning /\ \E ep \in Endpoints : RebuildBegins(ep)

Next ==
  \/ \E ep \in Endpoints : RebuildBegins(ep)
  \/ BuildStep
  \/ Drop \/ PollBus
  \/ StreamFails \/ WindowChanges \/ GetsCalm

Spec == Init /\ [][Next]_vars

\* Calls return, the GUI thread serves its queue, and the controller tries
\* again while its pipeline does not run.
FairSpec == Spec /\ WF_vars(BuildStep) /\ WF_vars(Retry)

-----------------------------------------------------------------------------
(* Properties.                                                             *)

TypeOK ==
  /\ step \in {"idle", "elements", "tail", "link", "linking", "play", "undefined"}
  /\ building \in Endpoints \cup {None}
  /\ player \in Players \cup {None}
  /\ made \in 0..SourceCount /\ tail \in BOOLEAN
  /\ sources \in Nat /\ tails \in Nat /\ sinks \in Nat
  /\ messages \in 0..MaxMessages
  /\ result \in {"ok", "failed", None}
  /\ window \in {"none", "hidden", "exposed"}
  /\ calm \in BOOLEAN
  /\ lost \in 0..MaxLost
  /\ before \in [state : {"none", "stopped", "running"}, ep : Endpoints \cup {None}]
  /\ linkFailed \in BOOLEAN /\ releasedTwice \in BOOLEAN

\* Two sinks never paint on the one QML item, whichever step of whichever
\* retry failed: the old pipeline is gone before the new tail is made.
OneSinkOnItem == sinks <= 1

EachIsOwned ==
  LET owned == IF HasElement THEN 1 ELSE 0
      held == IF tail THEN 1 ELSE 0
  IN
  /\ sources = made + SourceCount * owned
  /\ tails = TailCount * (owned + held) + lost
  /\ sinks = owned + held

\* Every live element is held by the build under way or by the pipeline of
\* the controller, but for those a tail lost before all of its elements were
\* made; no other failure leaks.  And an element is released by one owner
\* alone, whatever fails, unless it is a link between the elements: then they
\* are in the bin and in the unique_ptrs, and both release them.
NothingElseIsLost ==
  /\ step # "undefined" => EachIsOwned
  /\ releasedTwice <=> linkFailed

\* To the controller a rebuild is one step, with the answers VideoPlayer says.
Player == INSTANCE VideoPlayer WITH
  pipeline <- IF step = "idle" THEN Pipeline ELSE before

ImplementsPlayer == Player!Spec

\* Once the window is exposed and nothing fails any more, the retries end with
\* a pipeline that runs, whatever failed before them, unless it was a link and
\* what two owners released was freed twice.
Heals == calm ~> IsRunning \/ step = "undefined"
=============================================================================
