----------------------------- MODULE VideoPlayer -----------------------------
(***************************************************************************)
(* What Video/Controller relies on when it has a pipeline rebuilt, whoever *)
(* implements IPipelineBuilder and IPipeline: the answer says whether the  *)
(* new pipeline was told to play, and a rebuild that failed leaves nothing *)
(* behind that still plays.  VideoController makes its own steps from      *)
(* these (PipelineRebuilt, RebuildFailed, PipelineEnds, Stop).             *)
(***************************************************************************)
CONSTANTS
  Endpoints,  (* receive endpoints                                          *)
  None        (* an absent value                                            *)

VARIABLES
  pipeline,   (* whether it runs, and the endpoint it was built for         *)
  result      (* what the last RebuildPipeline returned, or None            *)

playerVars == <<pipeline, result>>

NoPipeline == [state |-> "none", ep |-> None]

Init == pipeline = NoPipeline /\ result = None

\* It may stop as soon as it was told to play.
Rebuilt(ep) ==
  /\ pipeline' \in [state : {"running", "stopped"}, ep : {ep}]
  /\ result' = "ok"

\* The pipeline is the old one, stopped, or the new one, which does not play.
RebuildFailed(ep) ==
  /\ \/ pipeline' = [state |-> "stopped", ep |-> ep]
     \/ pipeline = NoPipeline /\ pipeline' = NoPipeline
     \/ pipeline # NoPipeline /\ pipeline' = [pipeline EXCEPT !.state = "stopped"]
  /\ result' = "failed"

Ends ==
  /\ pipeline.state = "running"
  /\ pipeline' = [pipeline EXCEPT !.state = "stopped"]
  /\ UNCHANGED result

Stop == pipeline' = NoPipeline /\ UNCHANGED result

Next ==
  \/ \E ep \in Endpoints : Rebuilt(ep) \/ RebuildFailed(ep)
  \/ Ends
  \/ Stop

Spec == Init /\ [][Next]_playerVars
=============================================================================
