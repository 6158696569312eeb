--------------------------- MODULE MCVideoPipeline ---------------------------
(* Instances of VideoPipeline for TLC. *)
EXTENDS VideoPipeline
=============================================================================
