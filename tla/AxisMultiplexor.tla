--------------------------- MODULE AxisMultiplexor ---------------------------
(***************************************************************************)
(* Input/AxisMultiplexor: the axis that the rest of the station reads.  It *)
(* has a source for every device the input is bound for, remembers what    *)
(* each of them read when it last looked, and gives the reading of the one *)
(* in charge, the source that was last seen to move.                       *)
(*                                                                         *)
(* KeyMultiplexor is this with key states for fractions.                   *)
(***************************************************************************)
EXTENDS Naturals, SequencesExt

CONSTANTS
  Neutral,        (* the reading of an axis nobody moves                    *)
  NoSource        (* no source                                              *)

VARIABLES
  sources,        (* m_Sources, in the order keyboard, gamepad              *)
  lastValues,     (* m_LastValues                                           *)
  authority,      (* m_AuthoritativeSourceIndex, from 1                     *)
  value           (* m_Value                                                *)

muxVars == <<sources, lastValues, authority, value>>

InCharge == IF authority \in DOMAIN sources THEN sources[authority] ELSE NoSource

\* Mutant: the index of the source in charge is kept, whatever is there now.
AuthorityIn_SameIndex(new, kept) == IF authority \in DOMAIN new THEN authority ELSE 1

\* The source that is still where the one in charge was keeps its authority;
\* failing one it goes to the first.
AuthorityIn(new, kept) ==
  LET places == {i \in DOMAIN new : new[i] = kept}
  IN IF places = {} THEN 1 ELSE CHOOSE i \in places : TRUE

\* SetSources, when the sources read as in read.  Sources are told apart by
\* their addresses only: kept is the one found at that of the one in charge.
SetSources(new, read, kept) ==
  /\ sources' = new
  /\ lastValues' = [i \in DOMAIN new |-> read[new[i]]]
  /\ authority' = AuthorityIn(new, kept)
  /\ value' = IF new = <<>> THEN Neutral ELSE lastValues'[authority']

\* The sources that read otherwise than when they were last looked at.
Movers(read) == {i \in DOMAIN sources : read[sources[i]] # lastValues[i]}

\* Tick: of several sources that moved the last one takes charge.
MuxTick(read) ==
  /\ lastValues' = [i \in DOMAIN sources |-> read[sources[i]]]
  /\ authority' = IF Movers(read) = {} THEN authority ELSE Max(Movers(read))
  /\ value' = IF sources = <<>> THEN Neutral ELSE lastValues'[authority']
  /\ UNCHANGED sources
=============================================================================
