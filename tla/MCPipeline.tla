----------------------------- MODULE MCPipeline -----------------------------
(***************************************************************************)
(* TLC instance of Pipeline: one car whose frames are plausible or         *)
(* impossible.  Three handshakes let both legs be set up and one renewed.  *)
(***************************************************************************)
EXTENDS Pipeline

CONSTANTS mercedes, ka, Speed

MCSignerOf == [n \in Nodes |-> ka]
MCPhysicalLimits == [c \in Channels |-> [min |-> 0, max |-> 4]]
MCThresholds == [n \in Nodes |-> <<>>]
MCRocLimits == [c \in Channels |-> 4]
MCFrames == {[c \in Channels |-> v] : v \in {1, 9}}
=============================================================================
