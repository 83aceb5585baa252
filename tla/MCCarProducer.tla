---------------------------- MODULE MCCarProducer ----------------------------
(* Instances of the car producer and its key scheduler for TLC.            *)
EXTENDS CarProducer
=============================================================================
