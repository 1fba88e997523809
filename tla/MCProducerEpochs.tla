------------------------- MODULE MCProducerEpochs -------------------------
(* An instance of ProducerEpochs for TLC; its bounds are in the cfgs.       *)
EXTENDS ProducerEpochs
=============================================================================
