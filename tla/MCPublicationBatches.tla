------------------------ MODULE MCPublicationBatches ------------------------
(* Small instances of PublicationBatches for TLC.                          *)
EXTENDS PublicationBatches
=============================================================================
