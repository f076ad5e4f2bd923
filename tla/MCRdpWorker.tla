----------------------------- MODULE MCRdpWorker ----------------------------
(* Small instances of RdpWorker for TLC. *)
EXTENDS RdpWorker

MCCategories == {"network"}
MCTwoCategories == {"network", "authentication"}
=============================================================================
