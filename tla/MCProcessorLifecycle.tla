------------------------ MODULE MCProcessorLifecycle -------------------------
(* ProcessorLifecycle as TLC checks it: the cfg files give every constant. *)
EXTENDS ProcessorLifecycle
=============================================================================
