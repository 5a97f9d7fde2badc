--------------------------- MODULE MCEventThread ---------------------------
(***************************************************************************)
(* EventThread for model checking: which actor drives which worker.        *)
(***************************************************************************)
EXTENDS EventThread

CONSTANTS u1, w1, w2

OneOwner == [w \in Workers |-> u1]
=============================================================================
