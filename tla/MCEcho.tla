-------------------------------- MODULE MCEcho --------------------------------
EXTENDS Echo
CONSTANTS c1, f1

(* Which connection has which transfer *)
OneTransfer == [t \in {c1} |-> f1]
==============================================================================
