---------------------------- MODULE MCSocketService ----------------------------
(* Values for the constants of SocketService. *)
EXTENDS SocketService

CONSTANTS main, capture

MCProducers == {main, capture}

\* A record of every object; pictures of it from more than one camera.
MCMessages == [p \in MCProducers |-> IF p = main THEN 1 ELSE 2]
OneEach    == [p \in MCProducers |-> 1]
===============================================================================
