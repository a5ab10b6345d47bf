--------------------------- MODULE MCCancellation ---------------------------
(* A small instance of Cancellation for TLC.                               *)
EXTENDS MCRouter, Cancellation

(* A client that counts from 0, as that of the MCP SDK does. *)
FromZero == [r \in Req |-> IF r = r1 THEN 0 ELSE IF r = r2 THEN 1 ELSE 2]

OtherFrames == {Plain("other"), Plain("tools/list")}
=============================================================================
