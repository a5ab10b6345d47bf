------------------------------- MODULE MCSse -------------------------------
(* Small instances of Sse for TLC.  A POST changes nothing but itself, so  *)
(* one of them does, made by the client of one of two connections.         *)
EXTENDS SseInv

CONSTANTS x1, x2,  \* connections
          p1       \* a POST request

HomeOf == [p \in Post |-> x1]
=============================================================================
