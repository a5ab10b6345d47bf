---------------------------- MODULE Cancellation ----------------------------
(***************************************************************************)
(* The router and a client that gives requests up.  The notification       *)
(* ("notifications/cancelled" of MCP) has no id of its own and names the   *)
(* request by the client's id for it; on_client_frame                      *)
(* (src/Shrink/src/router.rs) broadcasts it like any notification, word    *)
(* for word, while the requests themselves went out under translated ids.  *)
(***************************************************************************)
EXTENDS Router

CONSTANT ClientId  \* the ids that the client gives its requests, one each

VARIABLES
  cancelled,  \* requests that the client gives up
  casting,    \* the upstream that the broadcast is at
  told,       \* requests, as they were sent, that each upstream is to drop
  dropped     \* those that it has dropped

cancelVars == <<cancelled, casting, told, dropped>>

CancelInit ==
  /\ Init
  /\ cancelled = {}
  /\ casting = [r \in Req |-> 0]
  /\ told = [s \in Server |-> {}]
  /\ dropped = [s \in Server |-> {}]

(* The client cancels what it has sent and has no answer to.  In stdio     *)
(* mode the frame is read after the request is handled.                    *)
Cancel(r) ==
  /\ r \notin cancelled /\ ~Replied(r)
  /\ IF Concurrent THEN pc[r] # "new" ELSE pc[r] = "done"
  /\ cancelled' = cancelled \cup {r}
  /\ UNCHANGED <<vars, casting, told, dropped>>

(* broadcast, one channel after the other.  The upstream finds the request *)
(* among those that are before the notification on its channel.            *)
Cast(r) ==
  /\ r \in cancelled /\ casting[r] < NServers
  /\ told' = [told EXCEPT ![casting[r]] =
                @ \cup {q \in sent[casting[r]] : q.id = ClientId[r] /\ casting[r] \notin closed}]
  /\ casting' = [casting EXCEPT ![r] = @ + 1]
  /\ UNCHANGED <<vars, cancelled, dropped>>

(* An upstream stops work on a request that it still has in hand.          *)
Drop(s, q) ==
  /\ q \in told[s] \ dropped[s] /\ s \notin silent /\ pending[s][q.id] # NoEntry
  /\ dropped' = [dropped EXCEPT ![s] = @ \cup {q}]
  /\ UNCHANGED <<vars, cancelled, casting, told>>

CancelNext ==
  \/ /\ \/ \E r \in Req : Start(r) \/ Handle(r)
        \/ \E s \in Server : Merge(s) \/ Fail(s)
        \/ \E s \in Server : \E q \in sent[s] \ dropped[s] : Respond(s, q)
     /\ UNCHANGED cancelVars
  \/ \E r \in Req : Cancel(r) \/ Cast(r)
  \/ \E s \in Server : \E q \in told[s] : Drop(s, q)

CancelSpec == CancelInit /\ [][CancelNext]_<<vars, cancelVars>>

-----------------------------------------------------------------------------
(* An upstream drops a request only if the client gave that one up: "Each  *)
(* upstream owns its own JSON-RPC id space" (router.rs:10), and what       *)
(* crosses from one space to the other is translated.                      *)
DroppedWereCancelled ==
  \A s \in Server : \A q \in dropped[s] : q.req \in cancelled
=============================================================================
