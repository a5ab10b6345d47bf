--------------------------- MODULE RouterGateway ---------------------------
(***************************************************************************)
(* Router implements Gateway.  What a request has been asked is in the     *)
(* channels; what has been heard is, in turn, in the slots of its fan-out, *)
(* in the reader task that merges it and in the reply.                     *)
(***************************************************************************)
EXTENDS RouterInv

ReplyIn(frames, r) == frames[CHOOSE i \in DOMAIN frames : frames[i].to = r]

Merging(r) == {s \in Server : up[s].pc # "read" /\ up[s].client = r}

AskedOf(r) == [s \in Server |-> {q.id : q \in {p \in sent[s] : p.req = r}}]

HeardOf(r) ==
  IF Replied(r) THEN ReplyIn(toClient, r).answers
  ELSE IF Merging(r) # {} THEN up[CHOOSE s \in Merging(r) : TRUE].collected
  ELSE IF IsFan(r) /\ pc[r] # "new" THEN fanouts[loc[r].fan].collected
  ELSE NoAnswers

OutcomeOf(r) == IF Replied(r) THEN ReplyIn(toClient, r).type ELSE "none"

G == INSTANCE Gateway
       WITH Servers <- Server, Ids <- Id, Responses <- Response,
            fanned <- {r \in Req : IsFan(r)},
            asked <- [r \in Req |-> AskedOf(r)],
            heard <- [r \in Req |-> HeardOf(r)],
            outcome <- [r \in Req |-> OutcomeOf(r)]

(* What was sent was sent by a handler that has gone on since: to the next *)
(* upstream of a fan-out, or to its end.                                   *)
SentInOrder ==
  \A s \in Server : \A q \in sent[s] :
    /\ s < loc[q.req].srv \/ (s = loc[q.req].srv /\ pc[q.req] = "done")
    /\ ~IsFan(q.req) => pc[q.req] = "done"

(* The router keeps what the gateway promises: behind ids, maps, threads   *)
(* and locks, each request is put to its upstreams once and answered once, *)
(* by their answers to it.                                                 *)
ImplementsGateway == G!Spec
=============================================================================
