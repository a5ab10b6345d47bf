----------------------------- MODULE RouterInv -----------------------------
(***************************************************************************)
(* The inductive invariant of Router: what has to be true of the maps, the *)
(* channels and the tasks' local variables, between any two steps, for     *)
(* each request to be answered once, by its own answers.                   *)
(***************************************************************************)
EXTENDS Router

(* Ids are drawn in order: nothing is known yet under one still to come.   *)
IdsAreFresh ==
  /\ \A s \in Server : \A i \in Id : i >= nextId[s] => pending[s][i] = NoEntry
  /\ \A s \in Server : \A q \in sent[s] : q.id < nextId[s]
  /\ \A f \in Id : f >= fanNext => fanouts[f] = NoFanOut

(* A fan-out belongs to one request; the request goes through the          *)
(* upstreams in order and ends with the last.                              *)
HandlersAreOrdered ==
  \A r \in Req :
    /\ pc[r] = "new" => loc[r].srv = 0
    /\ pc[r] = "validate" => IsNamedCall(r)
    /\ pc[r] = "reject" => ~IsFan(r)
    /\ pc[r] # "new" /\ IsFan(r) =>
         /\ loc[r].fan \in Id /\ loc[r].fan < fanNext
         /\ \A q \in Req \ {r} :
              pc[q] # "new" /\ IsFan(q) => loc[q].fan # loc[r].fan
    /\ pc[r] = "done" /\ IsFan(r) => loc[r].srv = NServers - 1

(* Between the insertion of its entry and the sending of its frame the     *)
(* entry is there and no frame bears its id.                               *)
UnsentEntryIsKept ==
  \A r \in Req : pc[r] = "send" =>
    /\ loc[r].id \in Id
    /\ pending[loc[r].srv][loc[r].id] = EntryFor(r)
    /\ \A q \in sent[loc[r].srv] : q.id # loc[r].id

(* A frame's id leads back to the request the frame is for.                *)
EntriesMatchFrames ==
  \A s \in Server : \A q \in sent[s] :
    /\ pc[q.req] # "new"
    /\ pending[s][q.id] \in {NoEntry, EntryFor(q.req)}

(* A forward entry is its request's only one, and the reply is yet to come.*)
ForwardIsOwed(s, i) ==
  LET r == pending[s][i].req IN
  /\ ~IsFan(r) /\ ~Replied(r)
  /\ pc[r] \in {"send", "done"}
  /\ loc[r].srv = s /\ loc[r].id = i

ForwardsAreOwed ==
  \A s \in Server, i \in Id : pending[s][i].type = "forward" => ForwardIsOwed(s, i)

(* Upstreams that the handler of r has not been to yet.                    *)
Ahead(r, s) == s > loc[r].srv \/ (s = loc[r].srv /\ pc[r] = "register")

(* A member entry is the only one that waits for its upstream's empty slot *)
(* in an open fan-out.                                                     *)
MemberIsOwed(s, i) ==
  LET f == pending[s][i].fan IN
  /\ IsOpen(f) /\ fanouts[f].collected[s] = NoAnswer
  /\ ~Ahead(fanouts[f].client, s)
  /\ \A j \in Id : pending[s][j] = pending[s][i] => i = j

MembersAreOwed ==
  \A s \in Server, i \in Id : pending[s][i].type = "member" => MemberIsOwed(s, i)

Empty(f) == {s \in Server : fanouts[f].collected[s] = NoAnswer}

(* An open fan-out owes one reply, counts its empty slots, and has in the  *)
(* others the answers of the right upstreams to the right request.         *)
FanoutIsOwed(f) ==
  LET r == fanouts[f].client IN
  /\ r \in Req /\ IsFan(r) /\ pc[r] # "new" /\ ~Replied(r)
  /\ loc[r].fan = f
  /\ fanouts[f].remaining = Cardinality(Empty(f))
  /\ \A s \in Server :
       /\ Ahead(r, s) => s \in Empty(f)
       /\ s \notin Empty(f) =>
            fanouts[f].collected[s].req = r /\ fanouts[f].collected[s].from = s

OpenFanoutsAreOwed == \A f \in Id : IsOpen(f) => FanoutIsOwed(f)

(* A handler that still has upstreams to go to finds its fan-out open.     *)
FanoutStaysOpen ==
  \A r \in Req : IsFan(r) /\ pc[r] \in {"register", "send"} =>
    IsOpen(loc[r].fan) /\ fanouts[loc[r].fan].client = r

(* A reader task that merges owes the merged reply, and is alone to do so. *)
MergeIsOwed(s) ==
  LET r == up[s].client IN
  /\ r \in Req /\ IsFan(r) /\ pc[r] = "done" /\ ~Replied(r)
  /\ up[s].fan = loc[r].fan /\ ~IsOpen(up[s].fan)
  /\ up[s].pc # "close" => fanouts[up[s].fan] = NoFanOut
  /\ IsFull(up[s].collected, r)
  /\ \A t \in Server \ {s} : up[t].pc # "read" => up[t].client # r

MergesAreOwed == \A s \in Server : up[s].pc # "read" => MergeIsOwed(s)

(* Nothing of an answered request is still at work.                        *)
RepliedIsDone ==
  \A r \in Req : Replied(r) =>
    pc[r] = "done" /\ (IsFan(r) => fanouts[loc[r].fan] = NoFanOut)

IInv ==
  /\ TypeOK
  /\ IdsAreFresh
  /\ HandlersAreOrdered
  /\ UnsentEntryIsKept
  /\ EntriesMatchFrames
  /\ ForwardsAreOwed
  /\ MembersAreOwed
  /\ OpenFanoutsAreOwed
  /\ FanoutStaysOpen
  /\ MergesAreOwed
  /\ RepliedIsDone
  /\ AtMostOneReply
  /\ ReplyIsOwn
  /\ MergedReplyIsComplete
=============================================================================
