---------------------------- MODULE RouterProofs ----------------------------
(***************************************************************************)
(* Proofs about Router, for any number of upstreams, requests, ids and     *)
(* tools.  IInv (RouterInv) is inductive: InitIInv and NextIInv, which     *)
(* rests on one lemma for each action or group of like actions.  In each   *)
(* of those there is one step for each conjunct of IInv.  The theorems at  *)
(* the end follow from IInv.                                               *)
(***************************************************************************)
EXTENDS RouterInv, TLAPS, FiniteSetTheorems

(* Empty slots, empty tool lists and the absent answer have their types.   *)
LEMMA NoAnswersType == NoAnswers \in Answers /\ NoTools \in Listing /\ NoAnswer \in Response
  BY RouterAssumption DEF NoAnswers, Answers, NoAnswer, Response, NoTools, Listing, Server

(* The initial state is well typed.                                        *)
LEMMA InitType == Init => TypeOK
<1> SUFFICES ASSUME Init PROVE TypeOK
  OBVIOUS
<1> USE RouterAssumption
<1>1. NoAnswers \in Answers
  BY NoAnswersType
<1>2. \A r \in Req : frame[r].args \in Args
  BY DEF Init, ClientFrame
<1>3. loc \in [Req -> Local]
  BY <1>2 DEF Init, Local, Server
<1>4. fanouts \in [Id -> FanOut]
  BY <1>1 DEF Init, FanOut, NoFanOut
<1>5. up \in [Server -> Collector]
  BY <1>1 DEF Init, Collector, Reading
<1>6. pending \in [Server -> [Id -> PendingResp]]
  BY DEF Init, PendingResp, NoEntry
<1>7. toClient \in Seq(Reply) /\ sent \in [Server -> SUBSET Upcall]
  BY DEF Init
<1>8. nextId \in [Server -> 1 .. MaxId + 1] /\ fanNext \in 1 .. MaxId + 1
  BY DEF Init
<1> QED
  BY <1>3, <1>4, <1>5, <1>6, <1>7, <1>8 DEF TypeOK, Init

(* A new fan-out is neither an absent key nor an emptied one.              *)
LEMMA NewFanOutIsOpen ==
  ASSUME TypeOK, NEW r \in Req, IsFan(r)
  PROVE  NewFanOut(r) \in FanOut /\ NewFanOut(r) \notin {NoFanOut, Taken}
<1>1. NewFanOut(r) \in FanOut
  BY RouterAssumption, NoAnswersType DEF NewFanOut, FanOut, IsFan
<1>2. NewFanOut(r).client # Taken.client /\ NewFanOut(r).client # NoFanOut.client
  BY RouterAssumption DEF NewFanOut, Taken, NoFanOut
<1> QED
  BY <1>1, <1>2

(* Assignments to a handler's local variables keep their type.             *)
LEMMA LocTypes ==
  ASSUME TypeOK, NEW r \in Req, NEW i \in Id, NEW s \in Server
  PROVE  /\ [loc EXCEPT ![r].srv = s] \in [Req -> Local]
         /\ [loc EXCEPT ![r].fan = i] \in [Req -> Local]
         /\ [loc EXCEPT ![r].id = i] \in [Req -> Local]
  BY DEF TypeOK, Local

(* What an entry's type says of its other fields.                          *)
LEMMA EntryTypes ==
  ASSUME TypeOK, NEW s \in Server, NEW i \in Id
  PROVE  /\ pending[s][i].type = "forward" =>
              pending[s][i].req \in Req /\ pending[s][i] = Forward(pending[s][i].req)
         /\ pending[s][i].type = "member" =>
              pending[s][i].fan \in Id /\ pending[s][i] = Member(pending[s][i].fan)
         /\ pending[s][i].type \notin {"forward", "member"} => pending[s][i] = NoEntry
         /\ NoEntry.type \notin {"forward", "member"}
  BY DEF TypeOK, PendingResp, Forward, Member, NoEntry

(* A step that sends nothing to the client keeps what holds of replies.    *)
LEMMA RepliesKept ==
  ASSUME IInv, UNCHANGED <<frame, toClient>>
  PROVE  /\ AtMostOneReply' /\ MergedReplyIsComplete'
         /\ \A r \in Req : (IsFan(r)' <=> IsFan(r)) /\ (Replied(r)' <=> Replied(r))
<1>1. AtMostOneReply'
  BY DEF IInv, AtMostOneReply
<1>2. MergedReplyIsComplete'
  BY DEF IInv, MergedReplyIsComplete, IsFan
<1> QED
  BY <1>1, <1>2 DEF IsFan, Replied

(* ... and who they are for, if loc of answered requests stays too.        *)
LEMMA OwnRepliesKept ==
  ASSUME IInv, UNCHANGED <<frame, toClient>>,
         \A q \in Req : pc[q] = "done" => loc'[q].srv = loc[q].srv
  PROVE  ReplyIsOwn'
<1>0. toClient \in Seq(Reply)
  BY DEF IInv, TypeOK
<1>1. \A i \in DOMAIN toClient : toClient[i] \in Reply
  BY <1>0
<1>2. \A i \in DOMAIN toClient : toClient[i].to \in Req /\ Replied(toClient[i].to)
  BY <1>1 DEF Reply, Replied
<1>3. \A i \in DOMAIN toClient : pc[toClient[i].to] = "done"
  BY <1>2 DEF IInv, RepliedIsDone
<1> QED
  BY <1>2, <1>3 DEF IInv, ReplyIsOwn, IsFan

(* ... and what is left of an answered request.                            *)
LEMMA RepliedKept ==
  ASSUME IInv, UNCHANGED <<frame, toClient>>,
         \A q \in Req : pc[q] = "done" => pc'[q] = "done" /\ loc'[q].fan = loc[q].fan,
         \A f \in Id : f < fanNext /\ fanouts[f] = NoFanOut => fanouts'[f] = NoFanOut
  PROVE  RepliedIsDone'
<1>1. \A q \in Req : pc[q] = "done" /\ IsFan(q) => loc[q].fan \in Id /\ loc[q].fan < fanNext
  BY DEF IInv, HandlersAreOrdered
<1> QED
  BY <1>1, RepliesKept DEF IInv, RepliedIsDone

(* A client request opens a fan-out: nothing of it was there before.       *)
LEMMA OpenFanoutStep ==
  ASSUME IInv, NEW r \in Req, OpenFanout(r) PROVE IInv'
<1> USE RouterAssumption DEF idVars, toolVars, wireVars
<1>0. TypeOK /\ pc[r] = "new" /\ IsFan(r) /\ 0 \in Server
  BY DEF IInv, OpenFanout, CanStart, Server
<1>1. fanNext \in Id /\ fanNext + 1 \in 1 .. MaxId + 1
  BY <1>0 DEF OpenFanout, TypeOK, Id
<1>2. /\ pc' = [pc EXCEPT ![r] = "register"]
      /\ \A q \in Req \ {r} : loc'[q] = loc[q] /\ pc'[q] = pc[q]
      /\ loc'[r].fan = fanNext /\ loc'[r].srv = 0 /\ pc'[r] = "register"
  BY <1>0 DEF OpenFanout, TypeOK, Local, IInv, HandlersAreOrdered
<1>3. /\ \A f \in Id \ {fanNext} : fanouts'[f] = fanouts[f]
      /\ fanouts'[fanNext] = NewFanOut(r) /\ fanouts[fanNext] = NoFanOut
  BY <1>0, <1>1 DEF OpenFanout, TypeOK, IInv, IdsAreFresh
<1>4. NewFanOut(r) \in FanOut /\ NewFanOut(r) \notin {NoFanOut, Taken}
  BY <1>0, NewFanOutIsOpen
<1>t. TypeOK'
  <2>1. loc' \in [Req -> Local]
    BY <1>0, <1>1, LocTypes DEF OpenFanout
  <2>2. fanouts' \in [Id -> FanOut]
    BY <1>0, <1>4 DEF OpenFanout, TypeOK
  <2> QED
    BY <1>0, <1>1, <2>1, <2>2 DEF TypeOK, OpenFanout
<1>5. IdsAreFresh'
  BY <1>0, <1>3 DEF OpenFanout, IInv, IdsAreFresh, TypeOK, Id
<1>6. HandlersAreOrdered'
  BY <1>0, <1>1, <1>2
     DEF OpenFanout, IInv, HandlersAreOrdered, IsFan, IsNamedCall, TypeOK, Id
<1>7. UnsentEntryIsKept'
  BY <1>2 DEF OpenFanout, IInv, UnsentEntryIsKept, EntryFor, IsFan
<1>8. EntriesMatchFrames'
  BY <1>0, <1>2 DEF OpenFanout, IInv, EntriesMatchFrames, EntryFor, IsFan, TypeOK, Upcall
<1>9. ForwardsAreOwed'
  BY <1>0, <1>2 DEF OpenFanout, IInv, ForwardsAreOwed, ForwardIsOwed, IsFan, Replied, TypeOK, PendingResp, Forward, Member, NoEntry
<1>a. \A f \in Id : IsOpen(f) => fanouts[f].client \in Req \ {r} /\ fanouts'[f] = fanouts[f]
  BY <1>0, <1>3 DEF IInv, OpenFanoutsAreOwed, FanoutIsOwed, IsOpen
<1>10. MembersAreOwed'
  BY <1>0, <1>2, <1>a, EntryTypes
     DEF OpenFanout, IInv, MembersAreOwed, MemberIsOwed, IsOpen, Ahead
<1>g. PICK g \in Id : g = fanNext
  BY <1>1
<1>b. FanoutIsOwed(g)'
  <2>1. /\ IsFan(r)' /\ pc'[r] # "new" /\ loc'[r].fan = g /\ fanouts'[g].client = r
        /\ fanouts'[g].collected = NoAnswers /\ fanouts'[g].remaining = NServers
    BY <1>0, <1>2, <1>3, <1>g DEF OpenFanout, IsFan, NewFanOut
  <2>2. ~Replied(r)'
    BY <1>0 DEF OpenFanout, IInv, RepliedIsDone, Replied
  <2>3. Empty(g)' = Server
    BY <2>1 DEF Empty, NoAnswers
  <2>4. Cardinality(Server) = NServers
    BY FS_Interval DEF Server
  <2> QED
    BY <2>1, <2>2, <2>3, <2>4 DEF FanoutIsOwed
<1>11. OpenFanoutsAreOwed'
  <2> SUFFICES ASSUME NEW f \in Id \ {g}, IsOpen(f)' PROVE FanoutIsOwed(f)'
    BY <1>b DEF OpenFanoutsAreOwed
  <2>1. IsOpen(f) /\ FanoutIsOwed(f) /\ fanouts'[f] = fanouts[f]
    BY <1>3, <1>g DEF IInv, OpenFanoutsAreOwed, IsOpen
  <2>2. fanouts[f].client \in Req \ {r}
    BY <2>1, <1>a
  <2>3. Empty(f)' = Empty(f) /\ \A q : Replied(q)' = Replied(q)
    BY <2>1 DEF Empty, OpenFanout, Replied
  <2> QED
    BY <2>1, <2>2, <2>3, <1>2 DEF OpenFanout, FanoutIsOwed, Ahead, IsFan
<1>12. FanoutStaysOpen'
  BY <1>0, <1>2, <1>3, <1>4 DEF OpenFanout, IInv, FanoutStaysOpen, HandlersAreOrdered, IsOpen, IsFan, NewFanOut
<1>13. MergesAreOwed'
  <2> SUFFICES ASSUME NEW s \in Server, up'[s].pc # "read" PROVE MergeIsOwed(s)'
    BY DEF MergesAreOwed
  <2>1. up' = up /\ MergeIsOwed(s) /\ up[s].client \in Req \ {r}
    BY <1>0 DEF OpenFanout, IInv, MergesAreOwed, MergeIsOwed
  <2>2. up[s].fan \in Id /\ up[s].fan # fanNext
    BY <1>0, <2>1 DEF IInv, HandlersAreOrdered, MergeIsOwed, TypeOK, Id
  <2>3. ~IsOpen(up[s].fan)' /\ fanouts'[up[s].fan] = fanouts[up[s].fan]
    BY <2>1, <2>2, <1>3 DEF MergeIsOwed, IsOpen
  <2>4. \A c \in Req : (IsFan(c)' <=> IsFan(c)) /\ (Replied(c)' <=> Replied(c))
    BY RepliesKept DEF OpenFanout
  <2> QED
    BY <2>1, <2>3, <2>4, <1>2 DEF OpenFanout, MergeIsOwed, IsFull
<1>14. RepliedIsDone'
  <2>1. \A f \in Id : f < fanNext => f # fanNext
    BY <1>1 DEF Id
  <2> QED
    BY <1>0, <1>2, <1>3, <2>1, RepliedKept DEF OpenFanout
<1>15. AtMostOneReply' /\ MergedReplyIsComplete'
  BY RepliesKept DEF OpenFanout
<1>16. ReplyIsOwn'
  BY <1>0, <1>2, OwnRepliesKept DEF OpenFanout
<1> QED
  BY <1>t, <1>5, <1>6, <1>7, <1>8, <1>9, <1>10, <1>11, <1>12, <1>13, <1>14, <1>15, <1>16 DEF IInv

-----------------------------------------------------------------------------
(* Steps of a handler that owns no entry and no fan-out yet.               *)

(* A handler moves on before it has inserted any entry.                    *)
LEMMA EarlyStep ==
  ASSUME IInv, NEW r \in Req, ~IsFan(r), pc[r] \in {"new", "validate"},
         NEW x \in {"validate", "reject", "register"}, pc' = [pc EXCEPT ![r] = x],
         x = "validate" => IsNamedCall(r),
         loc' \in [Req -> Local], \A q \in Req \ {r} : loc'[q] = loc[q],
         UNCHANGED <<frame, idVars, fanVars, toolVars, wireVars, up, silent, closed>>
  PROVE  IInv'
<1> USE DEF idVars, fanVars, toolVars, wireVars
<1>0. TypeOK /\ \A q \in Req \ {r} : loc'[q] = loc[q] /\ pc'[q] = pc[q]
  BY DEF IInv, TypeOK
<1>1. pc'[r] \in {"validate", "reject", "register"}
  BY <1>0 DEF TypeOK
<1>2. \A q \in Req : (IsFan(q)' <=> IsFan(q)) /\ (Replied(q)' <=> Replied(q))
  BY RepliesKept
<1>3. \A f \in Id : (IsOpen(f)' <=> IsOpen(f)) /\ Empty(f)' = Empty(f)
  BY DEF IsOpen, Empty
<1>t. TypeOK'
  BY <1>0 DEF TypeOK
<1>5. IdsAreFresh'
  BY DEF IInv, IdsAreFresh
<1>6. HandlersAreOrdered'
  BY <1>0, <1>1, <1>2 DEF IInv, HandlersAreOrdered, IsNamedCall, TypeOK
<1>7. UnsentEntryIsKept'
  BY <1>0, <1>1, <1>2 DEF IInv, UnsentEntryIsKept, EntryFor, IsFan
<1>8. EntriesMatchFrames'
  <2>1. \A q \in Req : pc[q] # "new" => pc'[q] # "new" /\ EntryFor(q)' = EntryFor(q)
    BY <1>0, <1>1, <1>2 DEF EntryFor, IsFan
  <2> QED
    BY <2>1, <1>0 DEF IInv, EntriesMatchFrames, TypeOK, Upcall
<1>9. ForwardsAreOwed'
  BY <1>0, <1>2, EntryTypes DEF IInv, ForwardsAreOwed, ForwardIsOwed
<1>10. MembersAreOwed'
  <2>1. \A f \in Id : IsOpen(f) => fanouts[f].client \in Req \ {r}
    BY DEF IInv, OpenFanoutsAreOwed, FanoutIsOwed
  <2> QED
    BY <1>0, <1>2, <1>3, <2>1, EntryTypes DEF IInv, MembersAreOwed, MemberIsOwed, Ahead
<1>11. OpenFanoutsAreOwed'
  <2> SUFFICES ASSUME NEW f \in Id, IsOpen(f) PROVE FanoutIsOwed(f)'
    BY <1>3 DEF OpenFanoutsAreOwed
  <2>1. FanoutIsOwed(f) /\ fanouts[f].client \in Req \ {r}
    BY DEF IInv, OpenFanoutsAreOwed, FanoutIsOwed
  <2> QED
    BY <1>0, <1>2, <1>3, <2>1 DEF FanoutIsOwed, Ahead
<1>12. FanoutStaysOpen'
  BY <1>0, <1>2 DEF IInv, FanoutStaysOpen, IsOpen
<1>13. MergesAreOwed'
  BY <1>0, <1>2 DEF IInv, MergesAreOwed, MergeIsOwed, IsOpen
<1>14. RepliedIsDone'
  BY <1>0, RepliedKept
<1>15. AtMostOneReply' /\ MergedReplyIsComplete'
  BY RepliesKept
<1>16. ReplyIsOwn'
  BY <1>0, OwnRepliesKept
<1> QED
  BY <1>t, <1>5, <1>6, <1>7, <1>8, <1>9, <1>10, <1>11, <1>12, <1>13, <1>14, <1>15, <1>16 DEF IInv

(* A route that is found is a server and a tool.                           *)
LEMMA RouteOfType ==
  ASSUME TypeOK, NEW n \in Name, RouteOf(n) # NoRoute
  PROVE  RouteOf(n).srv \in Server /\ RouteOf(n).tool \in Bare \cup Name
  BY RouterAssumption DEF TypeOK, RouteOf, ToolRoute, NoRoute, Server

(* The actions of which EarlyStep is true.                                 *)
LEMMA EarlySteps ==
  ASSUME IInv, NEW r \in Req,
         ForwardOther(r) \/ Resolve(r) \/ PassUnchecked(r) \/ PassRehydrated(r)
  PROVE  IInv'
<1>0. TypeOK
  BY DEF IInv
<1>1. CASE ForwardOther(r)
  <2>1. ~IsFan(r) /\ pc[r] = "new"
    BY <1>1 DEF ForwardOther, IsFan, FanMethod, CanStart
  <2> QED
    BY <1>0, <1>1, <2>1, EarlyStep DEF ForwardOther, TypeOK
<1>2. CASE Resolve(r)
  <2>1. ~IsFan(r) /\ pc[r] = "new" /\ frame[r].name \in Name
    BY <1>0, <1>2, RouterAssumption
       DEF Resolve, IsFan, FanMethod, CanStart, IsNamedCall, TypeOK, ClientFrame
  <2>2. loc' \in [Req -> Local] /\ \A q \in Req \ {r} : loc'[q] = loc[q]
    BY <1>0, <1>2, <2>1, RouteOfType DEF Resolve, TypeOK, Local
  <2> QED
    BY <1>2, <2>1, <2>2, EarlyStep DEF Resolve
<1>3. CASE PassUnchecked(r)
  <2>1. ~IsFan(r)
    BY <1>3 DEF PassUnchecked, IInv, HandlersAreOrdered, IsNamedCall, IsFan, FanMethod
  <2> QED
    BY <1>0, <1>3, <2>1, EarlyStep DEF PassUnchecked, TypeOK
<1>4. CASE PassRehydrated(r)
  <2>0. frame[r].args \in Args /\ frame[r].name \in Name /\ ~IsFan(r)
    BY <1>0, <1>4, RouterAssumption
       DEF PassRehydrated, TypeOK, ClientFrame, IInv, HandlersAreOrdered, IsNamedCall,
           IsFan, FanMethod
  <2>1. Rehydrated(r) \in Args
    BY <1>0, <1>4, <2>0, RouterAssumption
       DEF PassRehydrated, Rehydrated, SchemaInForce, TypeOK
  <2>2. loc' \in [Req -> Local] /\ \A q \in Req \ {r} : loc'[q] = loc[q]
    BY <1>0, <1>4, <2>1 DEF PassRehydrated, TypeOK, Local
  <2> QED
    BY <1>4, <2>0, <2>2, EarlyStep DEF PassRehydrated
<1> QED
  BY <1>1, <1>2, <1>3, <1>4

(* The actions that turn a call down, before it has left anything in the   *)
(* maps.                                                                   *)
LEMMA RejectSteps ==
  ASSUME IInv, NEW r \in Req, RejectNameless(r) \/ RejectUnknown(r) \/ RejectArgs(r)
  PROVE  IInv'
<1>0. TypeOK
  BY DEF IInv
<1>1. ~IsFan(r) /\ pc[r] \in {"new", "validate"} /\ Reject(r)
  BY DEF RejectNameless, RejectUnknown, RejectArgs, CanStart, IsNamedCall, IsFan, FanMethod,
         IInv, HandlersAreOrdered
<1> QED
  BY <1>0, <1>1, EarlyStep DEF Reject, TypeOK

-----------------------------------------------------------------------------
(* What an upstream answers names the upstream and the request.            *)
LEMMA AnswerType ==
  ASSUME TypeOK, NEW s \in Server, NEW q \in Upcall, NEW resp \in Answer(s, q)
  PROVE  resp \in Response /\ resp.from = s /\ resp.req = q.req
<1>1. resp.list \in Listing
  BY RouterAssumption, NoAnswersType DEF Answer
<1> QED
  BY <1>1 DEF Answer, Response, Upcall

(* Steps that send a reply.                                                *)

(* What the channel to the client holds after a reply to r.                *)
LEMMA AppendFacts ==
  ASSUME IInv, NEW m \in Reply, toClient' = Append(toClient, m), ~Replied(m.to),
         frame' = frame
  PROVE  /\ toClient' \in Seq(Reply)
         /\ \A q \in Req : Replied(q)' <=> Replied(q) \/ q = m.to
         /\ AtMostOneReply'
         /\ (m.type = "merged" => IsFan(m.to) /\ IsFull(m.answers, m.to))
             => MergedReplyIsComplete'
<1>0. toClient \in Seq(Reply) /\ m.to \in Req
  BY DEF IInv, TypeOK, Reply
<1>1. toClient' \in Seq(Reply)
  BY <1>0
<1> DEFINE n == Len(toClient)
<1>2. /\ n \in Nat /\ DOMAIN toClient = 1 .. n /\ DOMAIN toClient' = 1 .. n + 1
      /\ toClient'[n + 1] = m /\ \A i \in 1 .. n : toClient'[i] = toClient[i]
  BY <1>0
<1>3. \A q \in Req : Replied(q)' <=> Replied(q) \/ q = m.to
  BY <1>2 DEF Replied
<1>4. AtMostOneReply'
  <2> SUFFICES ASSUME NEW i \in 1 .. n + 1, NEW j \in 1 .. n + 1,
                      toClient'[i].to = toClient'[j].to
               PROVE  i = j
    BY <1>2 DEF AtMostOneReply
  <2>1. \A k \in 1 .. n : toClient'[k].to # m.to
    BY <1>2 DEF Replied
  <2> QED
    BY <1>2, <2>1 DEF IInv, AtMostOneReply
<1>5. ASSUME m.type = "merged" => IsFan(m.to) /\ IsFull(m.answers, m.to)
      PROVE  MergedReplyIsComplete'
  <2> SUFFICES ASSUME NEW i \in 1 .. n + 1, toClient'[i].type = "merged"
               PROVE  /\ toClient'[i].to \in Req /\ IsFan(toClient'[i].to)
                      /\ IsFull(toClient'[i].answers, toClient'[i].to)
    BY <1>2 DEF MergedReplyIsComplete, IsFan, IsFull
  <2>1. CASE i = n + 1
    BY <1>0, <1>2, <1>5, <2>1
  <2>2. CASE i \in 1 .. n
    BY <1>2, <2>2 DEF IInv, MergedReplyIsComplete, IsFull
  <2> QED
    BY <1>2, <2>1, <2>2
<1> QED
  BY <1>1, <1>3, <1>4, <1>5

(* The replies sent before stay as they are while loc does.                *)
LEMMA AppendOwn ==
  ASSUME IInv, NEW m \in Reply, toClient' = Append(toClient, m), UNCHANGED <<frame, loc>>,
         m.type = "result" =>
           LET s == loc[m.to].srv IN
           /\ ~IsFan(m.to) /\ m.answers[s].req = m.to /\ m.answers[s].from = s
           /\ \A t \in Server \ {s} : m.answers[t] = NoAnswer
  PROVE  ReplyIsOwn'
<1> DEFINE n == Len(toClient)
<1>1. toClient \in Seq(Reply)
  BY DEF IInv, TypeOK
<1>2. /\ n \in Nat /\ DOMAIN toClient = 1 .. n /\ DOMAIN toClient' = 1 .. n + 1
      /\ toClient'[n + 1] = m /\ \A i \in 1 .. n : toClient'[i] = toClient[i]
  BY <1>1
<1> QED
  BY <1>2 DEF IInv, ReplyIsOwn, IsFan

(* A request is rejected before it has left anything in the maps.          *)
LEMMA ReplyInvalidStep ==
  ASSUME IInv, NEW r \in Req, ReplyInvalid(r)
  PROVE  IInv'
<1> USE DEF idVars, fanVars, toolVars
<1> DEFINE m == [to |-> r, type |-> "invalid", answers |-> NoAnswers]
<1>0. /\ TypeOK /\ pc'[r] = "done" /\ \A q \in Req \ {r} : pc'[q] = pc[q]
      /\ ~IsFan(r) /\ pc[r] = "reject"
  BY DEF IInv, TypeOK, HandlersAreOrdered, ReplyInvalid
<1>1. m \in Reply /\ ~Replied(m.to) /\ toClient' = Append(toClient, m)
  BY <1>0, NoAnswersType DEF Reply, IInv, RepliedIsDone, ReplyInvalid
<1>2. /\ toClient' \in Seq(Reply) /\ AtMostOneReply' /\ MergedReplyIsComplete'
      /\ \A q \in Req : Replied(q)' <=> Replied(q) \/ q = r
  BY <1>0, <1>1, AppendFacts DEF ReplyInvalid
<1>3. ReplyIsOwn'
  BY <1>0, <1>1, AppendOwn DEF ReplyInvalid
<1>4. \A q \in Req : (IsFan(q)' <=> IsFan(q)) /\ EntryFor(q)' = EntryFor(q)
  BY DEF ReplyInvalid, IsFan, EntryFor
<1>f. \A f \in Id : (IsOpen(f)' <=> IsOpen(f)) /\ Empty(f)' = Empty(f)
  BY DEF ReplyInvalid, IsOpen, Empty
<1>t. TypeOK'
  BY <1>0, <1>2 DEF TypeOK, ReplyInvalid
<1>5. IdsAreFresh'
  BY DEF ReplyInvalid, IInv, IdsAreFresh
<1>6. HandlersAreOrdered'
  BY <1>0, <1>4 DEF ReplyInvalid, IInv, HandlersAreOrdered, IsNamedCall
<1>7. UnsentEntryIsKept'
  BY <1>0, <1>4 DEF ReplyInvalid, IInv, UnsentEntryIsKept
<1>8. EntriesMatchFrames'
  BY <1>0, <1>4 DEF ReplyInvalid, IInv, EntriesMatchFrames, TypeOK, Upcall
<1>9. ForwardsAreOwed'
  BY <1>0, <1>2, <1>4, EntryTypes DEF ReplyInvalid, IInv, ForwardsAreOwed, ForwardIsOwed
<1>10. MembersAreOwed'
  <2>1. \A f \in Id : IsOpen(f) => fanouts[f].client \in Req \ {r}
    BY <1>0 DEF IInv, OpenFanoutsAreOwed, FanoutIsOwed
  <2> QED
    BY <1>0, <1>f, <2>1, EntryTypes DEF ReplyInvalid, IInv, MembersAreOwed, MemberIsOwed, Ahead
<1>11. OpenFanoutsAreOwed'
  <2> SUFFICES ASSUME NEW f \in Id, IsOpen(f) PROVE FanoutIsOwed(f)'
    BY <1>f DEF OpenFanoutsAreOwed
  <2>1. FanoutIsOwed(f) /\ fanouts[f].client \in Req \ {r}
    BY <1>0 DEF IInv, OpenFanoutsAreOwed, FanoutIsOwed
  <2> QED
    BY <1>0, <1>2, <1>4, <1>f, <2>1 DEF ReplyInvalid, FanoutIsOwed, Ahead
<1>12. FanoutStaysOpen'
  BY <1>0, <1>4 DEF ReplyInvalid, IInv, FanoutStaysOpen, IsOpen
<1>13. MergesAreOwed'
  BY <1>0, <1>2, <1>4 DEF ReplyInvalid, IInv, MergesAreOwed, MergeIsOwed, IsOpen, IsFull
<1>14. RepliedIsDone'
  BY <1>0, <1>2, <1>4 DEF ReplyInvalid, IInv, RepliedIsDone
<1> QED
  BY <1>t, <1>2, <1>3, <1>5, <1>6, <1>7, <1>8, <1>9, <1>10, <1>11, <1>12, <1>13, <1>14 DEF IInv

(* A reader task sends the merged reply that it alone owes.                *)
LEMMA SendMergedStep ==
  ASSUME IInv, NEW s \in Server, SendMerged(s)
  PROVE  IInv'
<1> USE DEF handlerVars, idVars, fanVars, toolVars
<1> DEFINE r == up[s].client
           m == [to |-> r, type |-> "merged", answers |-> up[s].collected]
<1>0. TypeOK /\ MergeIsOwed(s)
  BY DEF IInv, MergesAreOwed, SendMerged
<1>1. m \in Reply /\ ~Replied(m.to) /\ toClient' = Append(toClient, m)
  BY <1>0 DEF Reply, MergeIsOwed, SendMerged, TypeOK, Collector
<1>r. r \in Req /\ IsFan(r) /\ pc[r] = "done" /\ IsFull(up[s].collected, r)
  BY <1>0 DEF MergeIsOwed
<1>2. /\ toClient' \in Seq(Reply) /\ AtMostOneReply' /\ MergedReplyIsComplete'
      /\ \A q \in Req : Replied(q)' <=> Replied(q) \/ q = r
  BY <1>1, <1>r, AppendFacts DEF SendMerged
<1>3. ReplyIsOwn'
  BY <1>1, AppendOwn DEF SendMerged
<1>4. \A q \in Req : (IsFan(q)' <=> IsFan(q)) /\ EntryFor(q)' = EntryFor(q)
  BY DEF SendMerged, IsFan, EntryFor
<1>f. \A f \in Id : (IsOpen(f)' <=> IsOpen(f)) /\ Empty(f)' = Empty(f)
  BY DEF SendMerged, IsOpen, Empty
<1>u. up'[s].pc = "read" /\ \A t \in Server \ {s} : up'[t] = up[t]
  BY <1>0 DEF SendMerged, TypeOK, Reading
<1>t. TypeOK'
  <2>1. Reading \in Collector
    BY NoAnswersType DEF Reading, Collector
  <2> QED
    BY <1>0, <1>2, <2>1 DEF TypeOK, SendMerged
<1>5. IdsAreFresh'
  BY DEF SendMerged, IInv, IdsAreFresh
<1>6. HandlersAreOrdered'
  BY <1>4 DEF SendMerged, IInv, HandlersAreOrdered, IsNamedCall
<1>7. UnsentEntryIsKept'
  BY <1>4 DEF SendMerged, IInv, UnsentEntryIsKept
<1>8. EntriesMatchFrames'
  BY <1>0, <1>4 DEF SendMerged, IInv, EntriesMatchFrames, TypeOK, Upcall
<1>9. ForwardsAreOwed'
  BY <1>0, <1>2, <1>4, <1>r, EntryTypes DEF SendMerged, IInv, ForwardsAreOwed, ForwardIsOwed
<1>10. MembersAreOwed'
  BY <1>f DEF SendMerged, IInv, MembersAreOwed, MemberIsOwed, Ahead, IsOpen
<1>11. OpenFanoutsAreOwed'
  <2> SUFFICES ASSUME NEW f \in Id, IsOpen(f) PROVE FanoutIsOwed(f)'
    BY <1>f DEF OpenFanoutsAreOwed
  <2>1. FanoutIsOwed(f) /\ fanouts[f].client \in Req
    BY DEF IInv, OpenFanoutsAreOwed, FanoutIsOwed
  <2>2. fanouts[f].client # r
    BY <1>0, <2>1 DEF FanoutIsOwed, MergeIsOwed
  <2> QED
    BY <1>2, <1>4, <1>f, <2>1, <2>2 DEF SendMerged, FanoutIsOwed, Ahead
<1>12. FanoutStaysOpen'
  BY <1>4 DEF SendMerged, IInv, FanoutStaysOpen, IsOpen
<1>13. MergesAreOwed'
  <2> SUFFICES ASSUME NEW t \in Server \ {s}, up[t].pc # "read" PROVE MergeIsOwed(t)'
    BY <1>u DEF MergesAreOwed
  <2>1. MergeIsOwed(t) /\ up[t].client \in Req \ {r}
    BY DEF IInv, MergesAreOwed, MergeIsOwed, SendMerged
  <2> QED
    BY <1>2, <1>4, <1>u, <2>1 DEF SendMerged, MergeIsOwed, IsOpen, IsFull
<1>14. RepliedIsDone'
  BY <1>0, <1>2, <1>4, <1>r DEF SendMerged, MergeIsOwed, IInv, RepliedIsDone
<1> QED
  BY <1>t, <1>2, <1>3, <1>5, <1>6, <1>7, <1>8, <1>9, <1>10, <1>11, <1>12, <1>13, <1>14 DEF IInv

(* A response to a frame of a request that is not fanned out.              *)
LEMMA ForwardReplyStep ==
  ASSUME IInv, NEW s \in Server, NEW q \in sent[s], ForwardReply(s, q)
  PROVE  IInv'
<1> USE DEF handlerVars, fanVars, toolVars
<1> DEFINE r == pending[s][q.id].req
<1>0. TypeOK /\ q \in Upcall /\ q.id \in Id /\ q.req \in Req
  BY DEF IInv, TypeOK, Upcall
<1>e. pending[s][q.id] = Forward(r) /\ r \in Req
  BY <1>0, EntryTypes DEF ForwardReply, Answered
<1>r. /\ ~IsFan(r) /\ ~Replied(r) /\ loc[r].srv = s /\ loc[r].id = q.id
      /\ pc[r] \in {"send", "done"}
  BY <1>0 DEF IInv, ForwardsAreOwed, ForwardIsOwed, ForwardReply, Answered
<1>q. r = q.req /\ pc[r] = "done"
  <2>1. pending[s][q.id] = EntryFor(q.req)
    BY <1>0, <1>e DEF IInv, EntriesMatchFrames, Forward, NoEntry
  <2>2. r = q.req
    BY <1>e, <2>1 DEF EntryFor, Forward, Member
  <2>3. pc[r] # "send"
    BY <1>0, <1>e, <1>r DEF IInv, UnsentEntryIsKept
  <2> QED
    BY <1>r, <2>2, <2>3
<1>p. PICK resp \in Answer(s, q) :
         toClient' = Append(toClient, [to |-> r, type |-> "result",
                                       answers |-> [NoAnswers EXCEPT ![s] = resp]])
  BY DEF ForwardReply
<1> DEFINE m == [to |-> r, type |-> "result", answers |-> [NoAnswers EXCEPT ![s] = resp]]
<1>a. resp \in Response /\ resp.from = s /\ resp.req = r
  BY <1>0, <1>q, AnswerType
<1>1. m \in Reply /\ ~Replied(m.to) /\ toClient' = Append(toClient, m)
  BY <1>a, <1>e, <1>r, <1>p, NoAnswersType DEF Reply, Answers
<1>2. /\ toClient' \in Seq(Reply) /\ AtMostOneReply' /\ MergedReplyIsComplete'
      /\ \A c \in Req : Replied(c)' <=> Replied(c) \/ c = r
  BY <1>1, AppendFacts DEF ForwardReply
<1>3. ReplyIsOwn'
  <2>1. m.answers[s] = resp /\ \A t \in Server \ {s} : m.answers[t] = NoAnswer
    BY DEF NoAnswers
  <2> QED
    BY <1>1, <1>a, <1>r, <2>1, AppendOwn DEF ForwardReply
<1>4. \A c \in Req : (IsFan(c)' <=> IsFan(c)) /\ EntryFor(c)' = EntryFor(c)
  BY DEF ForwardReply, IsFan, EntryFor
<1>f. \A f \in Id : (IsOpen(f)' <=> IsOpen(f)) /\ Empty(f)' = Empty(f)
  BY DEF ForwardReply, IsOpen, Empty
<1>k. /\ pending' \in [Server -> [Id -> PendingResp]]
      /\ pending'[s][q.id] = NoEntry
      /\ \A t \in Server, i \in Id :
           t # s \/ i # q.id => pending'[t][i] = pending[t][i]
  BY <1>0 DEF ForwardReply, RemoveEntry, TypeOK, PendingResp
<1>t. TypeOK'
  BY <1>0, <1>2, <1>k DEF TypeOK, ForwardReply
<1>5. IdsAreFresh'
  BY <1>k DEF ForwardReply, IInv, IdsAreFresh
<1>6. HandlersAreOrdered'
  BY <1>4 DEF ForwardReply, IInv, HandlersAreOrdered, IsNamedCall
<1>7. UnsentEntryIsKept'
  <2> SUFFICES ASSUME NEW c \in Req, pc[c] = "send"
               PROVE  pending'[loc[c].srv][loc[c].id] = pending[loc[c].srv][loc[c].id]
    BY <1>4 DEF ForwardReply, IInv, UnsentEntryIsKept
  <2>1. loc[c].srv \in Server /\ loc[c].id \in Id
    BY <1>0 DEF IInv, UnsentEntryIsKept, TypeOK, Local
  <2>2. loc[c].srv # s \/ loc[c].id # q.id
    BY DEF IInv, UnsentEntryIsKept
  <2> QED
    BY <1>k, <2>1, <2>2
<1>8. EntriesMatchFrames'
  BY <1>0, <1>4, <1>k DEF ForwardReply, IInv, EntriesMatchFrames, TypeOK, Upcall
<1>9. ForwardsAreOwed'
  <2> SUFFICES ASSUME NEW t \in Server, NEW i \in Id, pending'[t][i].type = "forward"
               PROVE  ForwardIsOwed(t, i)'
    BY DEF ForwardsAreOwed
  <2>1. t # s \/ i # q.id
    BY <1>0, <1>k, EntryTypes
  <2>2. pending'[t][i] = pending[t][i] /\ pending[t][i].req \in Req /\ ForwardIsOwed(t, i)
    BY <1>0, <1>k, <2>1, EntryTypes DEF IInv, ForwardsAreOwed, ForwardIsOwed
  <2> QED
    BY <1>2, <1>4, <1>r, <2>1, <2>2 DEF ForwardReply, ForwardIsOwed
<1>10. MembersAreOwed'
  <2>1. NoEntry.type # "member"
    BY DEF NoEntry
  <2> QED
    BY <1>f, <1>k, <2>1 DEF ForwardReply, IInv, MembersAreOwed, MemberIsOwed, Ahead, IsOpen
<1>11. OpenFanoutsAreOwed'
  <2> SUFFICES ASSUME NEW f \in Id, IsOpen(f) PROVE FanoutIsOwed(f)'
    BY <1>f DEF OpenFanoutsAreOwed
  <2>1. FanoutIsOwed(f) /\ fanouts[f].client \in Req \ {r}
    BY <1>r DEF IInv, OpenFanoutsAreOwed, FanoutIsOwed
  <2> QED
    BY <1>2, <1>4, <1>f, <2>1 DEF ForwardReply, FanoutIsOwed, Ahead
<1>12. FanoutStaysOpen'
  BY <1>4 DEF ForwardReply, IInv, FanoutStaysOpen, IsOpen
<1>13. MergesAreOwed'
  BY <1>2, <1>4, <1>r DEF ForwardReply, IInv, MergesAreOwed, MergeIsOwed, IsOpen, IsFull
<1>14. RepliedIsDone'
  BY <1>2, <1>4, <1>q, <1>r DEF ForwardReply, IInv, RepliedIsDone
<1> QED
  BY <1>t, <1>2, <1>3, <1>5, <1>6, <1>7, <1>8, <1>9, <1>10, <1>11, <1>12, <1>13, <1>14 DEF IInv

-----------------------------------------------------------------------------
(* Steps of a merge: the reader task keeps what it owes.                   *)

(* A reader task moves on within a merge.                                  *)
LEMMA MergeStep ==
  ASSUME IInv, NEW s \in Server, up[s].pc # "read",
         NEW u \in Collector, up' = [up EXCEPT ![s] = u],
         u.pc # "read", u.fan = up[s].fan, u.client = up[s].client,
         u.collected = up[s].collected,
         u.pc # "close" => fanouts'[up[s].fan] = NoFanOut,
         fanouts' \in [Id -> FanOut],
         \A f \in Id : fanouts'[f] = fanouts[f] \/ (fanouts'[f] = NoFanOut /\ ~IsOpen(f)),
         routing' \in [Name -> ToolRoute \cup {NoRoute}],
         ledger' \in [Name -> Schema \cup {NoSchema}],
         UNCHANGED <<handlerVars, idVars, fanNext, wireVars, silent, closed>>
  PROVE  IInv'
<1> USE DEF handlerVars, idVars, wireVars
<1>0. TypeOK
  BY DEF IInv
<1>2. \A r \in Req : /\ (IsFan(r)' <=> IsFan(r)) /\ (Replied(r)' <=> Replied(r))
                     /\ EntryFor(r)' = EntryFor(r)
  BY RepliesKept DEF EntryFor, IsFan
<1>f. \A f \in Id : /\ IsOpen(f) => fanouts'[f] = fanouts[f] /\ Empty(f)' = Empty(f)
                    /\ IsOpen(f)' <=> IsOpen(f)
  BY DEF IsOpen, Empty
<1>u. up'[s] = u /\ \A t \in Server \ {s} : up'[t] = up[t]
  BY <1>0 DEF TypeOK
<1>t. TypeOK'
  BY <1>0 DEF TypeOK
<1>5. IdsAreFresh'
  BY DEF IInv, IdsAreFresh
<1>6. HandlersAreOrdered'
  BY <1>2 DEF IInv, HandlersAreOrdered, IsNamedCall
<1>7. UnsentEntryIsKept'
  BY <1>2 DEF IInv, UnsentEntryIsKept
<1>8. EntriesMatchFrames'
  BY <1>0, <1>2 DEF IInv, EntriesMatchFrames, TypeOK, Upcall
<1>9. ForwardsAreOwed'
  BY <1>0, <1>2, EntryTypes DEF IInv, ForwardsAreOwed, ForwardIsOwed
<1>10. MembersAreOwed'
  BY <1>0, <1>f, EntryTypes DEF IInv, MembersAreOwed, MemberIsOwed, Ahead
<1>11. OpenFanoutsAreOwed'
  BY <1>2, <1>f DEF IInv, OpenFanoutsAreOwed, FanoutIsOwed, Ahead
<1>12. FanoutStaysOpen'
  BY <1>2, <1>f DEF IInv, FanoutStaysOpen, HandlersAreOrdered
<1>13. MergesAreOwed'
  <2> SUFFICES ASSUME NEW t \in Server, up'[t].pc # "read" PROVE MergeIsOwed(t)'
    BY DEF MergesAreOwed
  <2>1. /\ MergeIsOwed(t) /\ up'[t].fan = up[t].fan /\ up'[t].client = up[t].client
        /\ up'[t].collected = up[t].collected
    BY <1>u DEF IInv, MergesAreOwed
  <2>2. up[t].fan \in Id
    BY <1>0, <2>1 DEF IInv, MergeIsOwed, HandlersAreOrdered
  <2>3. \A v \in Server : up'[v].client = up[v].client /\ (up'[v].pc = "read" <=> up[v].pc = "read")
    BY <1>u
  <2>4. up'[t].pc # "close" => fanouts'[up[t].fan] = NoFanOut
    BY <1>u, <2>1, <2>2 DEF MergeIsOwed
  <2> QED
    BY <1>2, <1>f, <2>1, <2>2, <2>3, <2>4 DEF MergeIsOwed, IsFull
<1>14. RepliedIsDone'
  BY RepliedKept
<1>15. AtMostOneReply' /\ MergedReplyIsComplete' /\ ReplyIsOwn'
  BY RepliesKept, OwnRepliesKept
<1> QED
  BY <1>t, <1>5, <1>6, <1>7, <1>8, <1>9, <1>10, <1>11, <1>12, <1>13, <1>14, <1>15 DEF IInv

(* The actions of which MergeStep is true.                                 *)
LEMMA MergeSteps ==
  ASSUME IInv, NEW s \in Server, Close(s) \/ Record(s) \/ Route(s)
  PROVE  IInv'
<1> USE DEF fanVars
<1>0. TypeOK /\ up[s] \in Collector
  BY DEF IInv, TypeOK
<1>1. CASE Close(s)
  <2> DEFINE todo == IF up[s].kind = "tools/list" THEN Listed(up[s].collected) ELSE {}
             u == [up[s] EXCEPT !.pc = "merge", !.todo = todo]
  <2>1. todo \in SUBSET (Server \X Bare)
    BY DEF Listed
  <2>2. /\ u \in Collector /\ u.pc = "merge" /\ u.fan = up[s].fan
        /\ u.client = up[s].client /\ u.collected = up[s].collected
    BY <1>0, <2>1 DEF Collector
  <2>3. MergeIsOwed(s) /\ up[s].fan \in Id /\ ~IsOpen(up[s].fan)
    BY <1>1 DEF Close, IInv, MergesAreOwed, MergeIsOwed, HandlersAreOrdered
  <2>4. NoFanOut \in FanOut
    BY NoAnswersType, RouterAssumption DEF NoFanOut, FanOut
  <2>5. /\ fanouts' \in [Id -> FanOut] /\ fanouts'[up[s].fan] = NoFanOut
        /\ \A f \in Id : fanouts'[f] = fanouts[f] \/ (fanouts'[f] = NoFanOut /\ ~IsOpen(f))
    BY <1>0, <1>1, <2>3, <2>4 DEF Close, TypeOK
  <2>6. up' = [up EXCEPT ![s] = u]
    BY <1>1 DEF Close
  <2> HIDE DEF u, todo
  <2> QED
    BY <1>0, <1>1, <2>2, <2>5, <2>6, MergeStep DEF Close, toolVars, TypeOK
<1>2. CASE Record(s)
  <2>1. PICK p \in up[s].todo :
           /\ ledger' = [ledger EXCEPT ![Namespaced[p]] = up[s].collected[p[1]].list[p[2]]]
           /\ up' = [up EXCEPT ![s].pc = "route", ![s].todo = @ \ {p}, ![s].cur = {p}]
    BY <1>2 DEF Record
  <2> DEFINE u == [up[s] EXCEPT !.pc = "route", !.todo = @ \ {p}, !.cur = {p}]
  <2>2. p \in Server \X Bare
    BY <1>0 DEF Collector
  <2>3. /\ u \in Collector /\ u.pc = "route" /\ u.fan = up[s].fan
        /\ u.client = up[s].client /\ u.collected = up[s].collected
    BY <1>0, <2>2 DEF Collector
  <2>4. ledger' \in [Name -> Schema \cup {NoSchema}]
    <3>1. up[s].collected \in Answers
      BY <1>0 DEF Collector
    <3>2. up[s].collected[p[1]].list[p[2]] \in Schema \cup {NoSchema}
      BY <2>2, <3>1 DEF Answers, Response, Listing
    <3> QED
      BY <1>0, <2>1, <3>2 DEF TypeOK
  <2>5. up' = [up EXCEPT ![s] = u]
    BY <2>1
  <2> HIDE DEF u
  <2> QED
    BY <1>0, <1>2, <2>3, <2>4, <2>5, MergeStep
       DEF Record, TypeOK, IInv, MergesAreOwed, MergeIsOwed
<1>3. CASE Route(s)
  <2>1. PICK p \in up[s].cur :
           routing' = [routing EXCEPT ![Namespaced[p]] = [srv |-> p[1], tool |-> p[2]]]
    BY <1>3 DEF Route
  <2> DEFINE u == [up[s] EXCEPT !.pc = "merge", !.cur = {}]
  <2>2. p \in Server \X Bare
    BY <1>0 DEF Collector
  <2>3. /\ u \in Collector /\ u.pc = "merge" /\ u.fan = up[s].fan
        /\ u.client = up[s].client /\ u.collected = up[s].collected
    BY <1>0 DEF Collector
  <2>4. routing' \in [Name -> ToolRoute \cup {NoRoute}]
    BY <1>0, <2>1, <2>2 DEF TypeOK, ToolRoute
  <2>5. up' = [up EXCEPT ![s] = u]
    BY <1>3 DEF Route
  <2> HIDE DEF u
  <2> QED
    BY <1>0, <1>3, <2>3, <2>4, <2>5, MergeStep
       DEF Route, TypeOK, IInv, MergesAreOwed, MergeIsOwed
<1> QED
  BY <1>1, <1>2, <1>3

(* The end of an upstream or of its writer, or nothing at all.             *)
LEMMA SilentStep ==
  ASSUME IInv, silent' \subseteq Mortal, closed' \subseteq Mortal,
         UNCHANGED <<handlerVars, idVars, fanVars, toolVars, wireVars, up>>
  PROVE  IInv'
<1> USE DEF handlerVars, idVars, fanVars, toolVars, wireVars
<1>2. \A r \in Req : /\ (IsFan(r)' <=> IsFan(r)) /\ (Replied(r)' <=> Replied(r))
                     /\ EntryFor(r)' = EntryFor(r)
  BY RepliesKept DEF EntryFor, IsFan
<1>f. \A f \in Id : IsOpen(f)' = IsOpen(f) /\ Empty(f)' = Empty(f)
  BY DEF IsOpen, Empty
<1>t. TypeOK'
  BY DEF IInv, TypeOK
<1>5. IdsAreFresh'
  BY DEF IInv, IdsAreFresh
<1>6. HandlersAreOrdered'
  BY <1>2 DEF IInv, HandlersAreOrdered, IsNamedCall
<1>7. UnsentEntryIsKept'
  BY <1>2 DEF IInv, UnsentEntryIsKept
<1>8. EntriesMatchFrames'
  BY <1>2 DEF IInv, EntriesMatchFrames, TypeOK, Upcall
<1>9. ForwardsAreOwed'
  BY <1>2, EntryTypes DEF IInv, ForwardsAreOwed, ForwardIsOwed
<1>10. MembersAreOwed'
  BY <1>f, EntryTypes DEF IInv, MembersAreOwed, MemberIsOwed, Ahead
<1>11. OpenFanoutsAreOwed'
  BY <1>2, <1>f DEF IInv, OpenFanoutsAreOwed, FanoutIsOwed, Ahead
<1>12. FanoutStaysOpen'
  BY <1>2, <1>f DEF IInv, FanoutStaysOpen, IsOpen
<1>13. MergesAreOwed'
  BY <1>2 DEF IInv, MergesAreOwed, MergeIsOwed, IsOpen, IsFull
<1>14. RepliedIsDone'
  BY RepliedKept
<1>15. AtMostOneReply' /\ MergedReplyIsComplete' /\ ReplyIsOwn'
  BY RepliesKept, OwnRepliesKept
<1> QED
  BY <1>t, <1>5, <1>6, <1>7, <1>8, <1>9, <1>10, <1>11, <1>12, <1>13, <1>14, <1>15 DEF IInv

-----------------------------------------------------------------------------
(* Steps of a handler that owes a reply.                                   *)

(* An id is drawn, and its entry inserted under a key never used before.   *)
LEMMA RegisterStep ==
  ASSUME IInv, NEW r \in Req, Register(r)
  PROVE  IInv'
<1> USE DEF fanVars, toolVars, wireVars
<1> DEFINE s == loc[r].srv
           n == nextId[s]
<1>0. /\ TypeOK /\ pc[r] = "register" /\ s \in Server /\ n \in Id
      /\ n + 1 \in 1 .. MaxId + 1
  BY RouterAssumption DEF IInv, TypeOK, Register, Local, Id
<1>1. /\ pc' = [pc EXCEPT ![r] = "send"] /\ pc'[r] = "send"
      /\ \A q \in Req \ {r} : pc'[q] = pc[q] /\ loc'[q] = loc[q]
      /\ loc'[r].srv = s /\ loc'[r].id = n /\ loc'[r].fan = loc[r].fan
  BY <1>0 DEF Register, TypeOK, Local
<1>2. \A q \in Req : /\ (IsFan(q)' <=> IsFan(q)) /\ (Replied(q)' <=> Replied(q))
                     /\ EntryFor(q)' = EntryFor(q)
  BY <1>1, RepliesKept DEF Register, EntryFor, IsFan
<1>f. \A f \in Id : (IsOpen(f)' <=> IsOpen(f)) /\ Empty(f)' = Empty(f)
  BY DEF Register, IsOpen, Empty
<1>o. IsFan(r) => /\ loc[r].fan \in Id /\ IsOpen(loc[r].fan) /\ fanouts[loc[r].fan].client = r
                  /\ EntryFor(r) = Member(loc[r].fan)
  BY <1>0 DEF IInv, FanoutStaysOpen, HandlersAreOrdered, EntryFor
<1>k. /\ pending' \in [Server -> [Id -> PendingResp]]
      /\ pending'[s][n] = EntryFor(r) /\ pending[s][n] = NoEntry
      /\ \A t \in Server, i \in Id :
           t # s \/ i # n => pending'[t][i] = pending[t][i]
  <2>1. EntryFor(r) \in PendingResp
    BY <1>o DEF EntryFor, PendingResp, Forward, Member
  <2> QED
    BY <1>0, <2>1 DEF Register, TypeOK, IInv, IdsAreFresh
<1>n. nextId'[s] = n + 1 /\ \A t \in Server \ {s} : nextId'[t] = nextId[t]
  BY <1>0 DEF Register, TypeOK
<1>t. TypeOK'
  <2>1. loc' \in [Req -> Local]
    BY <1>0, LocTypes DEF Register
  <2>2. nextId' \in [Server -> 1 .. MaxId + 1]
    BY <1>0 DEF Register, TypeOK
  <2> QED
    BY <1>0, <1>k, <2>1, <2>2 DEF Register, TypeOK
<1>5. IdsAreFresh'
  <2>1. ASSUME NEW t \in Server, NEW i \in Id, i >= nextId'[t] PROVE pending'[t][i] = NoEntry
    <3>1. nextId[t] \in Nat /\ i >= nextId[t] /\ (t = s => i # n)
      BY <1>0, <1>n, <2>1 DEF TypeOK, Id
    <3> QED
      BY <1>k, <3>1 DEF IInv, IdsAreFresh
  <2>2. \A t \in Server : \A q \in sent[t] : q.id < nextId'[t]
    <3> SUFFICES ASSUME NEW t \in Server, NEW q \in sent[t] PROVE q.id < nextId'[t]
      OBVIOUS
    <3>1. q.id \in Nat /\ nextId[t] \in Nat /\ q.id < nextId[t]
      BY <1>0 DEF IInv, IdsAreFresh, TypeOK, Upcall, Id
    <3> QED
      BY <1>n, <3>1
  <2> QED
    BY <2>1, <2>2 DEF Register, IInv, IdsAreFresh
<1>6. HandlersAreOrdered'
  BY <1>0, <1>1, <1>2 DEF Register, IInv, HandlersAreOrdered, IsNamedCall
<1>7. UnsentEntryIsKept'
  <2>1. \A q \in sent[s] : q.id # n
    BY <1>0 DEF IInv, IdsAreFresh, TypeOK, Upcall, Id
  <2> SUFFICES ASSUME NEW c \in Req \ {r}, pc[c] = "send"
               PROVE  pending'[loc[c].srv][loc[c].id] = pending[loc[c].srv][loc[c].id]
    BY <1>0, <1>1, <1>2, <1>k, <2>1 DEF Register, IInv, UnsentEntryIsKept
  <2>2. /\ loc[c].srv \in Server /\ loc[c].id \in Id
        /\ pending[loc[c].srv][loc[c].id] = EntryFor(c)
    BY <1>0 DEF IInv, UnsentEntryIsKept, TypeOK, Local
  <2>3. EntryFor(c) # NoEntry
    BY DEF EntryFor, Forward, Member, NoEntry
  <2> QED
    BY <1>k, <2>2, <2>3
<1>8. EntriesMatchFrames'
  <2> SUFFICES ASSUME NEW t \in Server, NEW q \in sent[t]
               PROVE  /\ pc'[q.req] # "new"
                      /\ pending'[t][q.id] \in {NoEntry, EntryFor(q.req)}
    BY <1>0, <1>2 DEF Register, EntriesMatchFrames, TypeOK, Upcall
  <2>1. q.id \in Id /\ q.req \in Req /\ q.id < nextId[t]
    BY <1>0 DEF TypeOK, Upcall, IInv, IdsAreFresh
  <2>2. t # s \/ q.id # n
    BY <1>0, <2>1 DEF Id
  <2> QED
    BY <1>0, <1>1, <1>k, <2>1, <2>2 DEF IInv, EntriesMatchFrames
<1>9. ForwardsAreOwed'
  <2> SUFFICES ASSUME NEW t \in Server, NEW i \in Id, pending'[t][i].type = "forward"
               PROVE  ForwardIsOwed(t, i)'
    BY DEF ForwardsAreOwed
  <2>1. CASE t = s /\ i = n
    <3>1. ~IsFan(r) /\ pending'[t][i] = Forward(r)
      BY <1>k, <2>1 DEF EntryFor, Member
    <3>2. ~Replied(r)
      BY <1>0 DEF IInv, RepliedIsDone
    <3> QED
      BY <1>1, <1>2, <2>1, <3>1, <3>2 DEF ForwardIsOwed, Forward
  <2>2. CASE t # s \/ i # n
    <3>1. /\ pending'[t][i] = pending[t][i] /\ pending[t][i].req \in Req
          /\ ForwardIsOwed(t, i)
      BY <1>0, <1>k, <2>2, EntryTypes DEF IInv, ForwardsAreOwed
    <3> QED
      BY <1>0, <1>1, <1>2, <3>1 DEF ForwardIsOwed
  <2> QED
    BY <2>1, <2>2
<1>10. MembersAreOwed'
  <2> SUFFICES ASSUME NEW t \in Server, NEW i \in Id, pending'[t][i].type = "member"
               PROVE  MemberIsOwed(t, i)'
    BY DEF MembersAreOwed
  <2>1. ASSUME NEW j \in Id, pending[s][j] = Member(loc[r].fan), IsFan(r) PROVE FALSE
    <3>1. pending[s][j].type = "member" /\ pending[s][j].fan = loc[r].fan
      BY <2>1 DEF Member
    <3>2. ~Ahead(fanouts[loc[r].fan].client, s)
      BY <1>0, <3>1 DEF IInv, MembersAreOwed, MemberIsOwed
    <3> QED
      BY <1>0, <1>o, <2>1, <3>2 DEF Ahead
  <2>2. CASE t = s /\ i = n
    <3>1. IsFan(r) /\ pending'[t][i] = Member(loc[r].fan) /\ pending'[t][i].fan = loc[r].fan
      BY <1>k, <2>2 DEF EntryFor, Forward, Member
    <3>2. FanoutIsOwed(loc[r].fan) /\ Ahead(r, s)
      BY <1>0, <1>o, <3>1 DEF IInv, OpenFanoutsAreOwed, Ahead
    <3>3. fanouts[loc[r].fan].collected[s] = NoAnswer
      BY <1>0, <1>o, <3>1, <3>2 DEF FanoutIsOwed, Empty
    <3>4. \A j \in Id : pending'[t][j] = pending'[t][i] => i = j
      BY <1>0, <1>k, <2>1, <2>2, <3>1
    <3>5. ~(s > loc'[r].srv \/ (s = loc'[r].srv /\ pc'[r] = "register"))
      BY <1>0, <1>1 DEF Server
    <3> QED
      BY <1>o, <2>2, <3>1, <3>3, <3>4, <3>5 DEF Register, MemberIsOwed, IsOpen, Ahead
  <2>3. CASE t # s \/ i # n
    <3>1. /\ pending'[t][i] = pending[t][i] /\ pending[t][i].fan \in Id
          /\ pending[t][i].type = "member" /\ MemberIsOwed(t, i)
          /\ pending[t][i] = Member(pending[t][i].fan)
      BY <1>0, <1>k, <2>3, EntryTypes DEF IInv, MembersAreOwed
    <3>2. \A j \in Id : pending'[t][j] = pending'[t][i] => i = j
      <4> SUFFICES ASSUME NEW j \in Id, pending'[t][j] = pending'[t][i] PROVE i = j
        OBVIOUS
      <4>1. CASE t = s /\ j = n
        <5>1. EntryFor(r) = Member(pending[t][i].fan)
          BY <1>k, <3>1, <4>1
        <5>2. IsFan(r) /\ pending[s][i] = Member(loc[r].fan)
          BY <1>o, <3>1, <4>1, <5>1 DEF EntryFor, Forward, Member
        <5> QED
          BY <2>1, <5>2
      <4>2. CASE t # s \/ j # n
        BY <1>k, <3>1, <4>2 DEF MemberIsOwed
      <4> QED
        BY <4>1, <4>2
    <3>3. \A c \in Req, v \in Server : Ahead(c, v)' => Ahead(c, v)
      BY <1>0, <1>1 DEF Ahead
    <3>4. fanouts[pending[t][i].fan].client \in Req
      BY <3>1 DEF MemberIsOwed, IInv, OpenFanoutsAreOwed, FanoutIsOwed
    <3> QED
      BY <3>1, <3>2, <3>3, <3>4 DEF Register, MemberIsOwed, IsOpen
  <2> QED
    BY <2>2, <2>3
<1>11. OpenFanoutsAreOwed'
  <2> SUFFICES ASSUME NEW f \in Id, IsOpen(f) PROVE FanoutIsOwed(f)'
    BY <1>f DEF OpenFanoutsAreOwed
  <2>1. FanoutIsOwed(f) /\ fanouts[f].client \in Req
    BY DEF IInv, OpenFanoutsAreOwed, FanoutIsOwed
  <2>2. \A c \in Req, v \in Server : Ahead(c, v)' => Ahead(c, v)
    BY <1>0, <1>1 DEF Ahead
  <2> QED
    BY <1>0, <1>1, <1>2, <1>f, <2>1, <2>2 DEF Register, FanoutIsOwed
<1>12. FanoutStaysOpen'
  BY <1>0, <1>1, <1>2 DEF Register, IInv, FanoutStaysOpen, IsOpen
<1>13. MergesAreOwed'
  BY <1>0, <1>1, <1>2 DEF Register, IInv, MergesAreOwed, MergeIsOwed, IsOpen, IsFull
<1>14. RepliedIsDone'
  BY <1>0, <1>1, RepliedKept DEF Register
<1>15. AtMostOneReply' /\ MergedReplyIsComplete' /\ ReplyIsOwn'
  BY <1>0, <1>1, RepliesKept, OwnRepliesKept DEF Register
<1> QED
  BY <1>t, <1>5, <1>6, <1>7, <1>8, <1>9, <1>10, <1>11, <1>12, <1>13, <1>14, <1>15 DEF IInv

(* A frame is sent whose id no frame bears yet; its entry is there.        *)
LEMMA SendStep ==
  ASSUME IInv, NEW r \in Req, Send(r)
  PROVE  IInv'
<1> USE DEF idVars, fanVars, toolVars
<1> DEFINE s == loc[r].srv
           q == [id |-> loc[r].id, req |-> r, tool |-> loc[r].tool, args |-> loc[r].args]
<1>0. TypeOK /\ pc[r] = "send" /\ s \in Server /\ loc[r].id \in Id /\ q \in Upcall
  BY DEF IInv, TypeOK, Send, Local, UnsentEntryIsKept, Upcall
<1>m. MoreToDo(r) => s + 1 \in Server
  BY <1>0, RouterAssumption DEF MoreToDo, Server
<1>1. /\ \A c \in Req \ {r} : pc'[c] = pc[c] /\ loc'[c] = loc[c]
      /\ loc'[r].fan = loc[r].fan /\ loc'[r].id = loc[r].id
      /\ loc'[r].srv = IF MoreToDo(r) THEN s + 1 ELSE s
      /\ pc'[r] = IF MoreToDo(r) THEN "register" ELSE "done"
  BY <1>0 DEF Send, TypeOK, Local
<1>2. \A c \in Req : /\ (IsFan(c)' <=> IsFan(c)) /\ (Replied(c)' <=> Replied(c))
                     /\ EntryFor(c)' = EntryFor(c)
  BY <1>1, RepliesKept DEF Send, EntryFor, IsFan
<1>f. \A f \in Id : (IsOpen(f)' <=> IsOpen(f)) /\ Empty(f)' = Empty(f)
  BY DEF Send, IsOpen, Empty
<1>s. /\ sent' \in [Server -> SUBSET Upcall]
      /\ sent'[s] \in {sent[s], sent[s] \cup {q}}
      /\ \A t \in Server \ {s} : sent'[t] = sent[t]
  BY <1>0 DEF Send, Enqueue, Upcalled, TypeOK
<1>e. pending[s][q.id] = EntryFor(r) /\ \A o \in sent[s] : o.id # q.id
  BY <1>0 DEF IInv, UnsentEntryIsKept
<1>a. \A c \in Req, v \in Server : Ahead(c, v)' <=> Ahead(c, v)
  <2>1. \A v \in Server : Ahead(r, v)' <=> Ahead(r, v)
    BY <1>0, <1>1, <1>m DEF Ahead, Server, MoreToDo
  <2> QED
    BY <1>1, <2>1 DEF Ahead
<1>t. TypeOK'
  <2>1. PICK v \in Server : loc' = [loc EXCEPT ![r].srv = v]
    BY <1>0, <1>m DEF Send
  <2>2. loc' \in [Req -> Local]
    BY <1>0, <2>1, LocTypes
  <2> QED
    BY <1>0, <1>s, <2>2 DEF Send, TypeOK
<1>5. IdsAreFresh'
  <2>1. q.id < nextId[s]
    <3>1. nextId[s] \in Nat /\ q.id \in Nat /\ EntryFor(r) # NoEntry
      BY <1>0 DEF TypeOK, Id, EntryFor, Forward, Member, NoEntry
    <3> QED
      BY <1>0, <1>e, <3>1 DEF IInv, IdsAreFresh
  <2> QED
    BY <1>s, <2>1 DEF Send, IInv, IdsAreFresh
<1>6. HandlersAreOrdered'
  <2>1. IsFan(r) /\ ~MoreToDo(r) => s = NServers - 1
    BY <1>0, RouterAssumption DEF MoreToDo, Server
  <2> QED
    BY <1>0, <1>1, <1>2, <2>1 DEF Send, IInv, HandlersAreOrdered, IsNamedCall
<1>7. UnsentEntryIsKept'
  <2> SUFFICES ASSUME NEW c \in Req \ {r}, pc[c] = "send"
               PROVE  loc[c].srv = s => loc[c].id # q.id
    <3>1. \A c \in Req : pc'[c] = "send" =>
            c # r /\ pc[c] = "send" /\ loc'[c] = loc[c] /\ loc[c].srv \in Server
      BY <1>0, <1>1 DEF TypeOK, Local
    <3>2. \A c \in Req : pc[c] = "send" =>
            /\ loc[c].id \in Id /\ pending[loc[c].srv][loc[c].id] = EntryFor(c)
            /\ \A o \in sent[loc[c].srv] : o.id # loc[c].id
      BY DEF IInv, UnsentEntryIsKept
    <3>3. \A t \in Server : \A o \in sent'[t] : o \in sent[t] \/ (t = s /\ o = q)
      BY <1>s
    <3>4. pending' = pending
      BY DEF Send
    <3> QED
      BY <1>2, <3>1, <3>2, <3>3, <3>4 DEF UnsentEntryIsKept
  <2>1. pending[loc[c].srv][loc[c].id] = EntryFor(c)
    BY DEF IInv, UnsentEntryIsKept
  <2>2. EntryFor(c) # EntryFor(r)
    <3>1. CASE IsFan(c) /\ IsFan(r)
      BY <1>0, <3>1 DEF IInv, HandlersAreOrdered, EntryFor, Member
    <3>2. CASE ~(IsFan(c) /\ IsFan(r))
      BY <3>2 DEF EntryFor, Member, Forward
    <3> QED
      BY <3>1, <3>2
  <2> QED
    BY <1>e, <2>1, <2>2
<1>8. EntriesMatchFrames'
  <2> SUFFICES ASSUME NEW t \in Server, NEW o \in sent'[t]
               PROVE  /\ pc'[o.req] # "new"
                      /\ pending[t][o.id] \in {NoEntry, EntryFor(o.req)}
    BY <1>2, <1>s DEF Send, EntriesMatchFrames, Upcall
  <2>1. CASE o = q /\ t = s
    BY <1>1, <1>e, <2>1
  <2>2. CASE o \in sent[t]
    BY <1>0, <1>1, <2>2 DEF IInv, EntriesMatchFrames, TypeOK, Upcall
  <2> QED
    BY <1>s, <2>1, <2>2
<1>9. ForwardsAreOwed'
  <2> SUFFICES ASSUME NEW t \in Server, NEW i \in Id, pending[t][i].type = "forward"
               PROVE  ForwardIsOwed(t, i)'
    BY DEF Send, ForwardsAreOwed
  <2>1. pending[t][i].req \in Req /\ ForwardIsOwed(t, i)
    BY <1>0, EntryTypes DEF IInv, ForwardsAreOwed
  <2> QED
    BY <1>1, <1>2, <2>1 DEF Send, ForwardIsOwed, MoreToDo
<1>10. MembersAreOwed'
  <2> SUFFICES ASSUME NEW t \in Server, NEW i \in Id, pending[t][i].type = "member"
               PROVE  MemberIsOwed(t, i)'
    BY DEF Send, MembersAreOwed
  <2>1. MemberIsOwed(t, i) /\ pending[t][i].fan \in Id
    BY <1>0, EntryTypes DEF IInv, MembersAreOwed
  <2>2. fanouts[pending[t][i].fan].client \in Req
    BY <2>1 DEF MemberIsOwed, IInv, OpenFanoutsAreOwed, FanoutIsOwed
  <2> QED
    BY <1>a, <1>f, <2>1, <2>2 DEF Send, MemberIsOwed
<1>11. OpenFanoutsAreOwed'
  <2> SUFFICES ASSUME NEW f \in Id, IsOpen(f) PROVE FanoutIsOwed(f)'
    BY <1>f DEF OpenFanoutsAreOwed
  <2>1. FanoutIsOwed(f) /\ fanouts[f].client \in Req
    BY DEF IInv, OpenFanoutsAreOwed, FanoutIsOwed
  <2> QED
    BY <1>0, <1>1, <1>2, <1>a, <1>f, <2>1 DEF Send, FanoutIsOwed
<1>12. FanoutStaysOpen'
  BY <1>0, <1>1, <1>2 DEF Send, IInv, FanoutStaysOpen, IsOpen
<1>13. MergesAreOwed'
  BY <1>0, <1>1, <1>2 DEF Send, IInv, MergesAreOwed, MergeIsOwed, IsOpen, IsFull
<1>14. RepliedIsDone'
  BY <1>0, <1>1, RepliedKept DEF Send
<1>15. AtMostOneReply' /\ MergedReplyIsComplete' /\ ReplyIsOwn'
  BY <1>0, <1>1, RepliesKept, OwnRepliesKept DEF Send
<1> QED
  BY <1>t, <1>5, <1>6, <1>7, <1>8, <1>9, <1>10, <1>11, <1>12, <1>13, <1>14, <1>15 DEF IInv

-----------------------------------------------------------------------------
(* Steps that collect a response into a fan-out.                           *)

(* The response is for the fan-out's own request and goes to an empty slot.*)
LEMMA MemberFacts ==
  ASSUME IInv, NEW s \in Server, NEW q \in sent[s], Answered(s, q, "member"),
         NEW f, f = pending[s][q.id].fan
  PROVE  /\ q \in Upcall /\ q.id \in Id /\ q.req \in Req
         /\ f \in Id /\ IsOpen(f) /\ FanoutIsOwed(f) /\ fanouts[f] \in FanOut
         /\ pending[s][q.id] = Member(f)
         /\ fanouts[f].client = q.req /\ s \in Empty(f) /\ ~Ahead(q.req, s)
         /\ \A j \in Id : pending[s][j] = Member(f) => j = q.id
         /\ ~(pc[q.req] = "send" /\ loc[q.req].srv = s)
<1>0. TypeOK /\ q \in Upcall /\ q.id \in Id /\ q.req \in Req
  BY DEF IInv, TypeOK, Upcall
<1>1. f \in Id /\ pending[s][q.id] = Member(f) /\ pending[s][q.id].type = "member"
  BY <1>0, EntryTypes DEF Answered
<1>2. MemberIsOwed(s, q.id)
  BY <1>0, <1>1 DEF IInv, MembersAreOwed
<1>3. IsOpen(f) /\ FanoutIsOwed(f) /\ s \in Empty(f) /\ fanouts[f] \in FanOut
  BY <1>0, <1>1, <1>2 DEF MemberIsOwed, IInv, OpenFanoutsAreOwed, Empty, TypeOK
<1>4. pending[s][q.id] = EntryFor(q.req) /\ pc[q.req] # "new"
  <2>1. NoEntry.type # "member"
    BY DEF NoEntry
  <2> QED
    BY <1>0, <1>1, <2>1 DEF IInv, EntriesMatchFrames
<1>5. IsFan(q.req) /\ loc[q.req].fan = f
  <2>1. EntryFor(q.req).type = "member" /\ EntryFor(q.req).fan = f
    BY <1>1, <1>4 DEF Member
  <2>2. IsFan(q.req)
    BY <2>1 DEF EntryFor, Forward
  <2> QED
    BY <2>1, <2>2 DEF EntryFor, Member
<1>6. fanouts[f].client = q.req
  BY <1>0, <1>3, <1>4, <1>5 DEF IInv, HandlersAreOrdered, FanoutIsOwed
<1>7. ~(pc[q.req] = "send" /\ loc[q.req].srv = s)
  <2> SUFFICES ASSUME pc[q.req] = "send", loc[q.req].srv = s PROVE FALSE
    OBVIOUS
  <2>1. loc[q.req].id \in Id /\ pending[s][loc[q.req].id] = EntryFor(q.req) /\ loc[q.req].id # q.id
    BY <1>0 DEF IInv, UnsentEntryIsKept
  <2> QED
    BY <1>0, <1>2, <1>4, <2>1 DEF MemberIsOwed
<1> QED
  BY <1>0, <1>1, <1>2, <1>3, <1>6, <1>7 DEF MemberIsOwed

(* What is left in pending after an entry's removal.                       *)
LEMMA RemoveFacts ==
  ASSUME TypeOK, NEW s \in Server, NEW i \in Id, RemoveEntry(s, i)
  PROVE  /\ pending' \in [Server -> [Id -> PendingResp]]
         /\ pending'[s][i] = NoEntry
         /\ \A t \in Server, j \in Id : t # s \/ j # i => pending'[t][j] = pending[t][j]
  BY DEF RemoveEntry, TypeOK, PendingResp

(* The empty slots are finitely many, as the upstreams are.                *)
LEMMA EmptyIsFinite == ASSUME NEW f PROVE IsFiniteSet(Empty(f))
<1>1. IsFiniteSet(Server)
  <2>1. NServers - 1 \in Int
    BY RouterAssumption
  <2>2. IsFiniteSet(0 .. NServers - 1)
    BY <2>1, FS_Interval
  <2> QED
    BY <2>2 DEF Server
<1> QED
  BY <1>1, FS_Subset DEF Empty

(* A response, not the last, goes to its empty slot: one less to wait for. *)
LEMMA CollectStep ==
  ASSUME IInv, NEW s \in Server, NEW q \in sent[s], Collect(s, q)
  PROVE  IInv'
<1> USE DEF handlerVars, toolVars, wireVars
<1>g. PICK f : f = pending[s][q.id].fan
  OBVIOUS
<1>0. TypeOK /\ Answered(s, q, "member") /\ RemoveEntry(s, q.id)
  BY DEF IInv, Collect
<1>m. /\ q \in Upcall /\ q.id \in Id /\ q.req \in Req
      /\ f \in Id /\ IsOpen(f) /\ FanoutIsOwed(f) /\ fanouts[f] \in FanOut
      /\ pending[s][q.id] = Member(f)
      /\ fanouts[f].client = q.req /\ s \in Empty(f) /\ ~Ahead(q.req, s)
      /\ \A j \in Id : pending[s][j] = Member(f) => j = q.id
  BY <1>0, <1>g, MemberFacts
<1>n. fanouts[f].remaining > 1
  BY <1>g, <1>m DEF Collect, IsOpen
<1>p. PICK resp \in Answer(s, q) :
         fanouts' = [fanouts EXCEPT ![f].collected[s] = resp, ![f].remaining = @ - 1]
  BY <1>g, <1>m DEF Collect, IsOpen
<1>a. resp \in Response /\ resp.from = s /\ resp.req = q.req /\ resp # NoAnswer
  BY <1>0, <1>m, AnswerType, RouterAssumption DEF NoAnswer
<1>w. /\ fanouts' \in [Id -> FanOut]
      /\ \A h \in Id \ {f} : fanouts'[h] = fanouts[h]
      /\ fanouts'[f].client = q.req /\ fanouts'[f].kind = fanouts[f].kind
      /\ fanouts'[f].remaining = fanouts[f].remaining - 1
      /\ fanouts'[f].collected[s] = resp
      /\ \A t \in Server \ {s} : fanouts'[f].collected[t] = fanouts[f].collected[t]
  <2>1. [fanouts[f].collected EXCEPT ![s] = resp] \in Answers
    BY <1>a, <1>m DEF FanOut, Answers
  <2>2. fanouts[f].remaining - 1 \in 0 .. NServers
    BY <1>m, <1>n, RouterAssumption DEF FanOut
  <2> DEFINE fo == [fanouts[f] EXCEPT !.collected = [@ EXCEPT ![s] = resp], !.remaining = @ - 1]
  <2>3. fo \in FanOut
    BY <1>m, <2>1, <2>2 DEF FanOut
  <2>4. fanouts' = [fanouts EXCEPT ![f] = fo]
    BY <1>p
  <2>5. /\ fo.client = q.req /\ fo.kind = fanouts[f].kind
        /\ fo.remaining = fanouts[f].remaining - 1
        /\ fo.collected = [fanouts[f].collected EXCEPT ![s] = resp]
    BY <1>m DEF FanOut
  <2> HIDE DEF fo
  <2> QED
    BY <1>0, <1>m, <2>3, <2>4, <2>5 DEF TypeOK, FanOut, Answers
<1>2. \A c \in Req : /\ (IsFan(c)' <=> IsFan(c)) /\ (Replied(c)' <=> Replied(c))
                     /\ EntryFor(c)' = EntryFor(c)
  BY RepliesKept DEF Collect, EntryFor, IsFan
<1>f. /\ \A h \in Id \ {f} : (IsOpen(h)' <=> IsOpen(h)) /\ Empty(h)' = Empty(h)
      /\ IsOpen(f)' /\ Empty(f)' = Empty(f) \ {s}
  <2>1. IsOpen(f)'
    BY <1>m, <1>w, RouterAssumption DEF IsOpen, NoFanOut, Taken
  <2>2. Empty(f)' = Empty(f) \ {s}
    BY <1>a, <1>w DEF Empty
  <2> QED
    BY <1>w, <2>1, <2>2 DEF IsOpen, Empty
<1>k. /\ pending' \in [Server -> [Id -> PendingResp]]
      /\ pending'[s][q.id] = NoEntry
      /\ \A t \in Server, i \in Id :
           t # s \/ i # q.id => pending'[t][i] = pending[t][i]
  BY <1>0, <1>m, RemoveFacts
<1>t. TypeOK'
  BY <1>0, <1>k, <1>w DEF TypeOK, Collect
<1>5. IdsAreFresh'
  <2>1. ~(f >= fanNext)
    BY <1>m DEF IInv, IdsAreFresh, IsOpen
  <2>2. \A h \in Id : h >= fanNext => fanouts'[h] = NoFanOut
    BY <1>w, <2>1 DEF IInv, IdsAreFresh
  <2>3. \A t \in Server : \A i \in Id : i >= nextId[t] => pending'[t][i] = NoEntry
    BY <1>k DEF IInv, IdsAreFresh
  <2> QED
    BY <2>2, <2>3 DEF Collect, IInv, IdsAreFresh
<1>6. HandlersAreOrdered'
  BY <1>2 DEF Collect, IInv, HandlersAreOrdered, IsNamedCall
<1>7. UnsentEntryIsKept'
  <2> SUFFICES ASSUME NEW c \in Req, pc[c] = "send"
               PROVE  pending'[loc[c].srv][loc[c].id] = pending[loc[c].srv][loc[c].id]
    BY <1>2 DEF Collect, IInv, UnsentEntryIsKept
  <2>1. loc[c].srv \in Server /\ loc[c].id \in Id
    BY <1>0 DEF IInv, UnsentEntryIsKept, TypeOK, Local
  <2>2. loc[c].srv # s \/ loc[c].id # q.id
    BY DEF IInv, UnsentEntryIsKept
  <2> QED
    BY <1>k, <2>1, <2>2
<1>8. EntriesMatchFrames'
  <2> SUFFICES ASSUME NEW t \in Server, NEW o \in sent[t]
               PROVE  pc[o.req] # "new" /\ pending'[t][o.id] \in {NoEntry, EntryFor(o.req)}
    BY <1>0, <1>2 DEF Collect, EntriesMatchFrames, TypeOK, Upcall
  <2>1. o.id \in Id
    BY <1>0 DEF TypeOK, Upcall
  <2> QED
    BY <1>k, <2>1 DEF IInv, EntriesMatchFrames
<1>9. ForwardsAreOwed'
  <2> SUFFICES ASSUME NEW t \in Server, NEW i \in Id, pending'[t][i].type = "forward"
               PROVE  ForwardIsOwed(t, i)'
    BY DEF ForwardsAreOwed
  <2>1. t # s \/ i # q.id
    BY <1>0, <1>k, <1>m, EntryTypes
  <2>2. pending'[t][i] = pending[t][i] /\ pending[t][i].req \in Req /\ ForwardIsOwed(t, i)
    BY <1>0, <1>k, <2>1, EntryTypes DEF IInv, ForwardsAreOwed
  <2> QED
    BY <1>2, <2>2 DEF Collect, ForwardIsOwed
<1>10. MembersAreOwed'
  <2> SUFFICES ASSUME NEW t \in Server, NEW i \in Id, pending'[t][i].type = "member"
               PROVE  MemberIsOwed(t, i)'
    BY DEF MembersAreOwed
  <2>1. t # s \/ i # q.id
    BY <1>0, <1>k, <1>m, EntryTypes
  <2>2. /\ pending'[t][i] = pending[t][i] /\ pending[t][i].fan \in Id /\ MemberIsOwed(t, i)
        /\ pending[t][i] = Member(pending[t][i].fan)
    BY <1>0, <1>k, <2>1, EntryTypes DEF IInv, MembersAreOwed
  <2>3. \A j \in Id : pending'[t][j] = pending'[t][i] => i = j
    <3>1. NoEntry # pending'[t][i]
      BY <2>2 DEF NoEntry, Member
    <3> QED
      BY <1>k, <1>m, <2>2, <3>1 DEF MemberIsOwed
  <2>4. pending[t][i].fan = f => t # s
    BY <1>m, <2>1, <2>2
  <2>5. fanouts'[pending[t][i].fan].collected[t] = NoAnswer
    BY <1>w, <2>2, <2>4 DEF MemberIsOwed
  <2>6. /\ IsOpen(pending[t][i].fan)'
        /\ fanouts'[pending[t][i].fan].client = fanouts[pending[t][i].fan].client
    <3>1. \A h \in Id : IsOpen(h) => IsOpen(h)' /\ fanouts'[h].client = fanouts[h].client
      BY <1>f, <1>m, <1>w
    <3>2. PICK h \in Id : h = pending[t][i].fan
      BY <2>2
    <3>3. IsOpen(h)' /\ fanouts'[h].client = fanouts[h].client /\ h = pending'[t][i].fan
      BY <2>2, <3>1, <3>2 DEF MemberIsOwed
    <3> QED
      BY <2>2, <3>2, <3>3 DEF IsOpen
  <2> QED
    BY <2>2, <2>3, <2>5, <2>6 DEF Collect, MemberIsOwed, Ahead, IsOpen
<1>11. OpenFanoutsAreOwed'
  <2>1. FanoutIsOwed(f)'
    <3>1. Cardinality(Empty(f) \ {s}) = Cardinality(Empty(f)) - 1
      BY <1>m, EmptyIsFinite, FS_RemoveElement
    <3>2. fanouts'[f].remaining = Cardinality(Empty(f)')
      BY <1>f, <1>m, <1>w, <3>1 DEF FanoutIsOwed
    <3>3. ASSUME NEW t \in Server
          PROVE  /\ Ahead(q.req, t) => t \in Empty(f)'
                 /\ t \notin Empty(f)' =>
                      fanouts'[f].collected[t].req = q.req /\ fanouts'[f].collected[t].from = t
      BY <1>a, <1>f, <1>m, <1>w DEF FanoutIsOwed
    <3> QED
      BY <1>2, <1>m, <1>w, <3>2, <3>3 DEF Collect, FanoutIsOwed, Ahead
  <2>2. ASSUME NEW h \in Id \ {f}, IsOpen(h)' PROVE FanoutIsOwed(h)'
    <3>1. FanoutIsOwed(h) /\ fanouts[h].client \in Req /\ fanouts'[h] = fanouts[h]
      BY <1>f, <1>w, <2>2 DEF IInv, OpenFanoutsAreOwed, FanoutIsOwed
    <3> QED
      BY <1>2, <1>f, <3>1 DEF Collect, FanoutIsOwed, Ahead
  <2> QED
    BY <2>1, <2>2 DEF OpenFanoutsAreOwed
<1>12. FanoutStaysOpen'
  <2>1. \A h \in Id : IsOpen(h) => IsOpen(h)' /\ fanouts'[h].client = fanouts[h].client
    BY <1>f, <1>m, <1>w
  <2>2. \A c \in Req : IsFan(c) /\ pc[c] \in {"register", "send"} => loc[c].fan \in Id
    BY DEF IInv, HandlersAreOrdered
  <2> QED
    BY <1>2, <2>1, <2>2 DEF Collect, IInv, FanoutStaysOpen, IsOpen
<1>13. MergesAreOwed'
  <2> SUFFICES ASSUME NEW t \in Server, up[t].pc # "read" PROVE MergeIsOwed(t)'
    BY DEF Collect, MergesAreOwed
  <2>1. MergeIsOwed(t) /\ up[t].fan \in Id \ {f}
    BY <1>m DEF IInv, MergesAreOwed, MergeIsOwed, HandlersAreOrdered
  <2>2. ~IsOpen(up[t].fan)' /\ fanouts'[up[t].fan] = fanouts[up[t].fan]
    BY <1>w, <2>1 DEF Collect, MergeIsOwed, IsOpen
  <2> QED
    BY <1>2, <2>1, <2>2 DEF Collect, MergeIsOwed, IsFull
<1>14. RepliedIsDone'
  BY <1>m, <1>w, RepliedKept DEF Collect, IsOpen
<1>15. AtMostOneReply' /\ MergedReplyIsComplete' /\ ReplyIsOwn'
  BY RepliesKept, OwnRepliesKept DEF Collect
<1> QED
  BY <1>t, <1>5, <1>6, <1>7, <1>8, <1>9, <1>10, <1>11, <1>12, <1>13, <1>14, <1>15 DEF IInv

(* The last response empties the fan-out: a merge is owed in its place.    *)
LEMMA CollectLastStep ==
  ASSUME IInv, NEW s \in Server, NEW q \in sent[s], CollectLast(s, q)
  PROVE  IInv'
<1> USE DEF handlerVars, toolVars, wireVars
<1>g. PICK f : f = pending[s][q.id].fan
  OBVIOUS
<1>0. TypeOK /\ Answered(s, q, "member") /\ RemoveEntry(s, q.id)
  BY DEF IInv, CollectLast
<1> DEFINE r == q.req
<1>m. /\ q \in Upcall /\ q.id \in Id /\ r \in Req
      /\ f \in Id /\ IsOpen(f) /\ FanoutIsOwed(f) /\ fanouts[f] \in FanOut
      /\ pending[s][q.id] = Member(f)
      /\ fanouts[f].client = r /\ s \in Empty(f) /\ ~Ahead(r, s)
      /\ \A j \in Id : pending[s][j] = Member(f) => j = q.id
      /\ ~(pc[r] = "send" /\ loc[r].srv = s)
  BY <1>0, <1>g, MemberFacts
<1>p. PICK resp \in Answer(s, q) :
         up' = [up EXCEPT ![s] =
                 [Reading EXCEPT !.pc = "close", !.fan = f, !.kind = fanouts[f].kind,
                                 !.client = fanouts[f].client,
                                 !.collected = [fanouts[f].collected EXCEPT ![s] = resp]]]
  BY <1>g DEF CollectLast
<1>a. resp \in Response /\ resp.from = s /\ resp.req = r
  BY <1>0, <1>m, AnswerType
<1>c. Empty(f) = {s}
  <2>1. Cardinality(Empty(f)) <= 1 /\ Cardinality(Empty(f)) \in Nat
    BY <1>g, <1>m, EmptyIsFinite, FS_CardinalityType DEF CollectLast, FanoutIsOwed
  <2>2. Cardinality(Empty(f) \ {s}) = Cardinality(Empty(f)) - 1 /\ IsFiniteSet(Empty(f) \ {s})
    BY <1>m, EmptyIsFinite, FS_RemoveElement
  <2>3. Cardinality(Empty(f) \ {s}) = 0
    BY <2>1, <2>2, FS_CardinalityType
  <2>4. Empty(f) \ {s} = {}
    BY <2>2, <2>3, FS_EmptySet
  <2> QED
    BY <1>m, <2>4
<1>d. pc[r] = "done" /\ IsFan(r) /\ ~Replied(r) /\ loc[r].fan = f
  <2>0. IsFan(r) /\ ~Replied(r) /\ loc[r].fan = f /\ pc[r] # "new" /\ loc[r].srv \in Server
    BY <1>0, <1>m DEF FanoutIsOwed, TypeOK, Local
  <2>1. pc[r] \notin {"validate", "reject"}
    BY <1>m, <2>0 DEF IInv, HandlersAreOrdered, IsNamedCall, IsFan, FanMethod
  <2>2. pc[r] # "register"
    BY <1>c, <1>m, <2>0 DEF FanoutIsOwed, Ahead
  <2>3. ASSUME pc[r] = "send" PROVE FALSE
    <3>1. loc[r].id \in Id /\ pending[loc[r].srv][loc[r].id] = Member(f)
      BY <1>m, <2>0, <2>3 DEF IInv, UnsentEntryIsKept, EntryFor
    <3>2. pending[loc[r].srv][loc[r].id].type = "member" /\ pending[loc[r].srv][loc[r].id].fan = f
      BY <3>1 DEF Member
    <3>3. loc[r].srv \in Empty(f)
      BY <2>0, <3>1, <3>2 DEF IInv, MembersAreOwed, MemberIsOwed, Empty
    <3> QED
      BY <1>c, <1>m, <2>3, <3>3
  <2> QED
    BY <1>0, <1>m, <2>0, <2>1, <2>2, <2>3 DEF TypeOK
<1>u. /\ up'[s] \in Collector /\ up'[s].client = r /\ up'[s].fan = f /\ up'[s].pc = "close"
      /\ IsFull(up'[s].collected, r)
      /\ \A t \in Server \ {s} : up'[t] = up[t]
  <2> DEFINE col == [fanouts[f].collected EXCEPT ![s] = resp]
             u == [Reading EXCEPT !.pc = "close", !.fan = f, !.kind = fanouts[f].kind,
                                  !.client = fanouts[f].client, !.collected = col]
  <2>1. col \in Answers
    BY <1>a, <1>m DEF FanOut, Answers
  <2>2. IsFull(col, r)
    <3> SUFFICES ASSUME NEW t \in Server PROVE col[t].req = r /\ col[t].from = t
      BY DEF IsFull
    <3>1. CASE t = s
      BY <1>a, <1>m, <3>1 DEF FanOut, Answers
    <3>2. CASE t # s
      BY <1>c, <1>m, <3>2 DEF FanoutIsOwed, FanOut, Answers
    <3> QED
      BY <3>1, <3>2
  <2>3. u \in Collector
    BY <1>m, <2>1 DEF Reading, Collector, FanOut
  <2>4. up' = [up EXCEPT ![s] = u] /\ u.client = r /\ u.fan = f /\ u.collected = col
        /\ u.pc = "close"
    BY <1>m, <1>p DEF Reading
  <2> HIDE DEF u, col
  <2> QED
    BY <1>0, <2>2, <2>3, <2>4 DEF TypeOK
<1>w. /\ fanouts' \in [Id -> FanOut] /\ fanouts'[f] = Taken
      /\ \A h \in Id \ {f} : fanouts'[h] = fanouts[h]
  <2>1. Taken \in FanOut
    BY RouterAssumption, NoAnswersType DEF Taken, FanOut, FanMethod
  <2> QED
    BY <1>0, <1>g, <1>m, <2>1 DEF CollectLast, TypeOK
<1>2. \A c \in Req : /\ (IsFan(c)' <=> IsFan(c)) /\ (Replied(c)' <=> Replied(c))
                     /\ EntryFor(c)' = EntryFor(c)
  BY RepliesKept DEF CollectLast, EntryFor, IsFan
<1>f. /\ \A h \in Id \ {f} : (IsOpen(h)' <=> IsOpen(h)) /\ Empty(h)' = Empty(h)
      /\ ~IsOpen(f)'
  BY <1>w DEF IsOpen, Empty
<1>k. /\ pending' \in [Server -> [Id -> PendingResp]]
      /\ pending'[s][q.id] = NoEntry
      /\ \A t \in Server, i \in Id :
           t # s \/ i # q.id => pending'[t][i] = pending[t][i]
  BY <1>0, <1>m, RemoveFacts
<1>t. TypeOK'
  <2>1. up' \in [Server -> Collector]
    BY <1>0, <1>p, <1>u DEF TypeOK
  <2> QED
    BY <1>0, <1>k, <1>w, <2>1 DEF TypeOK, CollectLast
<1>5. IdsAreFresh'
  <2>1. ~(f >= fanNext)
    BY <1>m DEF IInv, IdsAreFresh, IsOpen
  <2>2. \A h \in Id : h >= fanNext => fanouts'[h] = NoFanOut
    BY <1>w, <2>1 DEF IInv, IdsAreFresh
  <2>3. \A t \in Server : \A i \in Id : i >= nextId[t] => pending'[t][i] = NoEntry
    BY <1>k DEF IInv, IdsAreFresh
  <2> QED
    BY <2>2, <2>3 DEF CollectLast, IInv, IdsAreFresh
<1>6. HandlersAreOrdered'
  BY <1>2 DEF CollectLast, IInv, HandlersAreOrdered, IsNamedCall
<1>7. UnsentEntryIsKept'
  <2> SUFFICES ASSUME NEW c \in Req, pc[c] = "send"
               PROVE  pending'[loc[c].srv][loc[c].id] = pending[loc[c].srv][loc[c].id]
    BY <1>2 DEF CollectLast, IInv, UnsentEntryIsKept
  <2>1. loc[c].srv \in Server /\ loc[c].id \in Id
    BY <1>0 DEF IInv, UnsentEntryIsKept, TypeOK, Local
  <2>2. loc[c].srv # s \/ loc[c].id # q.id
    BY DEF IInv, UnsentEntryIsKept
  <2> QED
    BY <1>k, <2>1, <2>2
<1>8. EntriesMatchFrames'
  <2> SUFFICES ASSUME NEW t \in Server, NEW o \in sent[t]
               PROVE  pc[o.req] # "new" /\ pending'[t][o.id] \in {NoEntry, EntryFor(o.req)}
    BY <1>0, <1>2 DEF CollectLast, EntriesMatchFrames, TypeOK, Upcall
  <2>1. o.id \in Id
    BY <1>0 DEF TypeOK, Upcall
  <2> QED
    BY <1>k, <2>1 DEF IInv, EntriesMatchFrames
<1>9. ForwardsAreOwed'
  <2> SUFFICES ASSUME NEW t \in Server, NEW i \in Id, pending'[t][i].type = "forward"
               PROVE  ForwardIsOwed(t, i)'
    BY DEF ForwardsAreOwed
  <2>1. t # s \/ i # q.id
    BY <1>0, <1>k, <1>m, EntryTypes
  <2>2. pending'[t][i] = pending[t][i] /\ pending[t][i].req \in Req /\ ForwardIsOwed(t, i)
    BY <1>0, <1>k, <2>1, EntryTypes DEF IInv, ForwardsAreOwed
  <2> QED
    BY <1>2, <2>2 DEF CollectLast, ForwardIsOwed
<1>10. MembersAreOwed'
  <2> SUFFICES ASSUME NEW t \in Server, NEW i \in Id, pending'[t][i].type = "member"
               PROVE  MemberIsOwed(t, i)'
    BY DEF MembersAreOwed
  <2>1. t # s \/ i # q.id
    BY <1>0, <1>k, <1>m, EntryTypes
  <2>2. /\ pending'[t][i] = pending[t][i] /\ pending[t][i].fan \in Id /\ MemberIsOwed(t, i)
        /\ pending[t][i] = Member(pending[t][i].fan)
    BY <1>0, <1>k, <2>1, EntryTypes DEF IInv, MembersAreOwed
  <2>3. \A j \in Id : pending'[t][j] = pending'[t][i] => i = j
    <3>1. NoEntry # pending'[t][i]
      BY <2>2 DEF NoEntry, Member
    <3> QED
      BY <1>k, <1>m, <2>2, <3>1 DEF MemberIsOwed
  <2>4. pending[t][i].fan # f
    <3>1. pending[t][i].fan = f => t \in Empty(f)
      BY <2>2 DEF MemberIsOwed, Empty
    <3> QED
      BY <1>c, <1>m, <2>1, <2>2, <3>1
  <2>5. fanouts'[pending[t][i].fan] = fanouts[pending[t][i].fan]
    BY <1>w, <2>2, <2>4
  <2> QED
    BY <2>2, <2>3, <2>5 DEF CollectLast, MemberIsOwed, Ahead, IsOpen
<1>11. OpenFanoutsAreOwed'
  <2> SUFFICES ASSUME NEW h \in Id \ {f}, IsOpen(h)' PROVE FanoutIsOwed(h)'
    BY <1>f DEF OpenFanoutsAreOwed
  <2>1. FanoutIsOwed(h) /\ fanouts[h].client \in Req /\ fanouts'[h] = fanouts[h]
    BY <1>f, <1>w DEF IInv, OpenFanoutsAreOwed, FanoutIsOwed
  <2> QED
    BY <1>2, <1>f, <2>1 DEF CollectLast, FanoutIsOwed, Ahead
<1>12. FanoutStaysOpen'
  <2> SUFFICES ASSUME NEW c \in Req, IsFan(c), pc[c] \in {"register", "send"}
               PROVE  loc[c].fan \in Id \ {f}
    BY <1>2, <1>w DEF CollectLast, IInv, FanoutStaysOpen, IsOpen
  <2> QED
    BY <1>d, <1>m DEF IInv, HandlersAreOrdered
<1>13. MergesAreOwed'
  <2>1. MergeIsOwed(s)'
    <3>1. \A t \in Server \ {s} : up'[t].pc # "read" => up'[t].client # r
      BY <1>d, <1>m, <1>u DEF IInv, MergesAreOwed, MergeIsOwed
    <3> QED
      BY <1>2, <1>d, <1>f, <1>m, <1>u, <3>1 DEF CollectLast, MergeIsOwed, IsFull, IsOpen
  <2>2. ASSUME NEW t \in Server \ {s}, up'[t].pc # "read" PROVE MergeIsOwed(t)'
    <3>1. MergeIsOwed(t) /\ up[t].fan \in Id \ {f} /\ up'[t] = up[t]
      BY <1>m, <1>u, <2>2 DEF IInv, MergesAreOwed, MergeIsOwed, HandlersAreOrdered
    <3>2. fanouts'[up[t].fan] = fanouts[up[t].fan]
      BY <1>w, <3>1
    <3>3. up[t].client # r
      BY <1>d, <3>1 DEF MergeIsOwed
    <3>4. \A v \in Server \ {t} : up'[v].pc # "read" => up'[v].client # up[t].client
      BY <1>u, <3>1, <3>3 DEF MergeIsOwed
    <3>5. /\ up[t].client \in Req /\ up[t].fan = loc[up[t].client].fan
          /\ IsFan(up[t].client) /\ pc[up[t].client] = "done" /\ ~Replied(up[t].client)
          /\ IsFull(up[t].collected, up[t].client)
      BY <3>1 DEF MergeIsOwed
    <3>6. /\ fanouts'[up[t].fan] \in {NoFanOut, Taken}
          /\ up[t].pc # "close" => fanouts'[up[t].fan] = NoFanOut
      BY <3>1, <3>2 DEF MergeIsOwed, IsOpen
    <3> QED
      BY <1>2, <3>1, <3>4, <3>5, <3>6 DEF CollectLast, MergeIsOwed, IsFull, IsOpen, Replied, IsFan
  <2> QED
    BY <2>1, <2>2 DEF MergesAreOwed
<1>14. RepliedIsDone'
  BY <1>m, <1>w, RepliedKept DEF CollectLast, IsOpen
<1>15. AtMostOneReply' /\ MergedReplyIsComplete' /\ ReplyIsOwn'
  BY RepliesKept, OwnRepliesKept DEF CollectLast
<1> QED
  BY <1>t, <1>5, <1>6, <1>7, <1>8, <1>9, <1>10, <1>11, <1>12, <1>13, <1>14, <1>15 DEF IInv

-----------------------------------------------------------------------------
(* The invariant holds at the start: every map is empty.                   *)
LEMMA InitIInv == Init => IInv
<1> SUFFICES ASSUME Init PROVE IInv
  OBVIOUS
<1>1. TypeOK
  BY InitType
<1>2. \A r \in Req : ~Replied(r)
  BY DEF Init, Replied
<1>3. AtMostOneReply /\ ReplyIsOwn /\ MergedReplyIsComplete
  BY DEF Init, AtMostOneReply, ReplyIsOwn, MergedReplyIsComplete
<1>4. IdsAreFresh /\ HandlersAreOrdered /\ UnsentEntryIsKept /\ EntriesMatchFrames
  BY DEF Init, IdsAreFresh, HandlersAreOrdered, UnsentEntryIsKept, EntriesMatchFrames
<1>5. ForwardsAreOwed /\ MembersAreOwed
  BY DEF Init, ForwardsAreOwed, MembersAreOwed, NoEntry
<1>6. OpenFanoutsAreOwed /\ FanoutStaysOpen
  BY DEF Init, OpenFanoutsAreOwed, FanoutStaysOpen, IsOpen
<1>7. MergesAreOwed /\ RepliedIsDone
  BY <1>2 DEF Init, MergesAreOwed, RepliedIsDone, Reading
<1> QED
  BY <1>1, <1>3, <1>4, <1>5, <1>6, <1>7 DEF IInv

(* ... and every step keeps it: one lemma for each action.                 *)
LEMMA NextIInv == IInv /\ [Next]_vars => IInv'
<1> SUFFICES ASSUME IInv, [Next]_vars PROVE IInv'
  OBVIOUS
<1>1. ASSUME NEW r \in Req, Start(r) PROVE IInv'
  BY <1>1, OpenFanoutStep, EarlySteps, RejectSteps DEF Start
<1>2. ASSUME NEW r \in Req, Handle(r) PROVE IInv'
  BY <1>2, EarlySteps, RejectSteps, ReplyInvalidStep, RegisterStep, SendStep DEF Handle
<1>3. ASSUME NEW s \in Server, Merge(s) PROVE IInv'
  BY <1>3, MergeSteps, SendMergedStep DEF Merge
<1>4. ASSUME NEW s \in Server, Fail(s) PROVE IInv'
  BY <1>4, SilentStep DEF Fail, Crash, WriterEnds, IInv, TypeOK
<1>5. ASSUME NEW s \in Server, NEW q \in sent[s], Respond(s, q) PROVE IInv'
  BY <1>5, ForwardReplyStep, CollectStep, CollectLastStep DEF Respond
<1>6. CASE UNCHANGED vars
  BY <1>6, SilentStep
     DEF vars, handlerVars, idVars, fanVars, toolVars, wireVars, IInv, TypeOK
<1> QED
  BY <1>1, <1>2, <1>3, <1>4, <1>5, <1>6 DEF Next

(* The inductive invariant holds in every state of every behaviour.        *)
THEOREM Invariance == Spec => []IInv
<1> QED
  BY InitIInv, NextIInv, PTL DEF Spec

-----------------------------------------------------------------------------
(* Every variable keeps to its type, whatever the tasks' interleaving.     *)
THEOREM TypeCorrect == Spec => []TypeOK
<1>1. IInv => TypeOK
  BY DEF IInv
<1> QED
  BY <1>1, Invariance, PTL

(* No request of a client is answered twice.                               *)
THEOREM OneReply == Spec => []AtMostOneReply
<1>1. IInv => AtMostOneReply
  BY DEF IInv
<1> QED
  BY <1>1, Invariance, PTL

(* A response goes to the client whose request it answers.                 *)
THEOREM OwnReply == Spec => []ReplyIsOwn
<1>1. IInv => ReplyIsOwn
  BY DEF IInv
<1> QED
  BY <1>1, Invariance, PTL

(* A merged reply has every upstream's own answer to the request.          *)
THEOREM CompleteMerge == Spec => []MergedReplyIsComplete
<1>1. IInv => MergedReplyIsComplete
  BY DEF IInv
<1> QED
  BY <1>1, Invariance, PTL

(* A fan-out's counter and its pending members agree with its slots.       *)
THEOREM FanOutsAddUp == Spec => []FanOutAccounting
<1>1. IInv => FanOutAccounting
  <2> SUFFICES ASSUME IInv PROVE FanOutAccounting
    OBVIOUS
  <2>1. \A f \in Id : IsOpen(f) =>
          fanouts[f].remaining = Cardinality({s \in Server : fanouts[f].collected[s] = NoAnswer})
    BY DEF IInv, OpenFanoutsAreOwed, FanoutIsOwed, Empty
  <2>2. \A s \in Server, i \in Id : pending[s][i].type = "member" =>
          LET f == pending[s][i].fan IN
          /\ IsOpen(f) /\ fanouts[f].collected[s] = NoAnswer
          /\ \A j \in Id : pending[s][j] = pending[s][i] => i = j
    BY DEF IInv, MembersAreOwed, MemberIsOwed
  <2> QED
    BY <2>1, <2>2 DEF FanOutAccounting
<1> QED
  BY <1>1, Invariance, PTL

(* An answered request leaves no entry and no fan-out behind.              *)
THEOREM MapsAreCleaned == Spec => []NoLeftovers
<1>1. IInv => NoLeftovers
  <2> SUFFICES ASSUME IInv, NEW r \in Req, Replied(r)
               PROVE  /\ \A s \in Server, i \in Id : pending[s][i] # Forward(r)
                      /\ IsFan(r) => /\ fanouts[loc[r].fan] = NoFanOut
                                     /\ \A s \in Server, i \in Id :
                                          pending[s][i] # Member(loc[r].fan)
    BY DEF NoLeftovers
  <2>1. IsFan(r) => fanouts[loc[r].fan] = NoFanOut
    BY DEF IInv, RepliedIsDone
  <2>2. ASSUME NEW s \in Server, NEW i \in Id, pending[s][i] = Forward(r) PROVE FALSE
    <3>1. pending[s][i].type = "forward" /\ pending[s][i].req = r
      BY <2>2 DEF Forward
    <3> QED
      BY <3>1 DEF IInv, ForwardsAreOwed, ForwardIsOwed
  <2>3. ASSUME NEW s \in Server, NEW i \in Id, IsFan(r), pending[s][i] = Member(loc[r].fan)
        PROVE  FALSE
    <3>1. pending[s][i].type = "member" /\ pending[s][i].fan = loc[r].fan
      BY <2>3 DEF Member
    <3>2. IsOpen(loc[r].fan)
      BY <3>1 DEF IInv, MembersAreOwed, MemberIsOwed
    <3> QED
      BY <2>1, <2>3, <3>2 DEF IsOpen
  <2> QED
    BY <2>1, <2>2, <2>3
<1> QED
  BY <1>1, Invariance, PTL

(* An id in flight is never given to another request.                      *)
THEOREM EntriesKept == Spec => EntriesAreKept
<1> DEFINE Kept(s, i) ==
      pending[s][i] # NoEntry => pending'[s][i] \in {pending[s][i], NoEntry}
<1>1. ASSUME IInv, [Next]_vars, NEW s \in Server, NEW i \in Id PROVE Kept(s, i)
  <2>0. TypeOK
    BY <1>1 DEF IInv
  <2>1. ASSUME NEW t \in Server, NEW j \in Id, RemoveEntry(t, j) PROVE Kept(s, i)
    BY <2>0, <2>1, RemoveFacts
  <2>2. ASSUME NEW t \in Server, NEW q \in sent[t], Respond(t, q) PROVE Kept(s, i)
    <3>1. q.id \in Id /\ RemoveEntry(t, q.id)
      <4>1. q.id \in Id
        BY <2>0 DEF TypeOK, Upcall
      <4>2. RemoveEntry(t, q.id)
        BY <2>2 DEF Respond, ForwardReply, Collect, CollectLast
      <4> QED
        BY <4>1, <4>2
    <3> QED
      BY <2>1, <3>1
  <2>3. ASSUME NEW r \in Req, Register(r) PROVE Kept(s, i)
    <3>1. /\ loc[r].srv \in Server /\ nextId[loc[r].srv] \in Id
          /\ pending[loc[r].srv][nextId[loc[r].srv]] = NoEntry
      BY <2>0, <2>3, <1>1 DEF Register, TypeOK, Local, Id, IInv, IdsAreFresh
    <3>2. \A t \in Server, j \in Id : t # loc[r].srv \/ j # nextId[loc[r].srv] =>
            pending'[t][j] = pending[t][j]
      BY <2>0, <2>3, <3>1 DEF Register, TypeOK
    <3> QED
      BY <3>1, <3>2
  <2>4. ASSUME NEW r \in Req, Start(r) PROVE pending' = pending
    BY <2>4 DEF Start, OpenFanout, ForwardOther, RejectNameless, RejectUnknown, Resolve,
                Reject, idVars
  <2>5. ASSUME NEW r \in Req, Handle(r), ~Register(r) PROVE pending' = pending
    BY <2>5 DEF Handle, PassUnchecked, PassRehydrated, RejectArgs, Reject, ReplyInvalid, Send,
                idVars
  <2>6. ASSUME NEW t \in Server, Merge(t) \/ Fail(t) PROVE pending' = pending
    BY <2>6 DEF Merge, Fail, Crash, WriterEnds, Close, Record, Route, SendMerged, idVars
  <2>7. CASE UNCHANGED vars
    BY <2>7 DEF vars
  <2> QED
    BY <1>1, <2>2, <2>3, <2>4, <2>5, <2>6, <2>7 DEF Next
<1>2. IInv /\ [Next]_vars => [\A s \in Server, i \in Id : Kept(s, i)]_vars
  BY <1>1
<1> QED
  BY <1>2, Invariance, PTL DEF Spec, EntriesAreKept
=============================================================================
