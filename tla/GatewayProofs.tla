--------------------------- MODULE GatewayProofs ---------------------------
(***************************************************************************)
(* Router implements Gateway (RouterGateway), for any number of upstreams, *)
(* requests, ids and tools.  The steps that a client cannot tell apart     *)
(* leave the mapped state as it is; each of the others is one step of      *)
(* Gateway.                                                                *)
(***************************************************************************)
EXTENDS RouterGateway, RouterProofs

(* What was sent stays in order.                                           *)
LEMMA SentOrderKept ==
  ASSUME IInv, SentInOrder, [Next]_vars PROVE SentInOrder'
<1> USE DEF idVars, fanVars, toolVars, wireVars, handlerVars
<1>0. /\ TypeOK
      /\ \A s \in Server : \A q \in sent[s] : q \in Upcall /\ q.req \in Req /\ pc[q.req] # "new"
  BY DEF IInv, TypeOK, Upcall, EntriesMatchFrames
<1>1. ASSUME NEW r \in Req, sent' = sent, frame' = frame, ~IsFan(r),
             pc[r] \in {"new", "validate", "reject", "register"}, pc' = [pc EXCEPT ![r] = pc'[r]],
             \A q \in Req \ {r} : loc'[q] = loc[q]
      PROVE  SentInOrder'
  <2>1. \A s \in Server : \A q \in sent[s] : q.req # r
    BY <1>0, <1>1 DEF SentInOrder
  <2> QED
    BY <1>0, <1>1, <2>1 DEF SentInOrder, IsFan, TypeOK
<1>2. ASSUME sent' = sent, frame' = frame, loc' = loc, pc' = pc PROVE SentInOrder'
  BY <1>2 DEF SentInOrder, IsFan
<1>3. ASSUME NEW r \in Req, OpenFanout(r) PROVE SentInOrder'
  <2>1. \A s \in Server : \A q \in sent[s] : q.req # r
    BY <1>0, <1>3 DEF OpenFanout, CanStart
  <2> QED
    BY <1>0, <1>3, <2>1 DEF OpenFanout, SentInOrder, IsFan, TypeOK
<1>4. ASSUME NEW r \in Req, ForwardOther(r) \/ Resolve(r) \/ PassUnchecked(r) \/ PassRehydrated(r)
      PROVE  SentInOrder'
  <2>1. ~IsFan(r)
    BY <1>4 DEF ForwardOther, Resolve, PassUnchecked, PassRehydrated, IInv, HandlersAreOrdered,
                IsNamedCall, IsFan, FanMethod
  <2>2. /\ pc[r] \in {"new", "validate"} /\ pc' = [pc EXCEPT ![r] = pc'[r]]
        /\ \A q \in Req \ {r} : loc'[q] = loc[q]
    BY <1>0, <1>4 DEF ForwardOther, Resolve, PassUnchecked, PassRehydrated, CanStart, TypeOK
  <2> QED
    BY <1>1, <1>4, <2>1, <2>2 DEF ForwardOther, Resolve, PassUnchecked, PassRehydrated
<1>5. ASSUME NEW r \in Req, RejectNameless(r) \/ RejectUnknown(r) \/ RejectArgs(r)
      PROVE  SentInOrder'
  <2>1. ~IsFan(r)
    BY <1>5 DEF RejectNameless, RejectUnknown, RejectArgs, IInv, HandlersAreOrdered,
                IsNamedCall, IsFan, FanMethod
  <2>2. pc[r] \in {"new", "validate"} /\ Reject(r)
    BY <1>5 DEF RejectNameless, RejectUnknown, RejectArgs, CanStart
  <2>3. pc' = [pc EXCEPT ![r] = pc'[r]]
    BY <1>0, <2>2 DEF Reject, TypeOK
  <2> QED
    BY <1>1, <2>1, <2>2, <2>3 DEF Reject
<1>r. ASSUME NEW r \in Req, ReplyInvalid(r) PROVE SentInOrder'
  <2>1. ~IsFan(r) /\ pc[r] = "reject" /\ pc' = [pc EXCEPT ![r] = pc'[r]]
    BY <1>0, <1>r DEF ReplyInvalid, IInv, HandlersAreOrdered, TypeOK
  <2> QED
    BY <1>1, <1>r, <2>1 DEF ReplyInvalid
<1>6. ASSUME NEW r \in Req, Register(r) PROVE SentInOrder'
  <2>1. \A q \in Req : loc'[q].srv = loc[q].srv /\ (pc[q] = "done" => pc'[q] = "done")
    BY <1>0, <1>6 DEF Register, TypeOK, Local
  <2> QED
    BY <1>0, <1>6, <2>1 DEF Register, SentInOrder, IsFan
<1>7. ASSUME NEW r \in Req, Send(r) PROVE SentInOrder'
  <2> DEFINE l == loc[r]
             frm == [id |-> l.id, req |-> r, tool |-> l.tool, args |-> l.args]
  <2>1. /\ l.srv \in Server /\ l.srv \in Int /\ frm.req = r
        /\ \A q \in Req \ {r} : loc'[q] = loc[q] /\ pc'[q] = pc[q]
        /\ \A s \in Server \ {l.srv} : sent'[s] = sent[s]
        /\ sent'[l.srv] \in {sent[l.srv], sent[l.srv] \cup {frm}}
        /\ loc'[r].srv = IF MoreToDo(r) THEN l.srv + 1 ELSE l.srv
        /\ pc'[r] = IF MoreToDo(r) THEN "register" ELSE "done"
        /\ pc[r] = "send"
    BY <1>0, <1>7 DEF Send, Enqueue, Upcalled, TypeOK, Local, Server
  <2>2. ASSUME NEW s \in Server, NEW q \in sent'[s], q.req = r
        PROVE  /\ s < loc'[r].srv \/ (s = loc'[r].srv /\ pc'[r] = "done")
               /\ ~IsFan(r) => pc'[r] = "done"
    <3>1. s < l.srv \/ s = l.srv
      BY <2>1, <2>2 DEF SentInOrder
    <3>2. ~IsFan(r) => ~MoreToDo(r)
      BY DEF MoreToDo
    <3> QED
      BY <2>1, <3>1, <3>2 DEF Server
  <2>3. ASSUME NEW s \in Server, NEW q \in sent'[s], q.req # r PROVE q \in sent[s]
    BY <2>1, <2>3
  <2> HIDE DEF l, frm
  <2>4. \A q \in Req : IsFan(q)' <=> IsFan(q)
    BY <1>7 DEF Send, IsFan
  <2> QED
    BY <1>0, <2>1, <2>2, <2>3, <2>4 DEF SentInOrder
<1>8. ASSUME NEW s \in Server, Merge(s) \/ Fail(s) PROVE SentInOrder'
  BY <1>2, <1>8 DEF Merge, Close, Record, Route, SendMerged, Fail, Crash, WriterEnds
<1>9. ASSUME NEW s \in Server, NEW q \in sent[s], Respond(s, q) PROVE SentInOrder'
  BY <1>2, <1>9 DEF Respond, ForwardReply, Collect, CollectLast
<1>10. CASE UNCHANGED vars
  BY <1>2, <1>10 DEF vars
<1> QED
  BY <1>3, <1>4, <1>5, <1>r, <1>6, <1>7, <1>8, <1>9, <1>10 DEF Next, Start, Handle

-----------------------------------------------------------------------------
(* Steps of Gateway, request by request.                                   *)

(* What a step leaves of a request.                                        *)
SameFor(q) ==
  /\ IsFan(q)' <=> IsFan(q)
  /\ AskedOf(q)' = AskedOf(q)
  /\ HeardOf(q)' = HeardOf(q)
  /\ OutcomeOf(q)' = OutcomeOf(q)

(* Nothing changes.                                                        *)
LEMMA MapSame ==
  ASSUME \A q \in Req : SameFor(q) PROVE UNCHANGED G!vars
  BY DEF SameFor, G!vars

(* An upstream is asked.                                                   *)
LEMMA MapAsk ==
  ASSUME NEW r \in Req, NEW s \in Server, NEW i \in Id,
         \A q \in Req \ {r} : SameFor(q),
         IsFan(r)' <=> IsFan(r), HeardOf(r)' = HeardOf(r), OutcomeOf(r)' = OutcomeOf(r),
         OutcomeOf(r) = "none", AskedOf(r)[s] = {},
         ~IsFan(r) => \A t \in Server : AskedOf(r)[t] = {},
         AskedOf(r)' = [AskedOf(r) EXCEPT ![s] = {i}]
  PROVE  G!Next
<1>1. G!Ask(r, s)
  BY DEF SameFor, G!Ask
<1> QED
  BY <1>1 DEF G!Next

(* An answer is heard ...                                                  *)
LEMMA MapListen ==
  ASSUME NEW r \in Req, NEW s \in Server, NEW a \in Response,
         \A q \in Req \ {r} : SameFor(q),
         OutcomeOf(r) = "none", AskedOf(r)[s] # {}, HeardOf(r)[s] = NoAnswer,
         a.from = s, a.req = r, HeardOf(r)' = [HeardOf(r) EXCEPT ![s] = a]
  PROVE  G!Listen(r, s)
<1> DEFINE H == [q \in Req |-> HeardOf(q)]
<1>1. H' = [H EXCEPT ![r] = [H[r] EXCEPT ![s] = a]]
  BY DEF SameFor
<1>2. \E b \in Response :
        b.from = s /\ b.req = r /\ H' = [H EXCEPT ![r] = [H[r] EXCEPT ![s] = b]]
  BY <1>1
<1>3. [q \in Req |-> OutcomeOf(q)][r] = "none" /\ [q \in Req |-> AskedOf(q)][r][s] # {}
      /\ H[r][s] = NoAnswer
  OBVIOUS
<1> QED
  BY <1>2, <1>3 DEF G!Listen

(* ... to a fan-out ...                                                    *)
LEMMA MapHear ==
  ASSUME NEW r \in Req, NEW s \in Server, \A q \in Req \ {r} : SameFor(q),
         G!Listen(r, s), IsFan(r), IsFan(r)', AskedOf(r)' = AskedOf(r),
         OutcomeOf(r)' = OutcomeOf(r)
  PROVE  G!Next
<1>1. G!Hear(r, s)
  BY DEF SameFor, G!Hear
<1> QED
  BY <1>1 DEF G!Next

(* ... or to a request that is passed on.                                  *)
LEMMA MapPassOn ==
  ASSUME NEW r \in Req, NEW s \in Server, \A q \in Req \ {r} : SameFor(q),
         G!Listen(r, s), ~IsFan(r), ~IsFan(r)', AskedOf(r)' = AskedOf(r),
         OutcomeOf(r)' = "result"
  PROVE  G!Next
<1>1. G!PassOn(r, s)
  BY DEF SameFor, G!PassOn
<1> QED
  BY <1>1 DEF G!Next

(* The merge of all answers is sent.                                       *)
LEMMA MapSendMerge ==
  ASSUME NEW r \in Req, \A q \in Req \ {r} : SameFor(q),
         IsFan(r), IsFan(r)', AskedOf(r)' = AskedOf(r), HeardOf(r)' = HeardOf(r),
         OutcomeOf(r) = "none", OutcomeOf(r)' = "merged",
         \A s \in Server : HeardOf(r)[s] # NoAnswer
  PROVE  G!Next
<1>1. G!SendMerge(r)
  BY DEF SameFor, G!SendMerge
<1> QED
  BY <1>1 DEF G!Next

(* A request is rejected.                                                  *)
LEMMA MapReject ==
  ASSUME NEW r \in Req, \A q \in Req \ {r} : SameFor(q),
         ~IsFan(r), ~IsFan(r)', AskedOf(r)' = AskedOf(r), HeardOf(r)' = HeardOf(r),
         OutcomeOf(r) = "none", OutcomeOf(r)' = "invalid",
         \A s \in Server : AskedOf(r)[s] = {}
  PROVE  G!Next
<1>1. G!Reject(r)
  BY DEF SameFor, G!Reject
<1> QED
  BY <1>1 DEF G!Next

-----------------------------------------------------------------------------
(* Where the answers to a request are.                                     *)

(* The reply to a request, in a list of frames with one reply to each.     *)
LEMMA ReplyInIs ==
  ASSUME NEW frames, \A i, j \in DOMAIN frames : frames[i].to = frames[j].to => i = j,
         NEW k \in DOMAIN frames, NEW r, frames[k].to = r
  PROVE  ReplyIn(frames, r) = frames[k]
  BY DEF ReplyIn

(* Only a fan-out whose handler is done is merged, and by one reader task. *)
LEMMA MergingFacts ==
  ASSUME IInv, NEW r \in Req
  PROVE  /\ Merging(r) # {} => IsFan(r) /\ pc[r] = "done" /\ ~Replied(r)
         /\ \A s \in Merging(r) : Merging(r) = {s}
<1>1. \A s \in Merging(r) : s \in Server /\ up[s].pc # "read" /\ up[s].client = r /\ MergeIsOwed(s)
  BY DEF IInv, MergesAreOwed, Merging
<1>2. Merging(r) # {} => IsFan(r) /\ pc[r] = "done" /\ ~Replied(r)
  BY <1>1 DEF MergeIsOwed
<1>3. ASSUME NEW s \in Merging(r), NEW t \in Merging(r) PROVE s = t
  BY <1>1, <1>3 DEF MergeIsOwed
<1> QED
  BY <1>2, <1>3

(* What a reader task merges is what its client's request has heard.       *)
LEMMA HeardInMerge ==
  ASSUME IInv, NEW s \in Server, up[s].pc # "read"
  PROVE  /\ up[s].client \in Req /\ Merging(up[s].client) = {s}
         /\ IsFan(up[s].client) /\ ~Replied(up[s].client)
         /\ HeardOf(up[s].client) = up[s].collected
<1>1. up[s].client \in Req /\ s \in Merging(up[s].client)
  BY DEF IInv, MergesAreOwed, MergeIsOwed, Merging
<1>2. Merging(up[s].client) = {s} /\ ~Replied(up[s].client) /\ IsFan(up[s].client)
  BY <1>1, MergingFacts
<1>3. (CHOOSE t \in Merging(up[s].client) : TRUE) = s
  BY <1>2
<1> QED
  BY <1>1, <1>2, <1>3 DEF HeardOf

(* A step that sends no frame to the client or an upstream leaves a        *)
(* request as it is if its slots, wherever they are, stay as they are.     *)
LEMMA SlotsKept ==
  ASSUME IInv, NEW q \in Req, UNCHANGED <<frame, toClient>>,
         sent' = sent \/ AskedOf(q)' = AskedOf(q),
         Merging(q)' = Merging(q),
         \A s \in Merging(q) : up'[s].collected = up[s].collected,
         Merging(q) = {} /\ IsFan(q) /\ ~Replied(q) =>
           \/ pc[q] = "new" /\ pc'[q] = "new"
           \/ /\ pc[q] # "new" /\ pc'[q] # "new"
              /\ fanouts'[loc'[q].fan].collected = fanouts[loc[q].fan].collected
  PROVE  SameFor(q)
<1>1. (IsFan(q)' <=> IsFan(q)) /\ (Replied(q)' <=> Replied(q))
      /\ ReplyIn(toClient, q)' = ReplyIn(toClient, q)
  BY DEF IsFan, Replied, ReplyIn
<1>2. AskedOf(q)' = AskedOf(q)
  BY DEF AskedOf
<1>3. OutcomeOf(q)' = OutcomeOf(q)
  BY <1>1 DEF OutcomeOf
<1>4. HeardOf(q)' = HeardOf(q)
  <2>1. CASE Replied(q)
    BY <1>1, <2>1 DEF HeardOf
  <2>2. CASE ~Replied(q) /\ Merging(q) # {}
    <3>1. (CHOOSE s \in Merging(q) : TRUE) \in Merging(q)
      BY <2>2
    <3> QED
      BY <1>1, <2>2, <3>1 DEF HeardOf
  <2>3. CASE ~Replied(q) /\ Merging(q) = {}
    BY <1>1, <2>3 DEF HeardOf
  <2> QED
    BY <2>1, <2>2, <2>3
<1> QED
  BY <1>1, <1>2, <1>3, <1>4 DEF SameFor

(* A reply to r changes nothing of the other requests.                     *)
LEMMA OthersKept ==
  ASSUME IInv, NEW m \in Reply, toClient' = Append(toClient, m), ~Replied(m.to),
         frame' = frame, sent' = sent, fanouts' = fanouts, loc' = loc,
         NEW q \in Req \ {m.to}, pc'[q] = pc[q],
         Merging(q)' = Merging(q),
         \A s \in Merging(q) : up'[s].collected = up[s].collected
  PROVE  SameFor(q)
<1>1. Replied(q)' <=> Replied(q)
  BY AppendFacts
<1>2. Replied(q) => ReplyIn(toClient', q) = ReplyIn(toClient, q)
  <2> SUFFICES ASSUME NEW i \in DOMAIN toClient, toClient[i].to = q
               PROVE  ReplyIn(toClient', q) = ReplyIn(toClient, q)
    BY DEF Replied
  <2>1. i \in DOMAIN toClient' /\ toClient'[i] = toClient[i]
    BY DEF IInv, TypeOK
  <2>2. ReplyIn(toClient, q) = toClient[i]
    BY ReplyInIs DEF IInv, AtMostOneReply
  <2>3. \A j, k \in DOMAIN toClient' : toClient'[j].to = toClient'[k].to => j = k
    BY AppendFacts DEF AtMostOneReply
  <2>4. ReplyIn(toClient', q) = toClient'[i]
    BY <2>1, <2>3 DEF ReplyIn
  <2> QED
    BY <2>1, <2>2, <2>4
<1>3. (IsFan(q)' <=> IsFan(q)) /\ AskedOf(q)' = AskedOf(q)
  BY DEF IsFan, AskedOf
<1>4. OutcomeOf(q)' = OutcomeOf(q)
  BY <1>1, <1>2 DEF OutcomeOf
<1>5. HeardOf(q)' = HeardOf(q)
  <2>1. CASE Replied(q)
    BY <1>1, <1>2, <2>1 DEF HeardOf
  <2>2. CASE ~Replied(q) /\ Merging(q) # {}
    <3>1. (CHOOSE s \in Merging(q) : TRUE) \in Merging(q)
      BY <2>2
    <3> QED
      BY <1>1, <2>2, <3>1 DEF HeardOf
  <2>3. CASE ~Replied(q) /\ Merging(q) = {}
    BY <1>1, <1>3, <2>3 DEF HeardOf
  <2> QED
    BY <2>1, <2>2, <2>3
<1> QED
  BY <1>3, <1>4, <1>5 DEF SameFor

(* The reply to r itself.                                                  *)
LEMMA ReplyMapped ==
  ASSUME IInv, NEW m \in Reply, toClient' = Append(toClient, m), ~Replied(m.to),
         frame' = frame
  PROVE  /\ OutcomeOf(m.to) = "none" /\ OutcomeOf(m.to)' = m.type
         /\ HeardOf(m.to)' = m.answers
<1>0. toClient \in Seq(Reply) /\ m.to \in Req
  BY DEF IInv, TypeOK, Reply
<1> DEFINE n == Len(toClient) + 1
<1>1. n \in DOMAIN toClient' /\ toClient'[n] = m
  BY <1>0
<1>2. \A j, k \in DOMAIN toClient' : toClient'[j].to = toClient'[k].to => j = k
  BY AppendFacts DEF AtMostOneReply
<1>3. ReplyIn(toClient', m.to) = m
  BY <1>1, <1>2 DEF ReplyIn
<1>4. Replied(m.to)'
  BY <1>0, AppendFacts
<1> QED
  BY <1>3, <1>4 DEF OutcomeOf, HeardOf

-----------------------------------------------------------------------------
(* Every step of Router is a step of Gateway or leaves it as it is.        *)

(* Nothing has been asked for a request that is not fanned out before its  *)
(* handler is done, nor for any request before it starts.                  *)
LEMMA NotAskedYet ==
  ASSUME IInv, SentInOrder, NEW r \in Req, NEW s \in Server,
         \/ pc[r] = "new"
         \/ pc[r] # "done" /\ ~IsFan(r)
         \/ pc[r] = "send" /\ s = loc[r].srv
  PROVE  AskedOf(r)[s] = {}
<1>1. ASSUME NEW q \in sent[s], q.req = r PROVE FALSE
  <2>1. pc[r] # "new"
    BY <1>1 DEF IInv, EntriesMatchFrames
  <2>2. /\ s < loc[r].srv \/ (s = loc[r].srv /\ pc[r] = "done")
        /\ ~IsFan(r) => pc[r] = "done"
    BY <1>1 DEF SentInOrder
  <2>3. loc[r].srv \in Int
    BY DEF IInv, TypeOK, Local, Server
  <2> QED
    BY <2>1, <2>2, <2>3 DEF Server
<1> QED
  BY <1>1 DEF AskedOf

(* A frame sent to an upstream has asked it.                               *)
LEMMA WasAsked ==
  ASSUME NEW s \in Server, NEW q \in sent[s] PROVE AskedOf(q.req)[s] # {}
  BY DEF AskedOf

(* A local error rejects a request that no upstream was asked.             *)
LEMMA RejectMaps ==
  ASSUME IInv, SentInOrder, NEW r \in Req, ReplyInvalid(r)
  PROVE  G!Next
<1> USE DEF idVars, fanVars, toolVars
<1>1. ~IsFan(r) /\ pc[r] = "reject" /\ ReplyInvalid(r)
  BY DEF ReplyInvalid, IInv, HandlersAreOrdered
<1> DEFINE m == [to |-> r, type |-> "invalid", answers |-> NoAnswers]
<1>2. m \in Reply /\ m.to = r /\ m.type = "invalid" /\ m.answers = NoAnswers
      /\ toClient' = Append(toClient, m)
  BY <1>1, NoAnswersType DEF ReplyInvalid, Reply
<1> HIDE DEF m
<1>3. ~Replied(r)
  BY <1>1 DEF IInv, RepliedIsDone
<1>4. OutcomeOf(r) = "none" /\ OutcomeOf(r)' = "invalid" /\ HeardOf(r)' = NoAnswers
  BY <1>1, <1>2, <1>3, ReplyMapped DEF ReplyInvalid
<1>5. Merging(r) = {}
  BY <1>1, MergingFacts
<1>6. HeardOf(r) = NoAnswers
  BY <1>1, <1>3, <1>5 DEF HeardOf
<1>7. \A q \in Req \ {r} : SameFor(q)
  <2> SUFFICES ASSUME NEW q \in Req \ {r} PROVE SameFor(q)
    OBVIOUS
  <2>1. pc'[q] = pc[q]
    BY <1>1 DEF ReplyInvalid, IInv, TypeOK
  <2>2. Merging(q)' = Merging(q) /\ up' = up
    BY <1>1 DEF ReplyInvalid, Merging
  <2> QED
    BY <1>1, <1>2, <1>3, <2>1, <2>2, OthersKept DEF ReplyInvalid
<1>8. AskedOf(r)' = AskedOf(r) /\ ~IsFan(r)'
  BY <1>1 DEF ReplyInvalid, AskedOf, IsFan
<1>9. \A s \in Server : AskedOf(r)[s] = {}
  BY <1>1, NotAskedYet
<1> QED
  BY <1>1, <1>4, <1>6, <1>7, <1>8, <1>9, MapReject

(* A frame sent asks an upstream that was not asked before ...             *)
LEMMA SendMaps ==
  ASSUME IInv, SentInOrder, NEW r \in Req, Send(r), loc[r].srv \notin closed
  PROVE  G!Next
<1> USE DEF idVars, fanVars, toolVars
<1> DEFINE l == loc[r]
           frm == [id |-> l.id, req |-> r, tool |-> l.tool, args |-> l.args]
<1>0. TypeOK /\ pc[r] = "send" /\ ~Replied(r) /\ l.srv \in Server /\ l.id \in Id
  BY DEF IInv, Send, RepliedIsDone, UnsentEntryIsKept, TypeOK, Local
<1>1. /\ frm.req = r /\ frm.id = l.id
      /\ \A s \in Server \ {l.srv} : sent'[s] = sent[s]
      /\ sent'[l.srv] = sent[l.srv] \cup {frm}
      /\ \A q \in Req \ {r} : loc'[q] = loc[q] /\ pc'[q] = pc[q]
      /\ loc'[r].fan = loc[r].fan /\ pc'[r] # "new"
  BY <1>0 DEF Send, Enqueue, Upcalled, TypeOK, Local
<1>2. OutcomeOf(r) = "none"
  BY <1>0 DEF OutcomeOf
<1>3. AskedOf(r)[l.srv] = {} /\ (~IsFan(r) => \A t \in Server : AskedOf(r)[t] = {})
  BY <1>0, NotAskedYet
<1> HIDE DEF l, frm
<1>4. AskedOf(r)' = [AskedOf(r) EXCEPT ![l.srv] = {l.id}]
  <2>1. \A s \in Server \ {l.srv} :
          {q.id : q \in {p \in sent'[s] : p.req = r}} = AskedOf(r)[s]
    BY <1>1 DEF AskedOf
  <2>2. {q.id : q \in {p \in sent'[l.srv] : p.req = r}} = {l.id}
    <3>1. ASSUME NEW p \in sent[l.srv], p.req = r PROVE FALSE
      BY <1>0, <1>3, <3>1, WasAsked
    <3>2. {p \in sent'[l.srv] : p.req = r} = {frm}
      BY <1>1, <3>1
    <3> QED
      BY <1>1, <3>2
  <2>3. AskedOf(r)' = [s \in Server |-> {q.id : q \in {p \in sent'[s] : p.req = r}}]
    BY DEF AskedOf
  <2>4. AskedOf(r) = [s \in Server |-> AskedOf(r)[s]]
    BY DEF AskedOf
  <2> QED
    BY <2>1, <2>2, <2>3, <2>4
<1>5. Merging(r)' = Merging(r) /\ up' = up
  BY DEF Send, Merging
<1>6. HeardOf(r)' = HeardOf(r) /\ OutcomeOf(r)' = OutcomeOf(r) /\ (IsFan(r)' <=> IsFan(r))
  <2>1. (IsFan(r)' <=> IsFan(r)) /\ ~Replied(r)'
    BY <1>0 DEF Send, IsFan, Replied
  <2>2. fanouts'[loc'[r].fan].collected = fanouts[loc[r].fan].collected
    BY <1>1 DEF Send
  <2> QED
    BY <1>0, <1>1, <1>5, <2>1, <2>2 DEF HeardOf, OutcomeOf
<1>7. \A q \in Req \ {r} : SameFor(q)
  <2> SUFFICES ASSUME NEW q \in Req \ {r} PROVE SameFor(q)
    OBVIOUS
  <2>1. AskedOf(q)' = AskedOf(q)
    <3>1. \A s \in Server : {p \in sent'[s] : p.req = q} = {p \in sent[s] : p.req = q}
      BY <1>1
    <3> QED
      BY <3>1 DEF AskedOf
  <2>2. Merging(q)' = Merging(q)
    BY DEF Send, Merging
  <2> QED
    BY <1>1, <1>5, <2>1, <2>2, SlotsKept DEF Send
<1> QED
  BY <1>0, <1>2, <1>3, <1>4, <1>6, <1>7, MapAsk

(* A forwarded response is the only one that its request gets.             *)
LEMMA ForwardReplyMaps ==
  ASSUME IInv, NEW s \in Server, NEW q \in sent[s], ForwardReply(s, q)
  PROVE  G!Next
<1> USE DEF handlerVars, fanVars, toolVars
<1> DEFINE r == q.req
<1>0. TypeOK /\ q \in Upcall /\ q.id \in Id /\ r \in Req /\ Answered(s, q, "forward")
  BY DEF IInv, TypeOK, Upcall, ForwardReply
<1>1. pending[s][q.id] = Forward(r)
  <2>1. pending[s][q.id] \in {NoEntry, EntryFor(r)}
    BY DEF IInv, EntriesMatchFrames
  <2>2. pending[s][q.id].type = "forward"
    BY <1>0 DEF Answered
  <2> QED
    BY <2>1, <2>2 DEF NoEntry, EntryFor, Member, Forward
<1>2. pending[s][q.id].req = r /\ ~IsFan(r) /\ ~Replied(r)
  BY <1>0, <1>1 DEF IInv, ForwardsAreOwed, ForwardIsOwed, Forward
<1>3. PICK resp \in Answer(s, q) :
        toClient' = Append(toClient, [to |-> r, type |-> "result",
                                      answers |-> [NoAnswers EXCEPT ![s] = resp]])
  BY <1>2 DEF ForwardReply
<1>4. resp \in Response /\ resp.from = s /\ resp.req = r
  BY <1>0, AnswerType
<1> DEFINE m == [to |-> r, type |-> "result", answers |-> [NoAnswers EXCEPT ![s] = resp]]
<1>5. /\ m \in Reply /\ m.to = r /\ m.type = "result"
      /\ m.answers = [NoAnswers EXCEPT ![s] = resp] /\ toClient' = Append(toClient, m)
  BY <1>0, <1>3, <1>4, NoAnswersType DEF Reply, Answers
<1> HIDE DEF m, r
<1>6. /\ OutcomeOf(r) = "none" /\ OutcomeOf(r)' = "result"
      /\ HeardOf(r)' = [NoAnswers EXCEPT ![s] = resp]
  BY <1>0, <1>2, <1>5, ReplyMapped DEF ForwardReply
<1>7. HeardOf(r) = NoAnswers
  BY <1>0, <1>2, MergingFacts DEF HeardOf
<1>8. \A c \in Req \ {r} : SameFor(c)
  <2> SUFFICES ASSUME NEW c \in Req \ {r} PROVE SameFor(c)
    OBVIOUS
  <2>1. Merging(c)' = Merging(c)
    BY DEF ForwardReply, Merging
  <2> QED
    BY <1>2, <1>5, <2>1, OthersKept DEF ForwardReply
<1>9. AskedOf(r)' = AskedOf(r) /\ ~IsFan(r)'
  BY <1>2 DEF ForwardReply, AskedOf, IsFan
<1>10. AskedOf(r)[s] # {}
  BY WasAsked DEF r
<1>11. HeardOf(r)[s] = NoAnswer
  BY <1>7 DEF NoAnswers
<1>12. G!Listen(r, s)
  BY <1>0, <1>4, <1>6, <1>7, <1>8, <1>10, <1>11, MapListen
<1> QED
  BY <1>0, <1>2, <1>6, <1>8, <1>9, <1>12, MapPassOn

(* An answer to a fan-out is put into its slot, here or in the reader task *)
(* that merges it.                                                         *)
LEMMA CollectMaps ==
  ASSUME IInv, NEW s \in Server, NEW q \in sent[s], Collect(s, q) \/ CollectLast(s, q)
  PROVE  G!Next
<1> USE DEF handlerVars, toolVars, wireVars
<1> DEFINE r == q.req
<1>f. PICK f : f = pending[s][q.id].fan
  OBVIOUS
<1>0. TypeOK /\ Answered(s, q, "member") /\ up[s].pc = "read"
  BY DEF IInv, Collect, CollectLast, Answered
<1>1. /\ q \in Upcall /\ r \in Req /\ f \in Id /\ IsOpen(f) /\ FanoutIsOwed(f)
      /\ fanouts[f] \in FanOut /\ fanouts[f].client = r /\ s \in Empty(f)
  BY <1>0, <1>f, MemberFacts
<1>2. IsFan(r) /\ pc[r] # "new" /\ ~Replied(r) /\ loc[r].fan = f
  BY <1>1 DEF FanoutIsOwed
<1>3. Merging(r) = {}
  <2>1. ASSUME NEW t \in Merging(r) PROVE FALSE
    BY <1>1, <1>2, <2>1 DEF IInv, MergesAreOwed, MergeIsOwed, Merging
  <2> QED
    BY <2>1
<1>4. HeardOf(r) = fanouts[f].collected /\ OutcomeOf(r) = "none"
  BY <1>2, <1>3 DEF HeardOf, OutcomeOf
<1>5. HeardOf(r)[s] = NoAnswer /\ AskedOf(r)[s] # {}
  BY <1>1, <1>4, WasAsked DEF Empty
<1>6. /\ UNCHANGED <<frame, pc, loc, toClient, sent>>
      /\ \A h \in Id \ {f} : fanouts'[h] = fanouts[h]
      /\ \A t \in Server \ {s} : up'[t] = up[t]
      /\ up'[s].pc = "read" \/ up'[s].client = r
  <2>1. CASE Collect(s, q)
    BY <1>0, <1>1, <1>f, <2>1 DEF Collect, TypeOK, IsOpen
  <2>2. CASE CollectLast(s, q)
    BY <1>0, <1>1, <1>f, <2>2 DEF CollectLast, TypeOK, Reading
  <2> QED
    BY <2>1, <2>2
<1>7. (IsFan(r)' <=> IsFan(r)) /\ ~Replied(r)' /\ AskedOf(r)' = AskedOf(r)
      /\ OutcomeOf(r)' = OutcomeOf(r)
  BY <1>2, <1>6 DEF IsFan, Replied, AskedOf, OutcomeOf
<1>8. PICK resp \in Answer(s, q) : HeardOf(r)' = [fanouts[f].collected EXCEPT ![s] = resp]
  <2>1. CASE Collect(s, q)
    <3>1. PICK resp \in Answer(s, q) :
            fanouts' = [fanouts EXCEPT ![f].collected[s] = resp, ![f].remaining = @ - 1]
      BY <1>1, <1>f, <2>1 DEF Collect, IsOpen
    <3>2. fanouts'[f].collected = [fanouts[f].collected EXCEPT ![s] = resp]
      BY <1>0, <1>1, <3>1 DEF TypeOK, FanOut
    <3>3. Merging(r)' = {}
      BY <1>3, <2>1 DEF Collect, Merging
    <3> QED
      BY <1>2, <1>6, <1>7, <3>2, <3>3 DEF HeardOf
  <2>2. CASE CollectLast(s, q)
    <3>1. PICK resp \in Answer(s, q) :
            up' = [up EXCEPT ![s] =
                    [Reading EXCEPT !.pc = "close", !.fan = f, !.kind = fanouts[f].kind,
                                    !.client = fanouts[f].client,
                                    !.collected = [fanouts[f].collected EXCEPT ![s] = resp]]]
      BY <1>f, <2>2 DEF CollectLast
    <3>2. /\ up'[s].pc = "close" /\ up'[s].client = r
          /\ up'[s].collected = [fanouts[f].collected EXCEPT ![s] = resp]
      BY <1>0, <1>1, <3>1 DEF TypeOK, Reading
    <3>3. Merging(r)' = {s}
      BY <1>3, <1>6, <3>2 DEF Merging
    <3>4. (CHOOSE t \in Merging(r)' : TRUE) = s
      BY <3>3
    <3> QED
      BY <1>7, <3>2, <3>3, <3>4 DEF HeardOf
  <2> QED
    BY <2>1, <2>2
<1>9. resp \in Response /\ resp.from = s /\ resp.req = r
  BY <1>0, <1>1, AnswerType
<1>10. \A c \in Req \ {r} : SameFor(c)
  <2> SUFFICES ASSUME NEW c \in Req \ {r} PROVE SameFor(c)
    OBVIOUS
  <2>1. Merging(c)' = Merging(c) /\ s \notin Merging(c)
    BY <1>0, <1>6 DEF Merging
  <2>2. \A t \in Merging(c) : up'[t].collected = up[t].collected
    BY <1>6, <2>1 DEF Merging
  <2>3. pc[c] # "new" /\ IsFan(c) => loc[c].fan \in Id \ {f}
    BY <1>1, <1>2 DEF IInv, HandlersAreOrdered
  <2> QED
    BY <1>6, <2>1, <2>2, <2>3, SlotsKept
<1> HIDE DEF r
<1>11. G!Listen(r, s)
  BY <1>1, <1>4, <1>5, <1>8, <1>9, <1>10, MapListen
<1> QED
  BY <1>1, <1>2, <1>7, <1>10, <1>11, MapHear

(* The merged reply has every upstream's answer.                           *)
LEMMA SendMergedMaps ==
  ASSUME IInv, NEW s \in Server, SendMerged(s)
  PROVE  G!Next
<1> USE DEF handlerVars, idVars, fanVars, toolVars
<1>r. PICK r : r = up[s].client
  OBVIOUS
<1>0. TypeOK /\ up[s].pc = "merge" /\ MergeIsOwed(s) /\ up[s].collected \in Answers
  BY DEF IInv, SendMerged, MergesAreOwed, TypeOK, Collector
<1>1. /\ r \in Req /\ Merging(r) = {s} /\ IsFan(r) /\ ~Replied(r)
      /\ HeardOf(r) = up[s].collected
  BY <1>0, <1>r, HeardInMerge
<1>m. PICK m : m = [to |-> r, type |-> "merged", answers |-> up[s].collected]
  OBVIOUS
<1>2. /\ m \in Reply /\ m.to = r /\ m.type = "merged" /\ m.answers = up[s].collected
      /\ toClient' = Append(toClient, m)
  BY <1>0, <1>1, <1>m, <1>r DEF SendMerged, Reply
<1>3. OutcomeOf(r) = "none" /\ OutcomeOf(r)' = "merged" /\ HeardOf(r)' = HeardOf(r)
  BY <1>1, <1>2, ReplyMapped DEF SendMerged
<1>4. \A t \in Server : HeardOf(r)[t] # NoAnswer
  BY <1>0, <1>1, <1>r, RouterAssumption DEF MergeIsOwed, IsFull, NoAnswer
<1>5. \A c \in Req \ {r} : SameFor(c)
  <2> SUFFICES ASSUME NEW c \in Req \ {r} PROVE SameFor(c)
    OBVIOUS
  <2>1. up'[s].pc = "read" /\ \A t \in Server \ {s} : up'[t] = up[t]
    BY <1>0 DEF SendMerged, TypeOK, Reading
  <2>2. Merging(c)' = Merging(c) /\ s \notin Merging(c)
    BY <1>r, <2>1 DEF Merging
  <2>3. \A t \in Merging(c) : up'[t].collected = up[t].collected
    BY <2>1, <2>2 DEF Merging
  <2> QED
    BY <1>1, <1>2, <2>2, <2>3, OthersKept DEF SendMerged
<1>6. AskedOf(r)' = AskedOf(r) /\ IsFan(r)'
  BY <1>1 DEF SendMerged, AskedOf, IsFan
<1> QED
  BY <1>1, <1>3, <1>4, <1>5, <1>6, MapSendMerge

(* A step of a handler or a reader task that moves no answer.              *)
LEMMA QuietStep ==
  ASSUME IInv, UNCHANGED <<frame, toClient, sent>>,
         \A s \in Server : /\ up'[s].pc = "read" <=> up[s].pc = "read"
                           /\ up'[s].client = up[s].client
                           /\ up'[s].collected = up[s].collected,
         NEW q \in Req,
         IsFan(q) /\ Merging(q) = {} =>
           \/ pc[q] = "new" /\ pc'[q] = "new"
           \/ /\ pc[q] # "new" /\ pc'[q] # "new" /\ loc'[q].fan = loc[q].fan
              /\ fanouts'[loc[q].fan].collected = fanouts[loc[q].fan].collected
  PROVE  SameFor(q)
<1>1. Merging(q)' = Merging(q)
  BY DEF Merging
<1>2. \A s \in Merging(q) : up'[s].collected = up[s].collected
  BY DEF Merging
<1> QED
  BY <1>1, <1>2, SlotsKept

(* A request that is handled to be fanned out has no answer yet.           *)
LEMMA OpenMaps ==
  ASSUME IInv, NEW r \in Req, OpenFanout(r), NEW q \in Req PROVE SameFor(q)
<1> USE DEF idVars, toolVars, wireVars
<1>0. TypeOK /\ pc[r] = "new" /\ IsFan(r) /\ fanNext \in Id
  BY RouterAssumption DEF IInv, OpenFanout, CanStart, TypeOK, Id
<1>1. /\ \A f \in Id \ {fanNext} : fanouts'[f] = fanouts[f]
      /\ fanouts'[fanNext] = NewFanOut(r)
      /\ loc'[r].fan = fanNext /\ pc'[r] # "new"
      /\ \A c \in Req \ {r} : loc'[c] = loc[c] /\ pc'[c] = pc[c]
  BY <1>0 DEF OpenFanout, TypeOK, Local
<1>2. CASE q # r
  <2>1. IsFan(q) /\ pc[q] # "new" => loc[q].fan \in Id \ {fanNext}
    BY <1>0 DEF IInv, HandlersAreOrdered, Id
  <2> QED
    BY <1>1, <1>2, <2>1, QuietStep DEF OpenFanout
<1>3. CASE q = r
  <2>1. ~Replied(r) /\ Merging(r) = {}
    BY <1>0, MergingFacts DEF IInv, RepliedIsDone
  <2>2. ~Replied(r)' /\ Merging(r)' = {} /\ IsFan(r)'
    BY <1>0, <2>1 DEF OpenFanout, Replied, Merging, IsFan
  <2>3. HeardOf(r) = NoAnswers
    BY <1>0, <2>1 DEF HeardOf
  <2>4. HeardOf(r)' = NoAnswers
    BY <1>1, <2>2 DEF HeardOf, NewFanOut
  <2>5. AskedOf(r)' = AskedOf(r) /\ OutcomeOf(r)' = OutcomeOf(r)
    BY <2>1, <2>2 DEF OpenFanout, AskedOf, OutcomeOf
  <2> QED
    BY <1>0, <1>3, <2>2, <2>3, <2>4, <2>5 DEF SameFor
<1> QED
  BY <1>2, <1>3

(* The handler's other steps before it sends move no answer.               *)
LEMMA HandlerMaps ==
  ASSUME IInv, NEW r \in Req, NEW q \in Req,
         \/ ForwardOther(r) \/ Resolve(r) \/ PassUnchecked(r) \/ PassRehydrated(r)
         \/ RejectNameless(r) \/ RejectUnknown(r) \/ RejectArgs(r) \/ Register(r)
  PROVE  SameFor(q)
<1> USE DEF idVars, fanVars, toolVars, wireVars
<1>0. TypeOK
  BY DEF IInv
<1>1. CASE Register(r)
  <2>1. /\ pc[q] = "new" <=> pc'[q] = "new"
        /\ loc'[q].fan = loc[q].fan
    BY <1>0, <1>1 DEF Register, TypeOK, Local
  <2> QED
    BY <1>1, <2>1, QuietStep DEF Register
<1>2. CASE ForwardOther(r) \/ Resolve(r) \/ PassUnchecked(r) \/ PassRehydrated(r)
  <2>1. ~IsFan(r)
    BY <1>2 DEF ForwardOther, Resolve, PassUnchecked, PassRehydrated, IInv, HandlersAreOrdered,
                IsNamedCall, IsFan, FanMethod
  <2>2. q # r => pc'[q] = pc[q] /\ loc'[q] = loc[q]
    BY <1>0, <1>2 DEF ForwardOther, Resolve, PassUnchecked, PassRehydrated, TypeOK
  <2>3. UNCHANGED <<frame, toClient, sent, up, fanouts>>
    BY <1>2 DEF ForwardOther, Resolve, PassUnchecked, PassRehydrated
  <2> QED
    BY <2>1, <2>2, <2>3, QuietStep
<1>3. CASE RejectNameless(r) \/ RejectUnknown(r) \/ RejectArgs(r)
  <2>1. ~IsFan(r) /\ Reject(r)
    BY <1>3 DEF RejectNameless, RejectUnknown, RejectArgs, IInv, HandlersAreOrdered,
                IsNamedCall, IsFan, FanMethod
  <2>2. q # r => pc'[q] = pc[q] /\ loc'[q] = loc[q]
    BY <1>0, <2>1 DEF Reject, TypeOK
  <2> QED
    BY <2>1, <2>2, QuietStep DEF Reject
<1> QED
  BY <1>1, <1>2, <1>3

(* Nor do the steps of a merge before its reply, or the end of an upstream.*)
LEMMA ReaderMaps ==
  ASSUME IInv, NEW s \in Server, NEW q \in Req, Close(s) \/ Record(s) \/ Route(s) \/ Fail(s)
  PROVE  SameFor(q)
<1> USE DEF handlerVars, idVars, fanVars, toolVars, wireVars
<1>0. TypeOK
  BY DEF IInv
<1>1. \A t \in Server : /\ up'[t].pc = "read" <=> up[t].pc = "read"
                        /\ up'[t].client = up[t].client
                        /\ up'[t].collected = up[t].collected
  <2>1. CASE Close(s)
    BY <1>0, <2>1 DEF Close, TypeOK, Collector
  <2>2. CASE Record(s)
    <3>1. PICK p : up' = [up EXCEPT ![s].pc = "route", ![s].todo = @ \ {p}, ![s].cur = {p}]
      BY <2>2 DEF Record
    <3>2. up[s].pc = "merge" /\ up \in [Server -> Collector]
      BY <1>0, <2>2 DEF Record, TypeOK
    <3>3. /\ \A t \in Server \ {s} : up'[t] = up[t]
          /\ up'[s] = [up[s] EXCEPT !.pc = "route", !.todo = @ \ {p}, !.cur = {p}]
      BY <3>1, <3>2
    <3>4. up'[s].pc = "route" /\ up'[s].client = up[s].client
          /\ up'[s].collected = up[s].collected
      BY <3>2, <3>3 DEF Collector
    <3> QED
      BY <3>2, <3>3, <3>4
  <2>3. CASE Route(s)
    BY <1>0, <2>3 DEF Route, TypeOK, Collector
  <2>4. CASE Fail(s)
    BY <2>4 DEF Fail, Crash, WriterEnds
  <2> QED
    BY <2>1, <2>2, <2>3, <2>4
<1>2. UNCHANGED <<frame, pc, loc, toClient, sent>>
  BY DEF Close, Record, Route, Fail, Crash, WriterEnds
<1>3. ASSUME IsFan(q), Merging(q) = {}, pc[q] # "new"
      PROVE  fanouts'[loc[q].fan].collected = fanouts[loc[q].fan].collected
  <2>1. CASE Close(s)
    <3>1. up[s].pc # "read" /\ MergeIsOwed(s)
      BY <2>1 DEF Close, IInv, MergesAreOwed
    <3>2. up[s].client # q
      BY <1>3, <3>1 DEF Merging
    <3>3. loc[q].fan # up[s].fan /\ loc[q].fan \in Id
      BY <1>3, <3>1, <3>2 DEF MergeIsOwed, IInv, HandlersAreOrdered
    <3> QED
      BY <1>0, <2>1, <3>3 DEF Close, TypeOK
  <2>2. CASE Record(s) \/ Route(s) \/ Fail(s)
    BY <2>2 DEF Record, Route, Fail, Crash, WriterEnds
  <2> QED
    BY <2>1, <2>2
<1> QED
  BY <1>1, <1>2, <1>3, QuietStep

(* ... and one that is lost asks nobody.                                   *)
LEMMA LostMaps ==
  ASSUME IInv, NEW r \in Req, Send(r), loc[r].srv \in closed, NEW q \in Req
  PROVE  SameFor(q)
<1> USE DEF idVars, fanVars, toolVars
<1>1. UNCHANGED <<frame, toClient, sent, up, fanouts>>
  BY DEF Send, Enqueue
<1>2. /\ loc'[q].fan = loc[q].fan
      /\ (pc[q] # "new" /\ pc'[q] # "new") \/ pc'[q] = pc[q]
  BY DEF Send, IInv, TypeOK, Local
<1>3. Merging(q)' = Merging(q)
  BY <1>1 DEF Merging
<1> QED
  BY <1>1, <1>2, <1>3, SlotsKept

-----------------------------------------------------------------------------
(* Nothing has been asked or answered at the start.                        *)
LEMMA InitMaps == Init => G!Init
<1> SUFFICES ASSUME Init PROVE G!Init
  OBVIOUS
<1>1. \A r \in Req : ~Replied(r) /\ Merging(r) = {} /\ AskedOf(r) = [s \in Server |-> {}]
  BY DEF Init, Replied, Merging, AskedOf, Reading
<1>2. \A r \in Req : HeardOf(r) = NoAnswers /\ OutcomeOf(r) = "none"
  BY <1>1 DEF Init, HeardOf, OutcomeOf
<1> QED
  BY <1>1, <1>2 DEF G!Init, NoAnswers

(* Each step is a step of Gateway or leaves all requests as they are.      *)
LEMMA NextMaps == IInv /\ SentInOrder /\ [Next]_vars => [G!Next]_(G!vars)
<1> SUFFICES ASSUME IInv, SentInOrder, [Next]_vars PROVE G!Next \/ UNCHANGED G!vars
  OBVIOUS
<1>1. ASSUME NEW r \in Req, Start(r) \/ Handle(r) PROVE G!Next \/ \A q \in Req : SameFor(q)
  BY <1>1, OpenMaps, HandlerMaps, RejectMaps, SendMaps, LostMaps DEF Start, Handle
<1>2. ASSUME NEW s \in Server, Merge(s) \/ Fail(s) PROVE G!Next \/ \A q \in Req : SameFor(q)
  BY <1>2, ReaderMaps, SendMergedMaps DEF Merge
<1>3. ASSUME NEW s \in Server, NEW q \in sent[s], Respond(s, q) PROVE G!Next
  BY <1>3, ForwardReplyMaps, CollectMaps DEF Respond
<1>4. ASSUME UNCHANGED vars, NEW q \in Req PROVE SameFor(q)
  BY <1>4, QuietStep DEF vars
<1> QED
  BY <1>1, <1>2, <1>3, <1>4, MapSame DEF Next

(* Frames are sent in the order in which a handler goes through upstreams. *)
THEOREM SentOrder == Spec => []SentInOrder
<1>1. Init => SentInOrder
  BY DEF Init, SentInOrder
<1>2. IInv /\ SentInOrder /\ [Next]_vars => SentInOrder'
  BY SentOrderKept
<1> QED
  BY <1>1, <1>2, Invariance, PTL DEF Spec

(* Router keeps what Gateway promises: a client cannot tell the one from   *)
(* the other.                                                              *)
THEOREM Refinement == Spec => ImplementsGateway
<1> QED
  BY InitMaps, NextMaps, Invariance, SentOrder, PTL DEF Spec, ImplementsGateway, G!Spec
=============================================================================
