-------------------------- MODULE TelemetryProofs --------------------------
(***************************************************************************)
(* Proofs about Telemetry: the counters are true of what the router does,  *)
(* and what a client reads of them is not behind what it was told, for any *)
(* number of upstreams, requests and tools and however their steps         *)
(* interleave.  Telemetry's steps are Router's or leave Router alone, so   *)
(* that Router's invariants hold of it.                                    *)
(***************************************************************************)
EXTENDS MeterInv, ToolProofs

(* The tokens of a list are a natural number.                              *)
LEMMA TokensAreNat ==
  ASSUME NEW answers
  PROVE  Before(answers) \in Nat /\ After(answers) \in Nat
<1>0. IsFiniteSet(Server)
  BY FS_Interval, RouterAssumption DEF Server
<1>1. IsFiniteSet(Server \X Bare)
  BY <1>0, FS_Product, TelemetryAssumption
<1>2. Listed(answers) \subseteq Server \X Bare
  BY DEF Listed
<1>3. Cardinality(Listed(answers)) \in Nat
  BY <1>1, <1>2, FS_Subset, FS_CardinalityType
<1> QED
  BY <1>3, TelemetryAssumption DEF Before, After

(* What a list adds is what its frame says.                                *)
LEMMA ToolTokens ==
  ASSUME NEW s \in Server
  PROVE  /\ Full * Tools(s) = Before(up[s].collected)
         /\ Short * Tools(s) + Envelope = After(up[s].collected)
  BY DEF Tools, Before, After

(* Telemetry adds nothing to what the router does.                         *)
LEMMA RouterSteps == [MeterNext]_allVars => [Next]_vars
  BY DEF MeterNext, allVars, Next, MeteredStart, MeteredHandle, MeteredMerge, MeteredRespond,
     CountTotal, CountPart, CountList, CountBefore, CountAfter

(* So whatever holds of the router holds of it with its counters.          *)
LEMMA RouterHolds == MeterSpec => [](IInv /\ TablesInv)
<1>1. MeterInit => Init
  BY DEF MeterInit
<1>2. MeterSpec => Spec
  BY <1>1, RouterSteps, PTL DEF MeterSpec, Spec
<1> QED
  BY <1>2, Invariance, TablesInvariance, PTL

-----------------------------------------------------------------------------
(* Nothing is counted before anything happens.                             *)
LEMMA InitMeter == MeterInit => MeterInvariant
<1> SUFFICES ASSUME MeterInit PROVE MeterInvariant
  OBVIOUS
<1> USE DEF MeterInit
<1>0. TypeOK /\ Init
  BY InitType
<1>1. MeterTypeOK
  BY <1>0 DEF MeterTypeOK, Zero
<1>2. Rejected = {} /\ \A r \in Req : pc[r] = "new"
  BY <1>0 DEF Init, Rejected
<1>3. CallsAreOrdered
  BY <1>0, <1>2 DEF CallsAreOrdered
<1>4. Handled = {} /\ Forwarded = {} /\ TurnedDown = {} /\ {r \in Req : tally[r] = "total"} = {}
  BY <1>2 DEF Handled, Forwarded, TurnedDown
<1>5. CallsAreCounted
  <2>1. IsFiniteSet({}) /\ Cardinality({}) = 0
    BY FS_EmptySet
  <2>2. /\ IsFiniteSet(Handled) /\ CallsUnderCount = 0
        /\ Cardinality(Forwarded) = 0 /\ Cardinality(TurnedDown) = 0
    BY <1>4, <2>1 DEF CallsUnderCount
  <2>3. counter["total"] = 0 /\ counter["forwarded"] = 0 /\ counter["rejected"] = 0
    BY DEF Zero, Counter
  <2> QED
    BY <2>2, <2>3 DEF CallsAreCounted
<1>6. ListsAreOrdered
  BY <1>0 DEF Init, ListsAreOrdered, Reading
<1>7. ViewsAreApart /\ LatestIsMost
  BY DEF ViewsAreApart, Units, LatestIsMost, Zero, Counter
<1>8. ViewsAreCurrent
  BY DEF ViewsAreCurrent
<1>9. FramesAreCounted
  BY <1>0 DEF Init, FramesAreCounted
<1> QED
  BY <1>1, <1>3, <1>5, <1>6, <1>7, <1>8, <1>9 DEF MeterInvariant

(* A task that merges has a client's request in hand.                      *)
LEMMA MergesForSomeone ==
  ASSUME IInv, NEW s \in Server, up[s].pc # "read"
  PROVE  up[s].client \in Req /\ ~Replied(up[s].client)
  BY DEF IInv, MergesAreOwed, MergeIsOwed

(* What is counted of a list is counted while its task merges.             *)
LEMMA CountsWhileMerging ==
  ASSUME IInv, ListsAreOrdered, NEW s \in Server,
         CountList(s) \/ CountBefore(s) \/ CountAfter(s)
  PROVE  /\ ToReport(s) /\ up[s].client \in Req /\ ~Replied(up[s].client)
         /\ UNCHANGED <<vars, tally, carried>>
<1>1. ToReport(s) /\ UNCHANGED <<vars, tally, carried>>
  BY DEF ListsAreOrdered, CountList, CountBefore, CountAfter
<1> QED
  BY <1>1, MergesForSomeone DEF ToReport, IsMerged

(* An addition, of whatever it is.                                         *)
LEMMA AddTypes ==
  ASSUME MeterTypeOK, NEW r \in Req, NEW k \in Counter, NEW n \in Nat, Add(r, k, n)
  PROVE  /\ counter' \in [Counter -> Nat] /\ past' \in [Counter -> SUBSET Nat]
         /\ view' \in [Req -> [Counter -> Nat]]
         /\ counter'[k] = counter[k] + n /\ view'[r][k] = counter[k] + n
         /\ past'[k] = past[k] \cup {counter[k] + n}
         /\ \A c \in Counter \ {k} : counter'[c] = counter[c] /\ past'[c] = past[c]
         /\ \A q \in Req, c \in Counter : q # r \/ c # k => view'[q][c] = view[q][c]
<1>1. /\ counter \in [Counter -> Nat] /\ past \in [Counter -> SUBSET Nat]
      /\ view \in [Req -> [Counter -> Nat]] /\ counter[k] + n \in Nat
  BY DEF MeterTypeOK
<1>2. /\ counter' = [counter EXCEPT ![k] = @ + n]
      /\ past' = [past EXCEPT ![k] = @ \cup {counter[k] + n}]
      /\ view' = [view EXCEPT ![r][k] = counter[k] + n]
  BY DEF Add
<1>3. view' \in [Req -> [Counter -> Nat]]
  BY <1>1, <1>2
<1> QED
  BY <1>1, <1>2, <1>3

(* ... leaves its task with a value that no other has, and takes from none.*)
LEMMA AddKeeps ==
  ASSUME MeterTypeOK, ViewsAreApart, LatestIsMost,
         NEW r \in Req, NEW k \in Counter, NEW n \in Nat, Add(r, k, n),
         k \in Units => n = 1, UNCHANGED carried
  PROVE  /\ ViewsAreApart' /\ LatestIsMost'
         /\ \A q \in Req, c \in Counter : view'[q][c] >= view[q][c]
<1>1. /\ counter \in [Counter -> Nat] /\ view \in [Req -> [Counter -> Nat]]
      /\ carried \in Seq([Counter -> Nat])
  BY DEF MeterTypeOK
<1>2. \A c \in Counter : counter[c] \in Nat /\ counter'[c] \in Nat /\ counter'[c] >= counter[c]
  <2> TAKE c \in Counter
  <2>1. counter[c] \in Nat /\ counter'[c] = IF c = k THEN counter[c] + n ELSE counter[c]
    BY <1>1, AddTypes
  <2> QED
    BY <2>1
<1>3. \A q \in Req, c \in Counter :
        /\ view[q][c] \in Nat /\ view'[q][c] \in Nat
        /\ view[q][c] <= counter[c]
        /\ view'[q][c] = IF q = r /\ c = k THEN counter[k] + n ELSE view[q][c]
  BY <1>1, AddTypes DEF LatestIsMost
<1>4. \A q \in Req, c \in Counter : view'[q][c] >= view[q][c] /\ view'[q][c] <= counter'[c]
  BY <1>2, <1>3, AddTypes
<1>5. \A i \in DOMAIN carried : \A c \in Counter :
        carried[i][c] \in Nat /\ carried[i][c] <= counter'[c]
  BY <1>1, <1>2 DEF LatestIsMost
<1>6. \A c \in Counter : counter'[c] \in past'[c]
  BY AddTypes DEF LatestIsMost
<1>7. LatestIsMost'
  BY <1>4, <1>5, <1>6 DEF LatestIsMost
<1>8. ViewsAreApart'
  <2> SUFFICES ASSUME NEW c \in Units, NEW p \in Req, NEW q \in Req,
                      view'[q][c] = view'[p][c], view'[p][c] > 0
               PROVE  q = p
    BY DEF ViewsAreApart
  <2>1. c \in Counter
    BY DEF Units, Counter
  <2>2. CASE c # k \/ (p # r /\ q # r)
    BY <1>3, <2>1, <2>2 DEF ViewsAreApart
  <2>3. CASE c = k /\ (p = r \/ q = r)
    <3>1. \A o \in Req \ {r} : view'[o][k] < view'[r][k]
      BY <1>2, <1>3, <2>3
    <3> QED
      BY <1>3, <2>3, <3>1
  <2> QED
    BY <2>2, <2>3
<1> QED
  BY <1>4, <1>7, <1>8

(* Every step keeps the types.                                             *)
LEMMA MeterTypes ==
  ASSUME MeterTypeOK, IInv, TypeOK', ListsAreOrdered, [MeterNext]_allVars
  PROVE  MeterTypeOK'
<1> USE DEF MeterTypeOK
<1>1. CASE UNCHANGED meterVars
  BY <1>1 DEF meterVars, countVars
<1>2. ASSUME NEW r \in Req, CountTotal(r) \/ CountPart(r) PROVE MeterTypeOK'
  <2>1. PICK k \in Counter : Add(r, k, 1)
    BY <1>2 DEF CountTotal, CountPart, Counter
  <2>2. tally' \in [Req -> {"none", "total", "counted"}] /\ UNCHANGED <<disc, carried>>
    BY <1>2 DEF CountTotal, CountPart
  <2> QED
    BY <2>1, <2>2, AddTypes
<1>3. ASSUME NEW s \in Server, CountList(s) \/ CountBefore(s) \/ CountAfter(s)
      PROVE  MeterTypeOK'
  <2>1. PICK k \in Counter, n \in Nat : Add(up[s].client, k, n)
    BY <1>3, ToolTokens, TokensAreNat DEF CountList, CountBefore, CountAfter, Counter
  <2>2. disc' \in [Server -> {"none", "lists", "before", "counted"}] /\ UNCHANGED <<tally, carried>>
    BY <1>3 DEF CountList, CountBefore, CountAfter
  <2> QED
    BY <1>3, <2>1, <2>2, AddTypes, CountsWhileMerging
<1>4. ASSUME NEW v \in [Counter -> Nat], Carry(v) PROVE carried' \in Seq([Counter -> Nat])
  BY <1>4 DEF Carry
<1>5. ASSUME NEW r \in Req, MeteredHandle(r) PROVE MeterTypeOK'
  <2>1. carried' \in Seq([Counter -> Nat])
    BY <1>4, <1>5 DEF MeteredHandle
  <2> QED
    BY <1>5, <2>1 DEF MeteredHandle, countVars
<1>6. ASSUME NEW s \in Server, MeteredMerge(s) PROVE MeterTypeOK'
  <2>1. up[s].client \in Req
    BY <1>6, MergesForSomeone DEF MeteredMerge, Merge, Close, Record, Route, SendMerged
  <2>2. carried' \in Seq([Counter -> Nat])
    BY <1>4, <1>6, <2>1 DEF MeteredMerge
  <2>3. disc' \in [Server -> {"none", "lists", "before", "counted"}]
    BY <1>6 DEF MeteredMerge
  <2> QED
    BY <1>6, <2>2, <2>3 DEF MeteredMerge, countVars
<1>7. ASSUME NEW s \in Server, NEW q \in sent[s], MeteredRespond(s, q) PROVE MeterTypeOK'
  <2>1. Zero \in [Counter -> Nat]
    BY DEF Zero
  <2>2. carried' \in Seq([Counter -> Nat])
    BY <1>4, <1>7, <2>1 DEF MeteredRespond
  <2> QED
    BY <1>7, <2>2 DEF MeteredRespond, countVars
<1> QED
  BY <1>1, <1>2, <1>3, <1>5, <1>6, <1>7 DEF MeterNext, MeteredStart, allVars

-----------------------------------------------------------------------------
(* The calls that are being counted, or have been, are finitely many.      *)
LEMMA TalliesAreFinite ==
  ASSUME CallsAreOrdered, CallsAreCounted
  PROVE  /\ IsFiniteSet({r \in Req : tally[r] = "total"})
         /\ IsFiniteSet(Forwarded) /\ IsFiniteSet(TurnedDown)
<1>1. /\ {r \in Req : tally[r] = "total"} \subseteq Handled
      /\ Forwarded \subseteq Handled /\ TurnedDown \subseteq Handled
  BY DEF CallsAreOrdered, ToCount, Handled, Forwarded, TurnedDown
<1> QED
  BY <1>1, FS_Subset DEF CallsAreCounted

(* One more frame tells of one more rejection, if it is one.               *)
LEMMA RejectedNext ==
  ASSUME TypeOK, NEW m \in Reply, toClient' = Append(toClient, m)
  PROVE  Rejected' = IF m.type = "invalid" THEN Rejected \cup {m.to} ELSE Rejected
<1> DEFINE n == Len(toClient)
<1>1. /\ n \in Nat /\ DOMAIN toClient = 1 .. n /\ DOMAIN toClient' = 1 .. n + 1
      /\ toClient'[n + 1] = m /\ \A i \in 1 .. n : toClient'[i] = toClient[i]
  BY OneMore
<1>2. \A i : i \in 1 .. n + 1 <=> i \in 1 .. n \/ i = n + 1
  BY <1>1
<1>3. m.to \in Req
  BY DEF Reply
<1> QED
  BY <1>1, <1>2, <1>3 DEF Rejected

(* A step that is not about calls: another upstream's writer may end in it.*)
LEMMA CallsKept ==
  ASSUME CallsAreOrdered, CallsAreCounted, UNCHANGED <<frame, pc, loc, sent, tally>>,
         closed \subseteq closed', Rejected' = Rejected,
         \A c \in {"total", "forwarded", "rejected"} : counter'[c] = counter[c]
  PROVE  CallsAreOrdered' /\ CallsAreCounted'
<1>1. \A r \in Req : /\ IsSent(r)' <=> IsSent(r)
                     /\ IsLost(r) => IsLost(r)'
                     /\ (IsCall(r)' <=> IsCall(r)) /\ (ToCount(r)' <=> ToCount(r))
  BY DEF IsSent, IsLost, IsCall, ToCount
<1>2. CallsAreOrdered'
  BY <1>1 DEF CallsAreOrdered
<1>3. /\ Handled' = Handled /\ Forwarded' = Forwarded
      /\ TurnedDown' = TurnedDown /\ CallsUnderCount' = CallsUnderCount
  BY <1>1 DEF Handled, Refused, Forwarded, TurnedDown, CallsUnderCount
<1> QED
  BY <1>2, <1>3 DEF CallsAreCounted

(* The handler of a call puts its frame on the channel, or loses it.       *)
LEMMA SendCalls ==
  ASSUME TypeOK, CallsAreOrdered, CallsAreCounted, NEW r \in Req, Send(r),
         UNCHANGED <<counter, tally>>
  PROVE  CallsAreOrdered' /\ CallsAreCounted'
<1>1. /\ pc[r] = "send" /\ pc'[r] \in {"register", "done"} /\ UNCHANGED <<frame, toClient, closed>>
      /\ \A q \in Req \ {r} : pc'[q] = pc[q] /\ loc'[q] = loc[q]
      /\ IsCall(r) => pc'[r] = "done" /\ loc'[r].srv = loc[r].srv
  <2>1. pc \in [Req -> {"new", "validate", "reject", "register", "send", "done"}]
        /\ loc \in [Req -> Local]
    BY DEF TypeOK
  <2>2. IsCall(r) => ~MoreToDo(r)
    BY DEF IsCall, MoreToDo, IsFan, FanMethod
  <2> QED
    BY <2>1, <2>2 DEF Send, Local
<1>2. Rejected' = Rejected
  BY <1>1 DEF Rejected
<1>3. tally[r] = "none" /\ r \notin Rejected
  BY <1>1 DEF CallsAreOrdered, ToCount
<1>4. /\ \A q \in Req : IsSent(q) => IsSent(q)'
      /\ loc[r].srv \notin closed => IsSent(r)'
  <2>1. loc[r].srv \in Server /\ Upcalled(r).req = r /\ sent \in [Server -> SUBSET Upcall]
    BY DEF TypeOK, Local, Upcalled
  <2>2. sent' = IF loc[r].srv \in closed THEN sent
                ELSE [sent EXCEPT ![loc[r].srv] = @ \cup {Upcalled(r)}]
    BY DEF Send, Enqueue
  <2> QED
    BY <2>1, <2>2 DEF IsSent
<1>5. \A q \in Req : (IsCall(q)' <=> IsCall(q))
  BY <1>1 DEF IsCall
<1>6. \A q \in Req \ {r} : (ToCount(q)' <=> ToCount(q)) /\ (IsLost(q) => IsLost(q)')
  BY <1>1, <1>2, <1>5 DEF ToCount, IsLost
<1>7. IsCall(r) => IsSent(r)' \/ IsLost(r)'
  BY <1>1, <1>2, <1>3, <1>4 DEF IsLost
<1>8. CallsAreOrdered'
  BY <1>1, <1>2, <1>3, <1>4, <1>5, <1>6, <1>7 DEF CallsAreOrdered
<1>9. /\ Handled' = Handled /\ Forwarded' = Forwarded
      /\ TurnedDown' = TurnedDown /\ CallsUnderCount' = CallsUnderCount
  BY <1>1, <1>2, <1>3, <1>5 DEF Handled, Refused, Forwarded, TurnedDown, CallsUnderCount
<1> QED
  BY <1>8, <1>9 DEF CallsAreCounted

(* ... turns it down ...                                                   *)
LEMMA ReplyInvalidCalls ==
  ASSUME TypeOK, CallsAreOrdered, CallsAreCounted, NEW r \in Req, ReplyInvalid(r),
         ToCount(r) => tally[r] = "counted", UNCHANGED <<counter, tally>>
  PROVE  CallsAreOrdered' /\ CallsAreCounted'
<1>1. /\ pc[r] = "reject" /\ pc'[r] = "done" /\ UNCHANGED <<frame, loc, sent, closed>>
      /\ \A q \in Req \ {r} : pc'[q] = pc[q]
  BY DEF TypeOK, ReplyInvalid
<1>2. IsCall(r) /\ tally[r] = "counted"
  BY <1>1 DEF CallsAreOrdered, ToCount
<1>3. Rejected' = Rejected \cup {r}
  <2> DEFINE m == [to |-> r, type |-> "invalid", answers |-> NoAnswers]
  <2>1. toClient' = Append(toClient, m) /\ m.type = "invalid" /\ m.to = r
    BY DEF ReplyInvalid
  <2>2. m \in Reply
    BY NoAnswersType DEF Reply
  <2> HIDE DEF m
  <2> QED
    BY <2>1, <2>2, RejectedNext
<1>4. \A q \in Req : (IsCall(q)' <=> IsCall(q)) /\ (IsSent(q)' <=> IsSent(q))
  BY <1>1 DEF IsCall, IsSent
<1>5. \A q \in Req \ {r} : (ToCount(q)' <=> ToCount(q)) /\ (IsLost(q) => IsLost(q)')
  BY <1>1, <1>3, <1>4 DEF ToCount, IsLost
<1>6. ToCount(r)'
  BY <1>1, <1>2, <1>4 DEF ToCount
<1>7. CallsAreOrdered'
  BY <1>1, <1>2, <1>3, <1>4, <1>5, <1>6 DEF CallsAreOrdered
<1>8. Refused' = Refused /\ Handled' = Handled
  BY <1>1, <1>2, <1>3, <1>4 DEF Refused, Handled
<1>9. Forwarded' = Forwarded /\ TurnedDown' = TurnedDown /\ CallsUnderCount' = CallsUnderCount
  BY <1>8 DEF Forwarded, TurnedDown, CallsUnderCount
<1> QED
  BY <1>7, <1>8, <1>9 DEF CallsAreCounted

(* ... or is still on its way.                                             *)
LEMMA OtherCalls ==
  ASSUME TypeOK, HandlersAreOrdered, CallsAreOrdered, CallsAreCounted, NEW r \in Req,
         Start(r) \/ Handle(r), ~Send(r), ~ReplyInvalid(r), UNCHANGED <<counter, tally>>
  PROVE  CallsAreOrdered' /\ CallsAreCounted' /\ tally[r] = "none"
<1>1. /\ UNCHANGED <<frame, sent, closed, toClient>>
      /\ \A q \in Req \ {r} : pc'[q] = pc[q] /\ loc'[q] = loc[q]
  BY DEF TypeOK, Start, OpenFanout, ForwardOther, RejectNameless, RejectUnknown, Resolve,
         Reject, Handle, PassUnchecked, PassRehydrated, RejectArgs, Register, wireVars
<1>2. pc[r] \in {"new", "validate", "register"} /\ pc'[r] # "done"
  BY DEF CanStart, TypeOK, Start, OpenFanout, ForwardOther, RejectNameless, RejectUnknown,
         Resolve, Reject, Handle, PassUnchecked, PassRehydrated, RejectArgs, Register
<1>3. pc'[r] = "reject" => IsCall(r)
  BY DEF TypeOK, HandlersAreOrdered, Start, OpenFanout, ForwardOther, RejectNameless,
         RejectUnknown, Resolve, Reject, Handle, PassUnchecked, PassRehydrated, RejectArgs,
         Register, IsNamedCall, IsCall
<1>4. tally[r] = "none" /\ r \notin Rejected
  BY <1>2 DEF CallsAreOrdered, ToCount
<1>5. Rejected' = Rejected
  BY <1>1 DEF Rejected
<1>6. \A q \in Req : (IsCall(q)' <=> IsCall(q)) /\ (IsSent(q)' <=> IsSent(q))
  BY <1>1 DEF IsCall, IsSent
<1>7. \A q \in Req \ {r} : (ToCount(q)' <=> ToCount(q)) /\ (IsLost(q) => IsLost(q)')
  BY <1>1, <1>5, <1>6 DEF ToCount, IsLost
<1>8. CallsAreOrdered'
  BY <1>1, <1>2, <1>3, <1>4, <1>5, <1>6, <1>7 DEF CallsAreOrdered
<1>9. CallsAreCounted'
  <2>1. IsFiniteSet(Handled')
    <3>1. Handled' \subseteq Handled \cup {r}
      BY <1>1, <1>6 DEF Handled
    <3>2. IsFiniteSet(Handled \cup {r})
      BY FS_AddElement DEF CallsAreCounted
    <3> QED
      BY <3>1, <3>2, FS_Subset
  <2>2. Forwarded' = Forwarded /\ TurnedDown' = TurnedDown /\ CallsUnderCount' = CallsUnderCount
    BY <1>1, <1>4, <1>5, <1>6 DEF Refused, Forwarded, TurnedDown, CallsUnderCount
  <2> QED
    BY <2>1, <2>2 DEF CallsAreCounted
<1> QED
  BY <1>4, <1>8, <1>9

(* A call is added to the total ...                                        *)
LEMMA CountTotalCalls ==
  ASSUME MeterTypeOK, CallsAreOrdered, CallsAreCounted, NEW r \in Req, CountTotal(r)
  PROVE  CallsAreOrdered' /\ CallsAreCounted'
<1>1. /\ ToCount(r) /\ tally[r] = "none" /\ tally' = [tally EXCEPT ![r] = "total"]
      /\ counter' = [counter EXCEPT !["total"] = @ + 1] /\ UNCHANGED vars
  BY DEF CountTotal, Add
<1>2. counter \in [Counter -> Nat] /\ tally \in [Req -> {"none", "total", "counted"}]
  BY DEF MeterTypeOK
<1>3. /\ \A q \in Req : (IsSent(q)' <=> IsSent(q)) /\ (IsLost(q)' <=> IsLost(q))
                        /\ (IsCall(q)' <=> IsCall(q)) /\ (ToCount(q)' <=> ToCount(q))
      /\ Rejected' = Rejected /\ Handled' = Handled /\ UNCHANGED pc
  BY <1>1 DEF IsSent, IsLost, IsCall, ToCount, Rejected, Handled, vars
<1>4. tally'[r] = "total" /\ \A q \in Req \ {r} : tally'[q] = tally[q]
  BY <1>1, <1>2
<1>5. CallsAreOrdered'
  BY <1>1, <1>3, <1>4 DEF CallsAreOrdered
<1>6. CallsAreCounted'
  <2>1. Forwarded' = Forwarded /\ TurnedDown' = TurnedDown
    BY <1>1, <1>3, <1>4 DEF Refused, Forwarded, TurnedDown
  <2> DEFINE U == {q \in Req : tally[q] = "total"}
  <2>2. CallsUnderCount' = Cardinality(U \cup {r}) /\ r \notin U
    <3>1. {q \in Req : tally'[q] = "total"} = U \cup {r}
      BY <1>4
    <3> QED
      BY <1>1, <3>1 DEF CallsUnderCount
  <2>3. IsFiniteSet(U) /\ Cardinality(U) \in Nat
    BY TalliesAreFinite, FS_CardinalityType
  <2>4. CallsUnderCount' = CallsUnderCount + 1 /\ CallsUnderCount \in Nat
    <3> HIDE DEF U
    <3>1. CallsUnderCount = Cardinality(U)
      BY DEF CallsUnderCount, U
    <3> QED
      BY <2>2, <2>3, <3>1, FS_AddElement
  <2>5. /\ counter'["total"] = counter["total"] + 1
        /\ counter'["forwarded"] = counter["forwarded"]
        /\ counter'["rejected"] = counter["rejected"]
        /\ {counter["total"], counter["forwarded"], counter["rejected"]} \subseteq Nat
    BY <1>1, <1>2 DEF Counter
  <2> QED
    BY <1>3, <2>1, <2>4, <2>5 DEF CallsAreCounted
<1> QED
  BY <1>5, <1>6

(* ... and then to its part.                                               *)
LEMMA CountPartCalls ==
  ASSUME MeterTypeOK, CallsAreOrdered, CallsAreCounted, NEW r \in Req, CountPart(r)
  PROVE  CallsAreOrdered' /\ CallsAreCounted'
<1> DEFINE part == IF pc[r] = "reject" THEN "rejected" ELSE "forwarded"
<1>1. /\ tally[r] = "total" /\ tally' = [tally EXCEPT ![r] = "counted"]
      /\ counter' = [counter EXCEPT ![part] = @ + 1] /\ UNCHANGED vars
  BY DEF CountPart, Add
<1>2. counter \in [Counter -> Nat] /\ tally \in [Req -> {"none", "total", "counted"}]
  BY DEF MeterTypeOK
<1>3. /\ \A q \in Req : (IsSent(q)' <=> IsSent(q)) /\ (IsLost(q)' <=> IsLost(q))
                        /\ (IsCall(q)' <=> IsCall(q)) /\ (ToCount(q)' <=> ToCount(q))
      /\ Rejected' = Rejected /\ Handled' = Handled /\ Refused' = Refused /\ UNCHANGED pc
  BY <1>1 DEF IsSent, IsLost, IsCall, ToCount, Rejected, Refused, Handled, vars
<1>4. tally'[r] = "counted" /\ \A q \in Req \ {r} : tally'[q] = tally[q]
  BY <1>1, <1>2
<1>5. CallsAreOrdered'
  BY <1>1, <1>3, <1>4 DEF CallsAreOrdered
<1>6. pc[r] = "reject" <=> r \in Refused
  BY <1>1 DEF CallsAreOrdered, ToCount, Refused
<1>7. CallsAreCounted'
  <2>1. /\ Forwarded' = IF r \notin Refused THEN Forwarded \cup {r} ELSE Forwarded
        /\ TurnedDown' = IF r \notin Refused THEN TurnedDown ELSE TurnedDown \cup {r}
    BY <1>1, <1>3, <1>4 DEF Forwarded, TurnedDown
  <2>2. r \notin Forwarded /\ r \notin TurnedDown
    BY <1>1 DEF Forwarded, TurnedDown
  <2>3. /\ Cardinality(Forwarded \cup {r}) = Cardinality(Forwarded) + 1
        /\ Cardinality(TurnedDown \cup {r}) = Cardinality(TurnedDown) + 1
    BY <2>2, TalliesAreFinite, FS_AddElement
  <2> DEFINE U == {q \in Req : tally[q] = "total"}
  <2>4. CallsUnderCount' = Cardinality(U \ {r}) /\ r \in U
    <3>1. {q \in Req : tally'[q] = "total"} = U \ {r}
      BY <1>4
    <3> QED
      BY <1>1, <3>1 DEF CallsUnderCount
  <2>5. IsFiniteSet(U) /\ Cardinality(U) \in Nat
    BY TalliesAreFinite, FS_CardinalityType
  <2>6. CallsUnderCount' = CallsUnderCount - 1 /\ CallsUnderCount \in Nat
    <3> HIDE DEF U
    <3>1. CallsUnderCount = Cardinality(U)
      BY DEF CallsUnderCount, U
    <3> QED
      BY <2>4, <2>5, <3>1, FS_RemoveElement
  <2>7. {counter["total"], counter["forwarded"], counter["rejected"]} \subseteq Nat
    BY <1>2 DEF Counter
  <2>8. CASE r \notin Refused
    <3>1. /\ counter'["total"] = counter["total"]
          /\ counter'["forwarded"] = counter["forwarded"] + 1
          /\ counter'["rejected"] = counter["rejected"]
      BY <1>1, <1>2, <1>6, <2>8 DEF Counter
    <3> QED
      BY <1>3, <2>1, <2>3, <2>6, <2>7, <2>8, <3>1 DEF CallsAreCounted
  <2>9. CASE r \in Refused
    <3>1. /\ counter'["total"] = counter["total"]
          /\ counter'["forwarded"] = counter["forwarded"]
          /\ counter'["rejected"] = counter["rejected"] + 1
      BY <1>1, <1>2, <1>6, <2>9 DEF Counter
    <3> QED
      BY <1>3, <2>1, <2>3, <2>6, <2>7, <2>9, <3>1 DEF CallsAreCounted
  <2> QED
    BY <2>8, <2>9
<1> QED
  BY <1>5, <1>7

-----------------------------------------------------------------------------
(* The last answer makes a reader task merge: nothing is counted yet.      *)
LEMMA RespondLists ==
  ASSUME IInv, TablesInv, ListsAreOrdered, NEW s \in Server, NEW q \in sent[s], Respond(s, q),
         UNCHANGED disc
  PROVE  /\ ListsAreOrdered' /\ UNCHANGED handlerVars
         /\ \A t \in Server : up'[t] = up[t] \/ disc[t] = "none"
<1>1. CASE UNCHANGED up /\ UNCHANGED handlerVars
  BY <1>1 DEF ListsAreOrdered, ToReport, IsMerged, handlerVars
<1>2. CASE CollectLast(s, q)
  <2> DEFINE f == pending[s][q.id].fan
  <2>1. PICK resp \in Answer(s, q) :
          up' = [up EXCEPT ![s] =
                  [Reading EXCEPT !.pc = "close", !.fan = f, !.kind = fanouts[f].kind,
                                  !.client = fanouts[f].client,
                                  !.collected = [fanouts[f].collected EXCEPT ![s] = resp]]]
    BY <1>2 DEF CollectLast
  <2>2. f \in Id /\ IsOpen(f)
    BY <1>2, SlotIsPublished DEF CollectLast
  <2>3. up \in [Server -> Collector]
    BY DEF IInv, TypeOK
  <2>4. /\ up'[s].pc = "close" /\ up'[s].kind = fanouts[f].kind
        /\ up'[s].client = fanouts[f].client /\ \A t \in Server \ {s} : up'[t] = up[t]
    BY <2>1, <2>3 DEF Reading
  <2>5. fanouts[f].kind = frame[fanouts[f].client].method
    BY <2>2 DEF TablesInv, FanoutsArePublished
  <2>6. up[s].pc = "read" /\ UNCHANGED handlerVars
    BY <1>2 DEF CollectLast, Answered
  <2>7. disc[s] = "none"
    BY <2>6 DEF ListsAreOrdered, ToReport, IsMerged
  <2> QED
    BY <2>4, <2>5, <2>6, <2>7 DEF ListsAreOrdered, ToReport, IsMerged, handlerVars
<1> QED
  BY <1>1, <1>2 DEF Respond, ForwardReply, Collect

(* A merge is counted as it ends, and over when its frame is sent.         *)
LEMMA MergeLists ==
  ASSUME TypeOK, MeterTypeOK, ListsAreOrdered, NEW s \in Server, MeteredMerge(s)
  PROVE  /\ ListsAreOrdered' /\ UNCHANGED handlerVars /\ disc'[s] = "none"
         /\ \A t \in Server \ {s} : up'[t] = up[t] /\ disc'[t] = disc[t]
<1>0. /\ up \in [Server -> Collector]
      /\ disc \in [Server -> {"none", "lists", "before", "counted"}]
  BY DEF TypeOK, MeterTypeOK
<1>1. Merge(s) /\ disc' = [disc EXCEPT ![s] = IF IsMerged(s) THEN "none" ELSE @]
  BY DEF MeteredMerge
<1>2. UNCHANGED handlerVars /\ \A t \in Server \ {s} : up'[t] = up[t] /\ disc'[t] = disc[t]
  BY <1>0, <1>1 DEF Merge, Close, Record, Route, SendMerged
<1>3. disc'[s] = "none"
  BY <1>0, <1>1 DEF ListsAreOrdered, ToReport
<1>4. up'[s].pc # "read" =>
        up[s].pc # "read" /\ up'[s].kind = up[s].kind /\ up'[s].client = up[s].client
  <2>1. CASE Close(s)
    BY <1>0, <2>1 DEF Close, Collector
  <2>2. CASE Record(s)
    BY <1>0, <2>2 DEF Record, Collector
  <2>3. CASE Route(s)
    BY <1>0, <2>3 DEF Route, Collector
  <2>4. CASE SendMerged(s)
    BY <1>0, <2>4 DEF SendMerged, Reading
  <2> QED
    BY <1>1, <2>1, <2>2, <2>3, <2>4 DEF Merge
<1>5. UNCHANGED frame
  BY <1>2 DEF handlerVars
<1>6. ListsAreOrdered'
  BY <1>2, <1>3, <1>4, <1>5 DEF ListsAreOrdered, ToReport, IsMerged
<1> QED
  BY <1>2, <1>3, <1>6

-----------------------------------------------------------------------------
(* What frames tell stays true while nothing more is counted for the       *)
(* requests that they answer.                                              *)
LEMMA FramesKept ==
  ASSUME FramesAreCounted, UNCHANGED <<frame, toClient, carried>>,
         \A i \in DOMAIN toClient : \A k \in Units :
           (toClient[i].type = "invalid" /\ k # "lists") \/ (IsList(i) /\ k = "lists") =>
             view'[toClient[i].to][k] = view[toClient[i].to][k]
  PROVE  FramesAreCounted'
<1>1. \A i \in DOMAIN toClient : IsList(i)' <=> IsList(i)
  BY DEF IsList
<1>2. Len(carried') = Len(toClient')
  BY DEF FramesAreCounted
<1> SUFFICES ASSUME NEW i \in DOMAIN toClient
             PROVE  LET r == toClient[i].to IN
                    /\ toClient[i].type = "invalid" => \A k \in {"total", "rejected"} :
                         carried[i][k] = view'[r][k] /\ view'[r][k] > 0
                    /\ IsList(i) =>
                         /\ carried[i]["lists"] = view'[r]["lists"] /\ view'[r]["lists"] > 0
                         /\ carried[i]["before"] >= Before(toClient[i].answers)
                         /\ carried[i]["after"] >= After(toClient[i].answers)
  BY <1>1, <1>2 DEF FramesAreCounted, Before, After, Listed
<1>3. toClient[i].type = "invalid" => \A k \in {"total", "rejected"} :
        view'[toClient[i].to][k] = view[toClient[i].to][k]
  BY DEF Units
<1>4. IsList(i) => view'[toClient[i].to]["lists"] = view[toClient[i].to]["lists"]
  BY DEF Units
<1> QED
  BY <1>3, <1>4 DEF FramesAreCounted

(* A frame tells what its task has counted for its request, if anything.   *)
LEMMA FrameAppended ==
  ASSUME MeterTypeOK, FramesAreCounted, LatestIsMost, UNCHANGED <<frame, countVars>>,
         NEW m, toClient' = Append(toClient, m), NEW v \in [Counter -> Nat], Carry(v),
         \A k \in Counter : v[k] <= counter[k],
         m.type = "invalid" => \A k \in {"total", "rejected"} :
           v[k] = view[m.to][k] /\ view[m.to][k] > 0,
         m.type = "merged" /\ frame[m.to].method = "tools/list" =>
           /\ v["lists"] = view[m.to]["lists"] /\ view[m.to]["lists"] > 0
           /\ v["before"] >= Before(m.answers) /\ v["after"] >= After(m.answers)
  PROVE  FramesAreCounted' /\ LatestIsMost'
<1> DEFINE n == Len(toClient)
<1>1. /\ n \in Nat /\ DOMAIN toClient = 1 .. n /\ DOMAIN toClient' = 1 .. n + 1
      /\ toClient'[n + 1] = m /\ \A i \in 1 .. n : toClient'[i] = toClient[i]
  BY OneMore DEF MeterTypeOK
<1>2. toClient' # toClient
  <2>1. n + 1 \in DOMAIN toClient' /\ n + 1 \notin DOMAIN toClient
    BY <1>1
  <2> QED
    BY <2>1
<1>3. carried \in Seq([Counter -> Nat]) /\ Len(carried) = n /\ carried' = Append(carried, v)
  BY <1>2 DEF MeterTypeOK, Carry, FramesAreCounted
<1>4. /\ Len(carried') = n + 1 /\ DOMAIN carried = 1 .. n /\ DOMAIN carried' = 1 .. n + 1
      /\ carried'[n + 1] = v /\ \A i \in 1 .. n : carried'[i] = carried[i]
  BY <1>1, <1>3
<1>5. \A i \in 1 .. n + 1 :
        IsList(i)' <=> IF i = n + 1 THEN m.type = "merged" /\ frame[m.to].method = "tools/list"
                       ELSE IsList(i)
  BY <1>1 DEF IsList
<1>6. UNCHANGED <<counter, past, view>> /\ toClient' = Append(toClient, m)
  BY DEF countVars
<1>7. Len(toClient') = n + 1
  BY <1>1, <1>6 DEF MeterTypeOK, TypeOK
<1>8. FramesAreCounted'
  <2> SUFFICES ASSUME NEW i \in 1 .. n + 1
               PROVE  LET r == toClient'[i].to IN
                      /\ toClient'[i].type = "invalid" => \A k \in {"total", "rejected"} :
                           carried'[i][k] = view[r][k] /\ view[r][k] > 0
                      /\ IsList(i)' =>
                           /\ carried'[i]["lists"] = view[r]["lists"] /\ view[r]["lists"] > 0
                           /\ carried'[i]["before"] >= Before(toClient'[i].answers)
                           /\ carried'[i]["after"] >= After(toClient'[i].answers)
    BY <1>1, <1>4, <1>6, <1>7 DEF FramesAreCounted, Before, After, Listed
  <2>1. CASE i = n + 1
    BY <1>1, <1>4, <1>5, <2>1
  <2>2. CASE i \in 1 .. n
    <3>1. toClient'[i] = toClient[i] /\ carried'[i] = carried[i] /\ (IsList(i)' <=> IsList(i))
      BY <1>1, <1>4, <1>5, <2>2
    <3> QED
      BY <1>1, <2>2, <3>1 DEF FramesAreCounted
  <2> QED
    BY <1>1, <2>1, <2>2
<1>9. LatestIsMost'
  <2>1. \A i \in 1 .. n + 1 : \A k \in Counter : carried'[i][k] <= counter[k]
    BY <1>1, <1>4 DEF LatestIsMost
  <2> QED
    BY <1>4, <1>6, <2>1 DEF LatestIsMost
<1> QED
  BY <1>8, <1>9

(* A step of the router alone, without a frame to the client.              *)
LEMMA NoFrame ==
  ASSUME FramesAreCounted, LatestIsMost, UNCHANGED <<frame, toClient, countVars>>,
         carried' = carried \/ \E v : Carry(v)
  PROVE  FramesAreCounted' /\ LatestIsMost'
<1>1. UNCHANGED <<carried, counter, past, view>>
  BY DEF Carry, countVars
<1> QED
  BY <1>1, FramesKept DEF LatestIsMost

(* What the conjuncts about views and frames are together.                 *)
FramesInv == ViewsAreApart /\ ViewsAreCurrent /\ FramesAreCounted /\ LatestIsMost

(* The steps of a handler that are the router's.                           *)
LEMMA HandlerFrames ==
  ASSUME MeterTypeOK, HandlersAreOrdered, CallsAreOrdered, CallsAreCounted, FramesInv,
         NEW r \in Req, MeteredStart(r) \/ MeteredHandle(r)
  PROVE  FramesInv'
<1> USE DEF FramesInv
<1>1. /\ Start(r) \/ Handle(r)
      /\ UNCHANGED <<counter, past, view, tally, disc>>
      /\ carried' = carried \/ Carry(view[r])
  BY DEF MeteredStart, MeteredHandle, meterVars, countVars
<1>2. UNCHANGED <<frame, up>>
  BY <1>1 DEF Start, OpenFanout, ForwardOther, RejectNameless, RejectUnknown, Resolve,
         Reject, Handle, PassUnchecked, PassRehydrated, RejectArgs, ReplyInvalid, Register, Send
<1>3. \A q \in Req : pc'[q] = "reject" => pc[q] = "reject" \/ tally[q] = "none"
  <2>1. pc \in [Req -> {"new", "validate", "reject", "register", "send", "done"}]
    BY DEF MeterTypeOK, TypeOK
  <2>2. \A q \in Req \ {r} : pc'[q] = pc[q]
    BY <1>1, <2>1 DEF Start, OpenFanout, ForwardOther, RejectNameless, RejectUnknown, Resolve,
         Reject, Handle, PassUnchecked, PassRehydrated, RejectArgs, ReplyInvalid, Register, Send
  <2>3. pc'[r] = "reject" => pc[r] \in {"new", "validate"}
    BY <1>1, <2>1 DEF CanStart, Start, OpenFanout, ForwardOther, RejectNameless, RejectUnknown,
         Resolve, Handle, PassUnchecked, PassRehydrated, RejectArgs, ReplyInvalid, Register, Send
  <2> QED
    BY <2>2, <2>3 DEF CallsAreOrdered, ToCount
<1>4. ViewsAreApart' /\ ViewsAreCurrent'
  BY <1>1, <1>2, <1>3 DEF ViewsAreApart, ViewsAreCurrent, Before, After, Listed
<1>5. FramesAreCounted' /\ LatestIsMost'
  <2>1. CASE UNCHANGED toClient
    BY <1>1, <1>2, <2>1, NoFrame DEF countVars
  <2>2. CASE ReplyInvalid(r)
    <3> DEFINE m == [to |-> r, type |-> "invalid", answers |-> NoAnswers]
    <3>1. toClient' = Append(toClient, m) /\ pc[r] = "reject" /\ m.to = r /\ m.type = "invalid"
      BY <2>2 DEF ReplyInvalid
    <3>2. MeteredHandle(r) /\ tally[r] = "counted"
      <4>1. ~MeteredStart(r)
        BY <3>1 DEF MeteredStart, Start, CanStart, OpenFanout, ForwardOther, RejectNameless,
           RejectUnknown, Resolve
      <4> QED
        BY <3>1, <4>1 DEF MeteredHandle, CallsAreOrdered, ToCount
    <3>3. Carry(view[r]) /\ view[r] \in [Counter -> Nat]
      BY <3>2 DEF MeteredHandle, MeterTypeOK
    <3>4. view[r]["total"] > 0 /\ view[r]["rejected"] > 0
      BY <3>1, <3>2 DEF ViewsAreCurrent
    <3>5. \A k \in Counter : view[r][k] <= counter[k]
      BY DEF LatestIsMost
    <3> HIDE DEF m
    <3> QED
      BY <1>1, <1>2, <3>1, <3>3, <3>4, <3>5, FrameAppended DEF countVars
  <2>3. UNCHANGED toClient \/ ReplyInvalid(r)
    BY <1>1 DEF Start, OpenFanout, ForwardOther, RejectNameless, RejectUnknown, Resolve,
         Reject, Handle, PassUnchecked, PassRehydrated, RejectArgs, Register, Send, wireVars
  <2> QED
    BY <2>1, <2>2, <2>3
<1> QED
  BY <1>4, <1>5

(* The counting of a call comes before its frame.                          *)
LEMMA CallFrames ==
  ASSUME MeterTypeOK, CallsAreOrdered, FramesInv, NEW r \in Req, CountTotal(r) \/ CountPart(r)
  PROVE  FramesInv'
<1> USE DEF FramesInv
<1>1. PICK k \in {"total", "forwarded", "rejected"} :
        /\ Add(r, k, 1) /\ UNCHANGED <<vars, disc, carried>>
        /\ CountTotal(r) => k = "total"
        /\ CountPart(r) /\ pc[r] = "reject" => k = "rejected"
  BY DEF CountTotal, CountPart
<1>2. /\ k \in Counter /\ tally[r] # "counted" /\ ToCount(r)
      /\ counter[k] \in Nat
      /\ \A q \in Req \ {r} : tally'[q] = tally[q]
      /\ tally'[r] = "counted" => CountPart(r) /\ tally[r] = "total"
  BY DEF CountTotal, CountPart, MeterTypeOK, Counter, CallsAreOrdered
<1>3. /\ ViewsAreApart' /\ LatestIsMost'
      /\ \A q \in Req, c \in Counter : view'[q][c] >= view[q][c]
  BY <1>1, <1>2, AddKeeps
<1>4. /\ view'[r][k] = counter[k] + 1 /\ view' \in [Req -> [Counter -> Nat]]
      /\ \A q \in Req, c \in Counter : q # r \/ c # k => view'[q][c] = view[q][c]
  BY <1>1, <1>2, AddTypes
<1>5. FramesAreCounted'
  <2> SUFFICES ASSUME NEW i \in DOMAIN toClient, NEW c \in Units,
                      (toClient[i].type = "invalid" /\ c # "lists") \/ (IsList(i) /\ c = "lists")
               PROVE  view'[toClient[i].to][c] = view[toClient[i].to][c]
    BY <1>1, FramesKept DEF vars
  <2>1. toClient[i].to \in Req /\ c \in Counter
    <3>1. toClient \in Seq(Reply)
      BY DEF MeterTypeOK, TypeOK
    <3>2. toClient[i] \in Reply
      BY <3>1
    <3> QED
      BY <3>2 DEF Reply, Units, Counter
  <2>2. CASE c = "lists"
    BY <1>4, <2>1, <2>2
  <2>3. CASE c # "lists"
    <3>1. toClient[i].to # r
      BY <1>2, <2>3 DEF CallsAreOrdered, Rejected
    <3> QED
      BY <1>4, <2>1, <3>1
  <2> QED
    BY <2>2, <2>3
<1>6. ViewsAreCurrent'
  <2>1. ASSUME NEW q \in Req
        PROVE  /\ tally'[q] # "none" => view'[q]["total"] > 0
               /\ tally'[q] = "counted" /\ pc[q] = "reject" => view'[q]["rejected"] > 0
    <3>1. /\ view[q]["total"] \in Nat /\ view'[q]["total"] \in Nat
          /\ view'[q]["total"] >= view[q]["total"]
          /\ view[q]["rejected"] \in Nat /\ view'[q]["rejected"] \in Nat
          /\ view'[q]["rejected"] >= view[q]["rejected"]
      BY <1>3, <1>4 DEF MeterTypeOK, Counter
    <3>2. CASE q # r
      BY <1>2, <3>1, <3>2 DEF ViewsAreCurrent
    <3>3. CASE q = r /\ CountTotal(r)
      <4>1. k = "total" /\ view'[r]["total"] > 0 /\ tally'[r] # "counted"
        BY <1>1, <1>2, <1>4, <3>3 DEF CountTotal, CountPart
      <4> QED
        BY <3>3, <4>1
    <3>4. CASE q = r /\ CountPart(r)
      <4>1. tally[r] = "total" /\ view[r]["total"] > 0
        BY <3>4 DEF CountPart, ViewsAreCurrent
      <4>2. pc[r] = "reject" => view'[r]["rejected"] > 0
        BY <1>1, <1>2, <1>4, <3>4
      <4> QED
        BY <3>1, <3>4, <4>1, <4>2
    <3> QED
      BY <3>2, <3>3, <3>4
  <2>2. ASSUME NEW s \in Server, disc[s] # "none"
        PROVE  LET seen == view'[up[s].client] IN
               /\ seen["lists"] > 0
               /\ disc[s] \in {"before", "counted"} => seen["before"] >= Before(up[s].collected)
               /\ disc[s] = "counted" => seen["after"] >= After(up[s].collected)
    <3>1. \A c \in {"lists", "before", "after"} : c # k
      OBVIOUS
    <3>2. up[s].client \in Req => \A c \in {"lists", "before", "after"} :
            view'[up[s].client][c] = view[up[s].client][c]
      BY <1>4, <3>1 DEF Counter
    <3>3. up[s].client \notin Req => view'[up[s].client] = view[up[s].client]
      BY <1>1 DEF Add, MeterTypeOK
    <3> QED
      BY <2>2, <3>2, <3>3 DEF ViewsAreCurrent
  <2> QED
    BY <1>1, <2>1, <2>2 DEF ViewsAreCurrent, vars, Before, After, Listed
<1> QED
  BY <1>3, <1>5, <1>6

(* The counting of a list comes before its frame.                          *)
LEMMA ListFrames ==
  ASSUME IInv, MeterTypeOK, ListsAreOrdered, FramesInv, NEW s \in Server,
         CountList(s) \/ CountBefore(s) \/ CountAfter(s)
  PROVE  FramesInv' /\ ListsAreOrdered'
<1> USE DEF FramesInv
<1> DEFINE r == up[s].client
<1>1. ToReport(s) /\ r \in Req /\ ~Replied(r) /\ UNCHANGED <<vars, tally, carried>>
  BY CountsWhileMerging
<1>2. \A t \in Server \ {s} : disc'[t] = disc[t] /\ (disc[t] # "none" => up[t].client # r)
  <2>1. \A t \in Server \ {s} : disc'[t] = disc[t]
    BY DEF CountList, CountBefore, CountAfter, MeterTypeOK
  <2>2. \A t \in Server \ {s} : disc[t] # "none" => up[t].client # r
    BY <1>1 DEF ListsAreOrdered, ToReport, IsMerged, IInv, MergesAreOwed, MergeIsOwed
  <2> QED
    BY <2>1, <2>2
<1>3. PICK k \in {"lists", "before", "after"}, n \in Nat :
        /\ Add(r, k, n) /\ (k = "lists" => n = 1)
        /\ k = "lists" => disc[s] = "none" /\ disc'[s] = "lists"
        /\ k = "before" => disc[s] = "lists" /\ disc'[s] = "before" /\ n = Before(up[s].collected)
        /\ k = "after" => disc[s] = "before" /\ disc'[s] = "counted" /\ n = After(up[s].collected)
  <2>1. CASE CountList(s)
    BY <2>1 DEF CountList, MeterTypeOK
  <2>2. CASE CountBefore(s)
    BY <2>2, ToolTokens, TokensAreNat DEF CountBefore, MeterTypeOK
  <2>3. CASE CountAfter(s)
    BY <2>3, ToolTokens, TokensAreNat DEF CountAfter, MeterTypeOK
  <2> QED
    BY <2>1, <2>2, <2>3
<1>4. k \in Counter /\ (k \in Units => n = 1) /\ counter[k] \in Nat
  BY <1>3 DEF Counter, Units, MeterTypeOK
<1>5. /\ ViewsAreApart' /\ LatestIsMost'
      /\ \A q \in Req, c \in Counter : view'[q][c] >= view[q][c]
  BY <1>1, <1>3, <1>4, AddKeeps
<1>6. /\ view'[r][k] = counter[k] + n /\ view' \in [Req -> [Counter -> Nat]]
      /\ view \in [Req -> [Counter -> Nat]]
      /\ \A q \in Req, c \in Counter : q # r \/ c # k => view'[q][c] = view[q][c]
  BY <1>1, <1>3, <1>4, AddTypes DEF MeterTypeOK
<1>7. FramesAreCounted'
  <2> SUFFICES ASSUME NEW i \in DOMAIN toClient, NEW c \in Units
               PROVE  view'[toClient[i].to][c] = view[toClient[i].to][c]
    BY <1>1, FramesKept DEF vars
  <2>1. toClient[i].to \in Req /\ c \in Counter
    <3>1. toClient \in Seq(Reply)
      BY DEF MeterTypeOK, TypeOK
    <3>2. toClient[i] \in Reply
      BY <3>1
    <3> QED
      BY <3>2 DEF Reply, Units, Counter
  <2>2. toClient[i].to # r
    BY <1>1 DEF Replied
  <2> QED
    BY <1>6, <2>1, <2>2
<1>8. UNCHANGED <<up, frame, pc>>
  BY <1>1 DEF vars
<1>9. ViewsAreCurrent'
  <2>1. ASSUME NEW q \in Req
        PROVE  view'[q]["total"] = view[q]["total"] /\ view'[q]["rejected"] = view[q]["rejected"]
    BY <1>3, <1>6 DEF Counter
  <2>2. ASSUME NEW t \in Server
        PROVE  LET seen == view'[up[t].client] IN
               /\ disc'[t] # "none" => seen["lists"] > 0
               /\ disc'[t] \in {"before", "counted"} => seen["before"] >= Before(up[t].collected)
               /\ disc'[t] = "counted" => seen["after"] >= After(up[t].collected)
    <3>1. CASE t = s
      <4>1. \A c \in {"lists", "before", "after"} :
              view[r][c] \in Nat /\ view'[r][c] \in Nat /\ view'[r][c] >= view[r][c]
        BY <1>1, <1>5, <1>6 DEF Counter
      <4>2. view'[r][k] >= n
        BY <1>3, <1>4, <1>6
      <4>3. Before(up[s].collected) \in Nat /\ After(up[s].collected) \in Nat
        BY TokensAreNat
      <4>4. CASE k = "lists"
        BY <1>3, <1>4, <4>2, <4>4, <3>1, <4>1
      <4>5. CASE k = "before"
        BY <1>3, <4>2, <4>5, <3>1, <4>1 DEF ViewsAreCurrent
      <4>6. CASE k = "after"
        <5>1. view[r]["lists"] > 0 /\ view[r]["before"] >= Before(up[s].collected)
          BY <1>3, <4>6 DEF ViewsAreCurrent
        <5> QED
          BY <1>3, <4>1, <4>2, <4>3, <4>6, <3>1, <5>1
      <4> QED
        BY <1>3, <4>4, <4>5, <4>6
    <3>2. CASE t # s /\ disc[t] # "none"
      <4>1. up[t].client \in Req /\ up[t].client # r
        BY <1>2, <3>2, MergesForSomeone DEF ListsAreOrdered, ToReport, IsMerged
      <4>2. \A c \in {"lists", "before", "after"} : view'[up[t].client][c] = view[up[t].client][c]
        BY <1>6, <4>1 DEF Counter
      <4> QED
        BY <1>2, <3>2, <4>2 DEF ViewsAreCurrent
    <3>3. CASE t # s /\ disc[t] = "none"
      BY <1>2, <3>3
    <3> QED
      BY <3>1, <3>2, <3>3
  <2> QED
    BY <1>1, <1>8, <2>1, <2>2 DEF ViewsAreCurrent, Before, After, Listed
<1>10. ListsAreOrdered'
  BY <1>1, <1>2, <1>8 DEF ListsAreOrdered, ToReport, IsMerged
<1> QED
  BY <1>5, <1>7, <1>9, <1>10

(* Views do not care who merges, as long as nothing is counted of it yet.  *)
LEMMA ViewsKept ==
  ASSUME ViewsAreApart, ViewsAreCurrent, UNCHANGED <<countVars, pc, tally>>,
         \A t \in Server : disc'[t] = "none" \/ (up'[t] = up[t] /\ disc'[t] = disc[t])
  PROVE  ViewsAreApart' /\ ViewsAreCurrent'
<1>1. UNCHANGED <<view, pc, tally>>
  BY DEF countVars
<1>2. ViewsAreApart'
  BY <1>1 DEF ViewsAreApart
<1>3. \A t \in Server : disc'[t] # "none" => up'[t] = up[t] /\ disc'[t] = disc[t]
  OBVIOUS
<1> QED
  BY <1>1, <1>2, <1>3 DEF ViewsAreCurrent, Before, After, Listed

(* A forwarded answer tells nothing of what is counted.                    *)
LEMMA RespondFrames ==
  ASSUME IInv, TablesInv, MeterTypeOK, CallsAreOrdered, CallsAreCounted, ListsAreOrdered,
         FramesInv, NEW s \in Server, NEW q \in sent[s], MeteredRespond(s, q)
  PROVE  CallsAreOrdered' /\ CallsAreCounted' /\ FramesInv' /\ ListsAreOrdered'
<1> USE DEF FramesInv
<1>1. Respond(s, q) /\ Carry(Zero) /\ UNCHANGED <<counter, past, view, tally, disc>>
  BY DEF MeteredRespond, countVars
<1>2. /\ ListsAreOrdered' /\ UNCHANGED <<frame, pc, loc>>
      /\ \A t \in Server : up'[t] = up[t] \/ disc[t] = "none"
  BY <1>1, RespondLists DEF handlerVars
<1>3. ViewsAreApart' /\ ViewsAreCurrent'
  BY <1>1, <1>2, ViewsKept DEF countVars
<1>4. UNCHANGED <<sent, closed>>
  BY <1>1 DEF Respond, ForwardReply, Collect, CollectLast, wireVars
<1>5. CASE UNCHANGED toClient
  <2>1. Rejected' = Rejected
    BY <1>5 DEF Rejected
  <2>2. FramesAreCounted' /\ LatestIsMost'
    BY <1>1, <1>2, <1>5, NoFrame DEF countVars
  <2> QED
    BY <1>1, <1>2, <1>3, <1>4, <2>1, <2>2, CallsKept
<1>6. CASE ForwardReply(s, q)
  <2>1. PICK resp \in Answer(s, q) :
          toClient' = Append(toClient, [to |-> pending[s][q.id].req, type |-> "result",
                                        answers |-> [NoAnswers EXCEPT ![s] = resp]])
    BY <1>6 DEF ForwardReply
  <2> DEFINE m == [to |-> pending[s][q.id].req, type |-> "result",
                   answers |-> [NoAnswers EXCEPT ![s] = resp]]
  <2>2. toClient' = Append(toClient, m) /\ m.type = "result"
    BY <2>1
  <2>3. TypeOK
    BY DEF IInv
  <2> HIDE DEF m
  <2>4. Rejected' = Rejected
    <3> DEFINE n == Len(toClient)
    <3>1. /\ n \in Nat /\ DOMAIN toClient = 1 .. n /\ DOMAIN toClient' = 1 .. n + 1
          /\ toClient'[n + 1] = m /\ \A i \in 1 .. n : toClient'[i] = toClient[i]
      BY <2>2, <2>3, OneMore
    <3>2. \A i : i \in 1 .. n + 1 <=> i \in 1 .. n \/ i = n + 1
      BY <3>1
    <3> QED
      BY <2>2, <3>1, <3>2 DEF Rejected
  <2>5. Zero \in [Counter -> Nat] /\ \A k \in Counter : Zero[k] <= counter[k]
    BY DEF Zero, MeterTypeOK
  <2>6. FramesAreCounted' /\ LatestIsMost'
    BY <1>1, <1>2, <2>2, <2>5, FrameAppended DEF countVars
  <2> QED
    BY <1>1, <1>2, <1>3, <1>4, <2>4, <2>6, CallsKept
<1> QED
  BY <1>1, <1>5, <1>6 DEF Respond, Collect, CollectLast, wireVars

(* A merged list is sent with all that was counted of it.                  *)
LEMMA MergeFrames ==
  ASSUME IInv, MeterTypeOK, CallsAreOrdered, CallsAreCounted, ListsAreOrdered,
         FramesInv, NEW s \in Server, MeteredMerge(s)
  PROVE  CallsAreOrdered' /\ CallsAreCounted' /\ FramesInv' /\ ListsAreOrdered'
<1> USE DEF FramesInv
<1> DEFINE r == up[s].client
<1>0. TypeOK
  BY DEF IInv
<1>1. /\ Merge(s) /\ Carry(view[r]) /\ UNCHANGED <<counter, past, view, tally>>
      /\ ToReport(s) => disc[s] = "counted"
  BY DEF MeteredMerge, countVars
<1>2. /\ ListsAreOrdered' /\ UNCHANGED <<frame, pc, loc>> /\ disc'[s] = "none"
      /\ \A t \in Server \ {s} : up'[t] = up[t] /\ disc'[t] = disc[t]
  BY <1>0, MergeLists DEF handlerVars
<1>3. ViewsAreApart' /\ ViewsAreCurrent'
  BY <1>1, <1>2, ViewsKept DEF countVars
<1>4. UNCHANGED <<sent, closed>>
  BY <1>1 DEF Merge, Close, Record, Route, SendMerged, wireVars
<1>5. CASE UNCHANGED toClient
  <2>1. Rejected' = Rejected
    BY <1>5 DEF Rejected
  <2>2. FramesAreCounted' /\ LatestIsMost'
    BY <1>1, <1>2, <1>5, NoFrame DEF countVars
  <2> QED
    BY <1>1, <1>2, <1>3, <1>4, <2>1, <2>2, CallsKept
<1>6. CASE SendMerged(s)
  <2> DEFINE m == [to |-> r, type |-> "merged", answers |-> up[s].collected]
  <2>1. /\ toClient' = Append(toClient, m) /\ m.type = "merged" /\ m.to = r
        /\ m.answers = up[s].collected /\ IsMerged(s)
    BY <1>6 DEF SendMerged, IsMerged
  <2>2. r \in Req
    BY <2>1, MergesForSomeone DEF IsMerged
  <2>3. m \in Reply
    BY <1>0, <2>2 DEF TypeOK, Collector, Reply
  <2>4. Rejected' = Rejected
    <3> HIDE DEF m
    <3> QED
      BY <1>0, <2>1, <2>3, RejectedNext
  <2>5. view[r] \in [Counter -> Nat] /\ \A k \in Counter : view[r][k] <= counter[k]
    BY <2>2 DEF MeterTypeOK, LatestIsMost
  <2>6. frame[r].method = "tools/list" => disc[s] = "counted"
    BY <1>1, <2>1 DEF ToReport, IsMerged, ListsAreOrdered
  <2>7. frame[r].method = "tools/list" =>
          /\ view[r]["lists"] > 0
          /\ view[r]["before"] >= Before(m.answers) /\ view[r]["after"] >= After(m.answers)
    BY <2>6 DEF ViewsAreCurrent
  <2>8. FramesAreCounted' /\ LatestIsMost'
    <3> HIDE DEF m
    <3> QED
      BY <1>1, <1>2, <2>1, <2>5, <2>7, FrameAppended DEF countVars
  <2> QED
    BY <1>1, <1>2, <1>3, <1>4, <2>4, <2>8, CallsKept
<1> QED
  BY <1>1, <1>5, <1>6 DEF Merge, Close, Record, Route, wireVars

-----------------------------------------------------------------------------
(* MeterInvariant is inductive.                                            *)
LEMMA NextMeter ==
  IInv /\ IInv' /\ TablesInv /\ MeterInvariant /\ [MeterNext]_allVars => MeterInvariant'
<1> SUFFICES ASSUME IInv, IInv', TablesInv, MeterInvariant, [MeterNext]_allVars
             PROVE  MeterInvariant'
  OBVIOUS
<1> USE DEF MeterInvariant
<1> DEFINE Kept == CallsAreOrdered' /\ CallsAreCounted' /\ FramesInv' /\ ListsAreOrdered'
<1>0. TypeOK /\ TypeOK' /\ HandlersAreOrdered /\ FramesInv
  BY DEF IInv, FramesInv
<1>1. MeterTypeOK'
  BY <1>0, MeterTypes
<1>2. ASSUME NEW r \in Req, MeteredStart(r) \/ MeteredHandle(r) PROVE Kept
  <2>1. /\ Start(r) \/ Handle(r)
        /\ UNCHANGED <<counter, tally, disc>>
        /\ ReplyInvalid(r) => (ToCount(r) => tally[r] = "counted")
    <3>1. ReplyInvalid(r) => ~MeteredStart(r)
      BY DEF ReplyInvalid, MeteredStart, Start, CanStart, OpenFanout, ForwardOther,
         RejectNameless, RejectUnknown, Resolve
    <3> QED
      BY <1>2, <3>1 DEF MeteredStart, MeteredHandle, meterVars, countVars, ReplyInvalid
  <2>2. CallsAreOrdered' /\ CallsAreCounted'
    BY <1>0, <2>1, SendCalls, ReplyInvalidCalls, OtherCalls
  <2>3. UNCHANGED <<frame, up>>
    BY <2>1 DEF Start, OpenFanout, ForwardOther, RejectNameless, RejectUnknown, Resolve,
         Reject, Handle, PassUnchecked, PassRehydrated, RejectArgs, ReplyInvalid, Register, Send
  <2>4. ListsAreOrdered'
    BY <2>1, <2>3 DEF ListsAreOrdered, ToReport, IsMerged
  <2> QED
    BY <1>0, <1>2, <2>2, <2>4, HandlerFrames
<1>3. ASSUME NEW r \in Req, CountTotal(r) \/ CountPart(r) PROVE Kept
  <2>1. ListsAreOrdered'
    BY <1>3 DEF CountTotal, CountPart, vars, ListsAreOrdered, ToReport, IsMerged
  <2> QED
    BY <1>0, <1>3, <2>1, CountTotalCalls, CountPartCalls, CallFrames
<1>4. ASSUME NEW s \in Server, CountList(s) \/ CountBefore(s) \/ CountAfter(s) PROVE Kept
  <2>1. UNCHANGED <<frame, pc, loc, sent, tally, closed, toClient>>
    BY <1>4, CountsWhileMerging DEF vars
  <2>2. \A c \in {"total", "forwarded", "rejected"} : counter'[c] = counter[c]
    BY <1>4 DEF CountList, CountBefore, CountAfter, Add, MeterTypeOK, Counter
  <2>3. Rejected' = Rejected
    BY <2>1 DEF Rejected
  <2> QED
    BY <1>0, <1>4, <2>1, <2>2, <2>3, CallsKept, ListFrames
<1>5. ASSUME NEW s \in Server, Fail(s), UNCHANGED meterVars PROVE Kept
  <2>1. /\ UNCHANGED <<frame, pc, loc, sent, up, toClient>> /\ closed \subseteq closed'
    BY <1>5 DEF Fail, Crash, WriterEnds, handlerVars, wireVars
  <2>2. UNCHANGED <<counter, past, view, tally, disc, carried>>
    BY <1>5 DEF meterVars, countVars
  <2>3. Rejected' = Rejected
    BY <2>1 DEF Rejected
  <2>4. CallsAreOrdered' /\ CallsAreCounted'
    BY <2>1, <2>2, <2>3, CallsKept
  <2>5. FramesAreCounted' /\ LatestIsMost'
    BY <2>1, <2>2, NoFrame DEF countVars
  <2>6. ListsAreOrdered'
    BY <2>1, <2>2 DEF ListsAreOrdered, ToReport, IsMerged
  <2> QED
    BY <2>1, <2>2, <2>4, <2>5, <2>6, ViewsKept DEF FramesInv, countVars
<1>6. ASSUME UNCHANGED allVars PROVE Kept
  <2>1. UNCHANGED <<frame, pc, loc, sent, up, toClient, closed>>
    BY <1>6 DEF allVars, vars
  <2>2. UNCHANGED <<counter, past, view, tally, disc, carried>>
    BY <1>6 DEF allVars, meterVars, countVars
  <2>3. Rejected' = Rejected
    BY <2>1 DEF Rejected
  <2>4. CallsAreOrdered' /\ CallsAreCounted'
    BY <2>1, <2>2, <2>3, CallsKept
  <2>5. FramesAreCounted' /\ LatestIsMost'
    BY <2>1, <2>2, NoFrame DEF countVars
  <2>6. ListsAreOrdered'
    BY <2>1, <2>2 DEF ListsAreOrdered, ToReport, IsMerged
  <2>7. ViewsAreApart' /\ ViewsAreCurrent'
    BY <2>1, <2>2, ViewsKept DEF countVars
  <2> QED
    BY <2>4, <2>5, <2>6, <2>7 DEF FramesInv
<1>7. ASSUME NEW s \in Server, MeteredMerge(s) PROVE Kept
  BY <1>0, <1>7, MergeFrames
<1>8. ASSUME NEW s \in Server, NEW q \in sent[s], MeteredRespond(s, q) PROVE Kept
  BY <1>0, <1>8, RespondFrames
<1> HIDE DEF Kept
<1>9. Kept
  BY <1>2, <1>3, <1>4, <1>5, <1>6, <1>7, <1>8 DEF MeterNext
<1> QED
  BY <1>1, <1>9 DEF Kept, FramesInv

(* The counters keep their invariant in every execution.                   *)
THEOREM MeterInvariance == MeterSpec => []MeterInvariant
<1>1. MeterInvariant /\ (IInv /\ TablesInv) /\ (IInv /\ TablesInv)' /\ [MeterNext]_allVars
        => MeterInvariant'
  BY NextMeter
<1> QED
  BY <1>1, InitMeter, RouterHolds, PTL DEF MeterSpec

(* Counters, their histories and what is known of them have their types.   *)
THEOREM MeterTypeCorrect == MeterSpec => []MeterTypeOK
<1>1. MeterInvariant => MeterTypeOK
  BY DEF MeterInvariant
<1> QED
  BY <1>1, MeterInvariance, PTL

(* The total of the calls is its parts and the calls being counted; what   *)
(* counts as rejected is turned down, and what counts as forwarded was put *)
(* on its upstream's channel or lost because that was closed.              *)
THEOREM TrueCounts == MeterSpec => []CountsAreTrue
<1>1. MeterInvariant /\ IInv => CountsAreTrue
  <2> SUFFICES ASSUME MeterInvariant, IInv PROVE CountsAreTrue
    OBVIOUS
  <2> USE DEF MeterInvariant
  <2> DEFINE Sent == {r \in Req : IsCall(r) /\ (IsSent(r) \/ IsLost(r))}
  <2>1. Sent \subseteq Handled
    <3>1. \A r \in Req : IsSent(r) => pc[r] # "new"
      BY DEF IsSent, IInv, EntriesMatchFrames
    <3>2. \A r \in Req : IsLost(r) => pc[r] # "new"
      BY DEF IsLost
    <3> QED
      BY <3>1, <3>2 DEF Handled
  <2>2. Refused \subseteq Handled
    BY DEF Refused, Handled, CallsAreOrdered
  <2>3. IsFiniteSet(Sent) /\ IsFiniteSet(Refused)
    BY <2>1, <2>2, FS_Subset DEF CallsAreCounted
  <2>4. TurnedDown \subseteq Refused
    BY DEF TurnedDown
  <2>5. Forwarded \subseteq Sent
    BY DEF Forwarded, Refused, CallsAreOrdered, ToCount
  <2> HIDE DEF Sent
  <2>6. counter["forwarded"] <= Cardinality(Sent) /\ counter["rejected"] <= Cardinality(Refused)
    BY <2>3, <2>4, <2>5, FS_Subset DEF CallsAreCounted
  <2> QED
    BY <2>6 DEF CountsAreTrue, CallsAreCounted, Refused, Sent
<1> QED
  BY <1>1, MeterInvariance, RouterHolds, PTL

(* Whoever asks for /metrics finds in it what it was told, however old the *)
(* values are that it is shown.                                            *)
THEOREM ScrapesAreCurrent == MeterSpec => []ScrapeIsCurrent
<1>1. MeterInvariant /\ IInv => ScrapeIsCurrent
  <2> SUFFICES ASSUME MeterInvariant, IInv, NEW n \in 0 .. Len(toClient)
               PROVE  /\ \A k \in Counter : counter[k] \in Loads(n, k)
                      /\ \A k \in {"total", "rejected"} : \A v \in Loads(n, k) :
                           v >= Cardinality({i \in 1 .. n : toClient[i].type = "invalid"})
                      /\ \A v \in Loads(n, "lists") :
                           v >= Cardinality({i \in 1 .. n : IsList(i)})
                      /\ \A i \in 1 .. n : IsList(i) =>
                           LET tools == Cardinality(Listed(toClient[i].answers)) IN
                           /\ \A v \in Loads(n, "before") : v >= Full * tools
                           /\ \A v \in Loads(n, "after") : v >= Short * tools + Envelope
    BY DEF ScrapeIsCurrent
  <2> USE DEF MeterInvariant
  <2>1. /\ DOMAIN toClient = 1 .. Len(toClient) /\ DOMAIN carried = 1 .. Len(toClient)
        /\ Len(toClient) \in Nat /\ \A i \in 1 .. n : i \in 1 .. Len(toClient)
        /\ \A i \in 1 .. Len(toClient) : toClient[i].to \in Req /\ carried[i] \in [Counter -> Nat]
    <3>1. toClient \in Seq(Reply) /\ carried \in Seq([Counter -> Nat])
      BY DEF MeterTypeOK, TypeOK
    <3>2. Len(carried) = Len(toClient)
      BY DEF FramesAreCounted
    <3>3. \A i \in 1 .. Len(toClient) : toClient[i] \in Reply
      BY <3>1
    <3> QED
      BY <3>1, <3>2, <3>3 DEF Reply
  <2>2. \A i, j \in 1 .. n : toClient[i].to = toClient[j].to => i = j
    BY <2>1 DEF IInv, AtMostOneReply
  <2>3. \A k \in Counter : counter[k] \in Loads(n, k)
    BY <2>1 DEF LatestIsMost, Loads, MeterTypeOK
  <2>4. ASSUME NEW k \in Units, NEW v \in Loads(n, k), NEW I \in SUBSET (1 .. n),
               \A i \in I : carried[i][k] = view[toClient[i].to][k] /\ carried[i][k] > 0
        PROVE  v >= Cardinality(I)
    <3> DEFINE g == [i \in I |-> carried[i][k]]
    <3>1. k \in Counter
      BY DEF Units, Counter
    <3>2. v \in Nat
      BY <3>1 DEF Loads, MeterTypeOK
    <3>3. \A i \in I : carried[i][k] \in 1 .. v
      BY <2>1, <2>4, <3>1, <3>2 DEF Loads
    <3>4. ASSUME NEW i \in I, NEW j \in I, carried[i][k] = carried[j][k] PROVE i = j
      <4>1. toClient[i].to \in Req /\ toClient[j].to \in Req
        BY <2>1
      <4>2. toClient[i].to = toClient[j].to
        BY <2>4, <3>4, <4>1 DEF ViewsAreApart
      <4> QED
        BY <2>2, <4>2
    <3>5. g \in Injection(I, 1 .. v)
      BY <3>3, <3>4 DEF Injection, IsInjective
    <3>6. IsFiniteSet(1 .. v) /\ Cardinality(1 .. v) = v
      BY <3>2, FS_Interval
    <3> HIDE DEF g
    <3> QED
      BY <3>5, <3>6, FS_Injection
  <2>5. ASSUME NEW k \in {"total", "rejected"}, NEW v \in Loads(n, k)
        PROVE  v >= Cardinality({i \in 1 .. n : toClient[i].type = "invalid"})
    <3> DEFINE I == {i \in 1 .. n : toClient[i].type = "invalid"}
    <3>1. \A i \in I : carried[i][k] = view[toClient[i].to][k] /\ carried[i][k] > 0
      BY <2>1 DEF FramesAreCounted
    <3>2. k \in Units /\ I \in SUBSET (1 .. n)
      BY DEF Units
    <3> HIDE DEF I
    <3>3. v >= Cardinality(I)
      BY <2>4, <3>1, <3>2
    <3> QED
      BY <3>3 DEF I
  <2>6. ASSUME NEW v \in Loads(n, "lists")
        PROVE  v >= Cardinality({i \in 1 .. n : IsList(i)})
    <3> DEFINE I == {i \in 1 .. n : IsList(i)}
    <3>1. \A i \in I : carried[i]["lists"] = view[toClient[i].to]["lists"]
                       /\ carried[i]["lists"] > 0
      BY <2>1 DEF FramesAreCounted
    <3>2. "lists" \in Units /\ I \in SUBSET (1 .. n)
      BY DEF Units
    <3> HIDE DEF I
    <3>3. v >= Cardinality(I)
      BY <2>4, <3>1, <3>2
    <3> QED
      BY <3>3 DEF I
  <2>7. ASSUME NEW i \in 1 .. n, IsList(i)
        PROVE  LET tools == Cardinality(Listed(toClient[i].answers)) IN
               /\ \A v \in Loads(n, "before") : v >= Full * tools
               /\ \A v \in Loads(n, "after") : v >= Short * tools + Envelope
    <3>1. /\ carried[i]["before"] >= Before(toClient[i].answers)
          /\ carried[i]["after"] >= After(toClient[i].answers)
      BY <2>1, <2>7 DEF FramesAreCounted
    <3>2. /\ carried[i]["before"] \in Nat /\ carried[i]["after"] \in Nat
          /\ Before(toClient[i].answers) \in Nat /\ After(toClient[i].answers) \in Nat
      BY <2>1, TokensAreNat DEF Counter
    <3>3. ASSUME NEW k \in Counter, NEW v \in Loads(n, k) PROVE v \in Nat /\ v >= carried[i][k]
      BY DEF Loads, MeterTypeOK
    <3>4. \A v \in Loads(n, "before") : v >= Before(toClient[i].answers)
      BY <3>1, <3>2, <3>3 DEF Counter
    <3>5. \A v \in Loads(n, "after") : v >= After(toClient[i].answers)
      BY <3>1, <3>2, <3>3 DEF Counter
    <3> QED
      BY <3>4, <3>5 DEF Before, After
  <2> QED
    BY <2>3, <2>5, <2>6, <2>7
<1> QED
  BY <1>1, MeterInvariance, RouterHolds, PTL
=============================================================================
