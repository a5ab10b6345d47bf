----------------------------- MODULE ToolProofs -----------------------------
(***************************************************************************)
(* Proofs about Router's tool tables, for any number of upstreams,         *)
(* requests and tools.  TablesInv does not depend on the calls, and is     *)
(* shown first; what holds of calls, where names are apart, rests on it.   *)
(***************************************************************************)
EXTENDS ToolInv, RouterProofs

(* A step that leaves the tables alone.                                    *)
LEMMA TablesSame ==
  ASSUME TablesInv, UNCHANGED <<frame, fanouts, up, routing, ledger>>,
         AdvertisedAreHome'
  PROVE  TablesInv'
<1>1. FanoutsArePublished' /\ MergesArePublished'
  BY DEF TablesInv, FanoutsArePublished, MergesArePublished, Published, IsOpen
<1>2. MergesAreInOrder'
  BY DEF TablesInv, MergesAreInOrder, MergeIsInOrder, IsHome, Listed
<1>3. RoutesAreOwn' /\ SchemasArePublished' /\ RoutedIsRecorded'
  BY DEF TablesInv, RoutesAreOwn, SchemasArePublished, RoutedIsRecorded
<1> QED
  BY <1>1, <1>2, <1>3 DEF TablesInv

(* What was advertised stays at home while nothing is sent.                *)
LEMMA HomesKept ==
  ASSUME TablesInv, UNCHANGED <<toClient, routing>> PROVE AdvertisedAreHome'
  BY DEF TablesInv, AdvertisedAreHome, IsHome, Listed

(* ... and when one more frame is sent, if what it lists is routed home.   *)
LEMMA HomesAppended ==
  ASSUME TypeOK, TablesInv, NEW m, toClient' = Append(toClient, m), UNCHANGED routing,
         m.type = "merged" => \A p \in Listed(m.answers) : IsHome(p)
  PROVE  AdvertisedAreHome'
<1> DEFINE n == Len(toClient)
<1>1. toClient \in Seq(Reply)
  BY DEF TypeOK
<1>2. /\ n \in Nat /\ DOMAIN toClient = 1 .. n /\ DOMAIN toClient' = 1 .. n + 1
      /\ toClient'[n + 1] = m /\ \A i \in 1 .. n : toClient'[i] = toClient[i]
  BY <1>1
<1> SUFFICES ASSUME NEW i \in 1 .. n + 1, toClient'[i].type = "merged",
                    NEW p \in Listed(toClient'[i].answers)
             PROVE  IsHome(p)
  BY <1>2 DEF AdvertisedAreHome, IsHome, Listed
<1>3. CASE i = n + 1
  BY <1>2, <1>3
<1>4. CASE i \in 1 .. n
  BY <1>2, <1>4 DEF TablesInv, AdvertisedAreHome, IsHome
<1> QED
  BY <1>2, <1>3, <1>4

(* Nothing was listed before the first list.                               *)
LEMMA InitTables == Init => TablesInv
<1> SUFFICES ASSUME Init PROVE TablesInv
  OBVIOUS
<1>1. \A s \in Server : NoAnswers[s].list = NoTools
  BY DEF NoAnswers, NoAnswer
<1>2. FanoutsArePublished /\ MergesArePublished
  BY <1>1 DEF Init, FanoutsArePublished, MergesArePublished, Published, NoFanOut, Reading, IsOpen
<1>3. MergesAreInOrder
  BY DEF Init, MergesAreInOrder, MergeIsInOrder, Reading
<1>4. RoutesAreOwn /\ SchemasArePublished /\ RoutedIsRecorded /\ AdvertisedAreHome
  BY DEF Init, RoutesAreOwn, SchemasArePublished, RoutedIsRecorded, AdvertisedAreHome
<1> QED
  BY <1>2, <1>3, <1>4 DEF TablesInv

(* A new fan-out has collected nothing yet.                                *)
LEMMA OpenTables ==
  ASSUME IInv, TablesInv, NEW r \in Req, OpenFanout(r) PROVE TablesInv'
<1> USE DEF toolVars, wireVars
<1>0. fanNext \in Id /\ fanouts \in [Id -> FanOut]
  BY DEF IInv, TypeOK, OpenFanout, Id
<1>1. \A f \in Id : fanouts'[f] = fanouts[f] \/ fanouts'[f] = NewFanOut(r)
  BY <1>0 DEF OpenFanout
<1>2. FanoutsArePublished'
  <2>1. \A s \in Server : NoAnswers[s].list = NoTools
    BY DEF NoAnswers, NoAnswer
  <2>2. Published(NewFanOut(r).kind, NewFanOut(r).collected)
    BY <2>1 DEF NewFanOut, Published
  <2>3. NewFanOut(r).kind = frame[NewFanOut(r).client].method
    BY DEF NewFanOut
  <2>4. frame' = frame
    BY DEF OpenFanout
  <2> QED
    BY <1>1, <2>2, <2>3, <2>4 DEF TablesInv, FanoutsArePublished, IsOpen
<1>3. MergesArePublished' /\ MergesAreInOrder'
  BY DEF OpenFanout, TablesInv, MergesArePublished, MergesAreInOrder, MergeIsInOrder, IsHome
<1>4. RoutesAreOwn' /\ SchemasArePublished' /\ RoutedIsRecorded'
  BY DEF OpenFanout, TablesInv, RoutesAreOwn, SchemasArePublished, RoutedIsRecorded
<1>5. AdvertisedAreHome'
  BY HomesKept DEF OpenFanout
<1> QED
  BY <1>2, <1>3, <1>4, <1>5 DEF TablesInv

(* An answer lists what its upstream published.                            *)
LEMMA AnswerIsPublished ==
  ASSUME NEW s \in Server, NEW q, NEW resp \in Answer(s, q)
  PROVE  /\ resp.list \in Listings[s] \cup {NoTools}
         /\ frame[q.req].method # "tools/list" => resp.list = NoTools
  BY DEF Answer

(* A response goes to its slot, and the fan-out's kind is that of the      *)
(* request that it answers.                                                *)
LEMMA SlotIsPublished ==
  ASSUME IInv, TablesInv, NEW s \in Server, NEW q \in sent[s], Answered(s, q, "member"),
         NEW resp \in Answer(s, q), NEW f, f = pending[s][q.id].fan
  PROVE  /\ f \in Id /\ IsOpen(f) /\ fanouts[f] \in FanOut
         /\ Published(fanouts[f].kind, [fanouts[f].collected EXCEPT ![s] = resp])
<1>1. f \in Id /\ IsOpen(f) /\ fanouts[f] \in FanOut /\ fanouts[f].client = q.req
  BY MemberFacts
<1>2. /\ Published(fanouts[f].kind, fanouts[f].collected)
      /\ fanouts[f].kind = frame[q.req].method
  BY <1>1 DEF TablesInv, FanoutsArePublished
<1>3. DOMAIN fanouts[f].collected = Server
  BY <1>1 DEF FanOut, Answers
<1> QED
  BY <1>1, <1>2, <1>3, AnswerIsPublished DEF Published

(* An answer that is not the last: the fan-out has collected it.           *)
LEMMA CollectTables ==
  ASSUME IInv, TablesInv, NEW s \in Server, NEW q \in sent[s], Collect(s, q)
  PROVE  TablesInv'
<1> USE DEF toolVars, wireVars, handlerVars
<1> DEFINE f == pending[s][q.id].fan
<1>1. PICK resp \in Answer(s, q) :
        fanouts' = IF fanouts[f] = NoFanOut THEN fanouts
                   ELSE [fanouts EXCEPT ![f].collected[s] = resp, ![f].remaining = @ - 1]
  BY DEF Collect
<1>2. /\ f \in Id /\ IsOpen(f) /\ fanouts[f] \in FanOut
      /\ Published(fanouts[f].kind, [fanouts[f].collected EXCEPT ![s] = resp])
  BY SlotIsPublished DEF Collect
<1>3. fanouts \in [Id -> FanOut]
  BY DEF IInv, TypeOK
<1>4. /\ \A g \in Id \ {f} : fanouts'[g] = fanouts[g]
      /\ fanouts'[f].kind = fanouts[f].kind /\ fanouts'[f].client = fanouts[f].client
      /\ fanouts'[f].collected = [fanouts[f].collected EXCEPT ![s] = resp]
  BY <1>1, <1>2, <1>3 DEF IsOpen, FanOut
<1>5. FanoutsArePublished'
  <2>1. frame' = frame
    BY DEF Collect
  <2>2. fanouts[f].kind = frame[fanouts[f].client].method
    BY <1>2 DEF TablesInv, FanoutsArePublished
  <2>3. \A g \in Id \ {f} : IsOpen(g)' <=> IsOpen(g)
    BY <1>4 DEF IsOpen
  <2>4. \A g \in Id : Published(fanouts'[g].kind, fanouts'[g].collected)
    BY <1>2, <1>4 DEF TablesInv, FanoutsArePublished
  <2> QED
    BY <1>4, <2>1, <2>2, <2>3, <2>4 DEF TablesInv, FanoutsArePublished, Published
<1>6. MergesArePublished' /\ MergesAreInOrder'
  BY DEF Collect, TablesInv, MergesArePublished, MergesAreInOrder, MergeIsInOrder, IsHome
<1>7. RoutesAreOwn' /\ SchemasArePublished' /\ RoutedIsRecorded'
  BY DEF Collect, TablesInv, RoutesAreOwn, SchemasArePublished, RoutedIsRecorded
<1>8. AdvertisedAreHome'
  BY HomesKept DEF Collect
<1> QED
  BY <1>5, <1>6, <1>7, <1>8 DEF TablesInv

(* The last answer: the reader task takes what was collected.              *)
LEMMA CollectLastTables ==
  ASSUME IInv, TablesInv, NEW s \in Server, NEW q \in sent[s], CollectLast(s, q)
  PROVE  TablesInv'
<1> USE DEF toolVars, wireVars, handlerVars
<1> DEFINE f == pending[s][q.id].fan
<1>1. PICK resp \in Answer(s, q) :
        up' = [up EXCEPT ![s] =
                [Reading EXCEPT !.pc = "close", !.fan = f, !.kind = fanouts[f].kind,
                                !.client = fanouts[f].client,
                                !.collected = [fanouts[f].collected EXCEPT ![s] = resp]]]
  BY DEF CollectLast
<1>2. /\ f \in Id /\ fanouts[f] \in FanOut
      /\ Published(fanouts[f].kind, [fanouts[f].collected EXCEPT ![s] = resp])
  BY SlotIsPublished DEF CollectLast
<1>3. fanouts \in [Id -> FanOut] /\ up \in [Server -> Collector]
  BY DEF IInv, TypeOK
<1>4. /\ \A t \in Server \ {s} : up'[t] = up[t]
      /\ up'[s].pc = "close" /\ up'[s].cur = {} /\ up'[s].kind = fanouts[f].kind
      /\ up'[s].collected = [fanouts[f].collected EXCEPT ![s] = resp]
  BY <1>1, <1>3 DEF Reading
<1>5. FanoutsArePublished'
  <2>1. frame' = frame /\ \A g \in Id : fanouts'[g] = IF g = f THEN Taken ELSE fanouts[g]
    BY <1>2, <1>3 DEF CollectLast
  <2>2. Published(Taken.kind, Taken.collected)
    BY DEF Published, Taken, NoAnswers, NoAnswer
  <2> QED
    BY <2>1, <2>2 DEF TablesInv, FanoutsArePublished, IsOpen
<1>6. MergesArePublished'
  BY <1>2, <1>4 DEF TablesInv, MergesArePublished
<1>7. MergesAreInOrder'
  <2>1. UNCHANGED <<routing, ledger>>
    BY DEF CollectLast
  <2>2. MergeIsInOrder(s)'
    BY <1>4 DEF MergeIsInOrder
  <2>3. \A t \in Server \ {s} : MergeIsInOrder(t)'
    BY <1>4, <2>1 DEF TablesInv, MergesAreInOrder, MergeIsInOrder, IsHome
  <2> QED
    BY <2>2, <2>3 DEF MergesAreInOrder
<1>8. RoutesAreOwn' /\ SchemasArePublished' /\ RoutedIsRecorded'
  BY DEF CollectLast, TablesInv, RoutesAreOwn, SchemasArePublished, RoutedIsRecorded
<1>9. AdvertisedAreHome'
  BY HomesKept DEF CollectLast
<1> QED
  BY <1>5, <1>6, <1>7, <1>8, <1>9 DEF TablesInv

(* The tools to merge are those that the collected answers list.           *)
LEMMA CloseTables ==
  ASSUME IInv, TablesInv, NEW s \in Server, Close(s) PROVE TablesInv'
<1> USE DEF toolVars, wireVars, handlerVars
<1>1. fanouts \in [Id -> FanOut] /\ up \in [Server -> Collector]
  BY DEF IInv, TypeOK
<1>2. /\ \A t \in Server \ {s} : up'[t] = up[t]
      /\ up'[s].pc = "merge" /\ up'[s].cur = up[s].cur /\ up'[s].kind = up[s].kind
      /\ up'[s].collected = up[s].collected
      /\ up'[s].todo = IF up[s].kind = "tools/list" THEN Listed(up[s].collected) ELSE {}
  BY <1>1 DEF Close, Collector
<1>3. FanoutsArePublished'
  <2>1. frame' = frame /\ \A g \in Id : fanouts'[g] = fanouts[g] \/ fanouts'[g] = NoFanOut
    BY <1>1 DEF Close
  <2>2. Published(NoFanOut.kind, NoFanOut.collected)
    BY DEF Published, NoFanOut, NoAnswers, NoAnswer
  <2> QED
    BY <2>1, <2>2 DEF TablesInv, FanoutsArePublished, IsOpen
<1>4. MergesArePublished'
  BY <1>2 DEF TablesInv, MergesArePublished
<1>5. MergesAreInOrder'
  <2>1. up[s].cur = {}
    BY DEF Close, TablesInv, MergesAreInOrder, MergeIsInOrder
  <2>2. up'[s].todo = Listed(up[s].collected)
    <3>1. CASE up[s].kind # "tools/list"
      <4>1. \A t \in Server : up[s].collected[t].list = NoTools
        BY <3>1 DEF TablesInv, MergesArePublished, Published
      <4>2. Listed(up[s].collected) = {}
        BY <4>1 DEF Listed, NoTools
      <4> QED
        BY <1>2, <3>1, <4>2
    <3> QED
      BY <1>2, <3>1
  <2>3. MergeIsInOrder(s)'
    BY <1>2, <2>1, <2>2 DEF MergeIsInOrder
  <2>4. UNCHANGED <<routing, ledger>>
    BY DEF Close
  <2>5. \A t \in Server \ {s} : MergeIsInOrder(t)'
    BY <1>2, <2>4 DEF TablesInv, MergesAreInOrder, MergeIsInOrder, IsHome
  <2> QED
    BY <2>3, <2>5 DEF MergesAreInOrder
<1>6. RoutesAreOwn' /\ SchemasArePublished' /\ RoutedIsRecorded'
  BY DEF Close, TablesInv, RoutesAreOwn, SchemasArePublished, RoutedIsRecorded
<1>7. AdvertisedAreHome'
  BY HomesKept DEF Close
<1> QED
  BY <1>3, <1>4, <1>5, <1>6, <1>7 DEF TablesInv

(* What is recorded is what the tool's upstream published.                 *)
LEMMA RecordTables ==
  ASSUME IInv, TablesInv, NEW s \in Server, Record(s) PROVE TablesInv'
<1> USE DEF toolVars, wireVars, handlerVars, fanVars
<1>1. up \in [Server -> Collector] /\ ledger \in [Name -> Schema \cup {NoSchema}]
  BY DEF IInv, TypeOK
<1>2. PICK p \in up[s].todo :
        /\ ledger' = [ledger EXCEPT ![Namespaced[p]] = up[s].collected[p[1]].list[p[2]]]
        /\ up' = [up EXCEPT ![s].pc = "route", ![s].todo = @ \ {p}, ![s].cur = {p}]
  BY DEF Record
<1> DEFINE sch == up[s].collected[p[1]].list[p[2]]
<1>3. p \in Server \X Bare /\ sch # NoSchema /\ Namespaced[p] \in Name
  <2>1. p \in Listed(up[s].collected)
    BY DEF Record, TablesInv, MergesAreInOrder, MergeIsInOrder
  <2> QED
    BY <2>1, RouterAssumption DEF Listed
<1>4. \E l \in Listings[p[1]] : l[p[2]] = sch
  BY <1>3 DEF TablesInv, MergesArePublished, Published, NoTools
<1>5. /\ \A t \in Server \ {s} : up'[t] = up[t]
      /\ up'[s].pc = "route" /\ up'[s].cur = {p} /\ up'[s].kind = up[s].kind
      /\ up'[s].todo = up[s].todo \ {p} /\ up'[s].collected = up[s].collected
  BY <1>1, <1>2 DEF Collector
<1>6. ledger'[Namespaced[p]] = sch /\ \A n \in Name \ {Namespaced[p]} : ledger'[n] = ledger[n]
  BY <1>1, <1>2, <1>3
<1>7. \A q \in Server \X Bare :
        ledger[Namespaced[q]] # NoSchema => ledger'[Namespaced[q]] # NoSchema
  BY <1>3, <1>6, RouterAssumption
<1>8. FanoutsArePublished'
  BY DEF Record, TablesInv, FanoutsArePublished, IsOpen
<1>9. MergesArePublished'
  BY <1>5 DEF TablesInv, MergesArePublished
<1>10. MergesAreInOrder'
  <2>1. routing' = routing
    BY DEF Record
  <2>2. MergeIsInOrder(s)'
    <3>1. MergeIsInOrder(s) /\ up[s].pc = "merge" /\ up[s].cur = {}
      BY DEF Record, TablesInv, MergesAreInOrder, MergeIsInOrder
    <3>2. up[s].todo \cup up[s].cur = up'[s].todo \cup up'[s].cur
      BY <1>2, <1>5, <3>1
    <3>3. \A q \in up'[s].cur : ledger'[Namespaced[q]] # NoSchema
      BY <1>3, <1>5, <1>6
    <3> QED
      BY <1>5, <2>1, <3>1, <3>2, <3>3 DEF MergeIsInOrder, IsHome
  <2>3. ASSUME NEW t \in Server \ {s} PROVE MergeIsInOrder(t)'
    <3>1. MergeIsInOrder(t) /\ up'[t] = up[t] /\ up[t].cur \subseteq Server \X Bare
      BY <1>1, <1>5 DEF TablesInv, MergesAreInOrder, Collector
    <3> QED
      BY <1>7, <2>1, <3>1 DEF MergeIsInOrder, IsHome
  <2> QED
    BY <2>2, <2>3 DEF MergesAreInOrder
<1>11. RoutesAreOwn' /\ RoutedIsRecorded'
  BY <1>3, <1>6 DEF Record, TablesInv, RoutesAreOwn, RoutedIsRecorded
<1>12. SchemasArePublished'
  BY <1>3, <1>4, <1>6 DEF TablesInv, SchemasArePublished
<1>13. AdvertisedAreHome'
  BY HomesKept DEF Record
<1> QED
  BY <1>8, <1>9, <1>10, <1>11, <1>12, <1>13 DEF TablesInv

(* A route is added and none is diverted, as each name has one home.       *)
LEMMA RouteTables ==
  ASSUME IInv, TablesInv, NEW s \in Server, Route(s) PROVE TablesInv'
<1> USE DEF toolVars, wireVars, handlerVars, fanVars
<1>1. up \in [Server -> Collector] /\ routing \in [Name -> ToolRoute \cup {NoRoute}]
  BY DEF IInv, TypeOK
<1>2. PICK p \in up[s].cur :
        routing' = [routing EXCEPT ![Namespaced[p]] = [srv |-> p[1], tool |-> p[2]]]
  BY DEF Route
<1>3. /\ p \in Server \X Bare /\ Namespaced[p] \in Name /\ up[s].cur = {p}
      /\ ledger[Namespaced[p]] # NoSchema
  <2>1. up[s].cur \subseteq Server \X Bare
    BY <1>1 DEF Collector
  <2> QED
    BY <1>2, <2>1, RouterAssumption DEF Route, TablesInv, MergesAreInOrder, MergeIsInOrder
<1>4. /\ \A t \in Server \ {s} : up'[t] = up[t]
      /\ up'[s].pc = "merge" /\ up'[s].cur = {} /\ up'[s].kind = up[s].kind
      /\ up'[s].todo = up[s].todo /\ up'[s].collected = up[s].collected
  BY <1>1 DEF Route, Collector
<1>5. /\ routing'[Namespaced[p]] = [srv |-> p[1], tool |-> p[2]]
      /\ \A n \in Name \ {Namespaced[p]} : routing'[n] = routing[n]
  BY <1>1, <1>2, <1>3
<1>6. IsHome(p)' /\ \A q \in Server \X Bare : IsHome(q) => IsHome(q)'
  BY <1>3, <1>5, RouterAssumption DEF IsHome, NamesAreApart
<1>7. FanoutsArePublished'
  BY DEF Route, TablesInv, FanoutsArePublished, IsOpen
<1>8. MergesArePublished'
  BY <1>4 DEF TablesInv, MergesArePublished
<1>9. MergesAreInOrder'
  <2>1. ledger' = ledger
    BY DEF Route
  <2>2. MergeIsInOrder(s)'
    <3>1. MergeIsInOrder(s) /\ up[s].pc = "route"
      BY DEF Route, TablesInv, MergesAreInOrder
    <3>2. \A q \in Listed(up'[s].collected) \ (up'[s].todo \cup up'[s].cur) : IsHome(q)'
      BY <1>3, <1>4, <1>6, <3>1 DEF MergeIsInOrder, Listed
    <3> QED
      BY <1>4, <3>1, <3>2 DEF MergeIsInOrder
  <2>3. ASSUME NEW t \in Server \ {s} PROVE MergeIsInOrder(t)'
    <3>1. MergeIsInOrder(t) /\ up'[t] = up[t]
      BY <1>4 DEF TablesInv, MergesAreInOrder
    <3>2. \A q \in Listed(up[t].collected) : IsHome(q) => IsHome(q)'
      BY <1>6 DEF Listed
    <3> QED
      BY <2>1, <3>1, <3>2 DEF MergeIsInOrder
  <2> QED
    BY <2>2, <2>3 DEF MergesAreInOrder
<1>10. RoutesAreOwn'
  <2>1. <<p[1], p[2]>> = p
    BY <1>3
  <2> QED
    BY <1>3, <1>5, <2>1 DEF TablesInv, RoutesAreOwn
<1>11. SchemasArePublished' /\ RoutedIsRecorded'
  BY <1>3, <1>5 DEF Route, TablesInv, SchemasArePublished, RoutedIsRecorded
<1>12. AdvertisedAreHome'
  <2>1. toClient' = toClient
    BY DEF Route
  <2>2. \A i \in DOMAIN toClient : \A q \in Listed(toClient[i].answers) : IsHome(q) => IsHome(q)'
    BY <1>6 DEF Listed
  <2> QED
    BY <2>1, <2>2 DEF TablesInv, AdvertisedAreHome, IsHome
<1> QED
  BY <1>7, <1>8, <1>9, <1>10, <1>11, <1>12 DEF TablesInv

(* What a merged reply lists is routed by the time it is sent.             *)
LEMMA SendMergedTables ==
  ASSUME IInv, TablesInv, NEW s \in Server, SendMerged(s) PROVE TablesInv'
<1> USE DEF toolVars, handlerVars, fanVars
<1>0. TypeOK /\ up \in [Server -> Collector]
  BY DEF IInv, TypeOK
<1>1. (\A t \in Server \ {s} : up'[t] = up[t]) /\ up'[s] = Reading
  BY <1>0 DEF SendMerged
<1>2. FanoutsArePublished'
  BY DEF SendMerged, TablesInv, FanoutsArePublished, IsOpen
<1>3. MergesArePublished'
  <2>1. Published(Reading.kind, Reading.collected)
    BY DEF Published, Reading, NoAnswers, NoAnswer
  <2> QED
    BY <1>1, <2>1 DEF TablesInv, MergesArePublished
<1>4. MergesAreInOrder'
  <2>1. UNCHANGED <<routing, ledger>>
    BY DEF SendMerged
  <2>2. MergeIsInOrder(s)'
    BY <1>1 DEF MergeIsInOrder, Reading
  <2>3. \A t \in Server \ {s} : MergeIsInOrder(t)'
    BY <1>1, <2>1 DEF TablesInv, MergesAreInOrder, MergeIsInOrder, IsHome
  <2> QED
    BY <2>2, <2>3 DEF MergesAreInOrder
<1>5. RoutesAreOwn' /\ SchemasArePublished' /\ RoutedIsRecorded'
  BY DEF SendMerged, TablesInv, RoutesAreOwn, SchemasArePublished, RoutedIsRecorded
<1>6. AdvertisedAreHome'
  <2> DEFINE m == [to |-> up[s].client, type |-> "merged", answers |-> up[s].collected]
  <2>1. toClient' = Append(toClient, m) /\ routing' = routing
    BY DEF SendMerged
  <2>2. \A p \in Listed(m.answers) : IsHome(p)
    BY DEF SendMerged, TablesInv, MergesAreInOrder, MergeIsInOrder
  <2> QED
    BY <1>0, <2>1, <2>2, HomesAppended
<1> QED
  BY <1>2, <1>3, <1>4, <1>5, <1>6 DEF TablesInv

(* A step of a handler or an upstream's silence leaves the tables alone.   *)
LEMMA OtherTables ==
  ASSUME IInv, TablesInv,
         \/ \E r \in Req : (Start(r) /\ ~OpenFanout(r)) \/ Handle(r)
         \/ \E s \in Server : Fail(s) \/ \E q \in sent[s] : ForwardReply(s, q)
         \/ UNCHANGED vars
  PROVE  TablesInv'
<1> USE DEF toolVars, wireVars, handlerVars, fanVars, vars
<1>0. TypeOK
  BY DEF IInv
<1>1. ASSUME NEW r \in Req, Start(r), ~OpenFanout(r) PROVE TablesInv'
  <2>1. UNCHANGED <<frame, fanouts, up, routing, ledger, toClient>>
    BY <1>1 DEF Start, ForwardOther, RejectNameless, RejectUnknown, Resolve, Reject
  <2> QED
    BY <2>1, TablesSame, HomesKept
<1>2. ASSUME NEW r \in Req, Handle(r), ~ReplyInvalid(r) PROVE TablesInv'
  <2>1. UNCHANGED <<frame, fanouts, up, routing, ledger, toClient>>
    BY <1>2 DEF Handle, PassUnchecked, PassRehydrated, RejectArgs, Reject, Register, Send
  <2> QED
    BY <2>1, TablesSame, HomesKept
<1>3. ASSUME NEW r \in Req, ReplyInvalid(r) PROVE TablesInv'
  <2> DEFINE m == [to |-> r, type |-> "invalid", answers |-> NoAnswers]
  <2>1. toClient' = Append(toClient, m) /\ UNCHANGED <<frame, fanouts, up, routing, ledger>>
    BY <1>3 DEF ReplyInvalid
  <2>2. AdvertisedAreHome'
    BY <1>0, <2>1, HomesAppended
  <2> QED
    BY <2>1, <2>2, TablesSame
<1>4. ASSUME NEW s \in Server, NEW q \in sent[s], ForwardReply(s, q) PROVE TablesInv'
  <2>1. PICK resp \in Answer(s, q) :
          toClient' = Append(toClient, [to |-> pending[s][q.id].req, type |-> "result",
                                        answers |-> [NoAnswers EXCEPT ![s] = resp]])
    BY <1>4 DEF ForwardReply
  <2> DEFINE m == [to |-> pending[s][q.id].req, type |-> "result",
                   answers |-> [NoAnswers EXCEPT ![s] = resp]]
  <2>2. toClient' = Append(toClient, m) /\ UNCHANGED <<frame, fanouts, up, routing, ledger>>
    BY <1>4, <2>1 DEF ForwardReply
  <2>3. AdvertisedAreHome'
    BY <1>0, <2>2, HomesAppended
  <2> QED
    BY <2>2, <2>3, TablesSame
<1>5. ASSUME NEW s \in Server, Fail(s) PROVE TablesInv'
  <2>1. UNCHANGED <<frame, fanouts, up, routing, ledger, toClient>>
    BY <1>5 DEF Fail, Crash, WriterEnds
  <2> QED
    BY <2>1, TablesSame, HomesKept
<1>6. CASE UNCHANGED vars
  <2>1. UNCHANGED <<frame, fanouts, up, routing, ledger, toClient>>
    BY <1>6
  <2> QED
    BY <2>1, TablesSame, HomesKept
<1> QED
  BY <1>1, <1>2, <1>3, <1>4, <1>5, <1>6

(* TablesInv is inductive.                                                 *)
LEMMA NextTables == IInv /\ TablesInv /\ [Next]_vars => TablesInv'
<1> SUFFICES ASSUME IInv, TablesInv, [Next]_vars PROVE TablesInv'
  OBVIOUS
<1>1. ASSUME NEW r \in Req, OpenFanout(r) PROVE TablesInv'
  BY <1>1, OpenTables
<1>2. ASSUME NEW s \in Server, NEW q \in sent[s], Collect(s, q) PROVE TablesInv'
  BY <1>2, CollectTables
<1>3. ASSUME NEW s \in Server, NEW q \in sent[s], CollectLast(s, q) PROVE TablesInv'
  BY <1>3, CollectLastTables
<1>4. ASSUME NEW s \in Server, Merge(s) PROVE TablesInv'
  BY <1>4, CloseTables, RecordTables, RouteTables, SendMergedTables DEF Merge
<1>5. CASE \/ \E r \in Req : (Start(r) /\ ~OpenFanout(r)) \/ Handle(r)
           \/ \E s \in Server : Fail(s) \/ \E q \in sent[s] : ForwardReply(s, q)
           \/ UNCHANGED vars
  BY <1>5, OtherTables
<1> QED
  BY <1>1, <1>2, <1>3, <1>4, <1>5 DEF Next, Respond, Start

(* The tables keep their invariant in every execution.                     *)
THEOREM TablesInvariance == Spec => []TablesInv
<1>1. IInv /\ TablesInv /\ [Next]_vars => TablesInv'
  BY NextTables
<1> QED
  BY <1>1, InitTables, Invariance, PTL DEF Spec

(* The router forwards no call of a name that it knows unvalidated: a      *)
(* routed tool is in the ledger (router.rs:272-275).                       *)
THEOREM RoutedRecorded == Spec => []RoutedIsRecorded
<1>1. TablesInv => RoutedIsRecorded
  BY DEF TablesInv
<1> QED
  BY <1>1, TablesInvariance, PTL

(* Each tool that the client was told of is routed to the upstream that    *)
(* listed it (drive_multi.py:9), where no two tools have one name.         *)
THEOREM HomeRouted == ASSUME NamesAreApart PROVE Spec => []AdvertisedRoutesHome
<1>1. TablesInv => AdvertisedRoutesHome
  BY DEF TablesInv, AdvertisedAreHome, AdvertisedRoutesHome, IsHome
<1> QED
  BY <1>1, TablesInvariance, PTL

-----------------------------------------------------------------------------
(* A name that is routed stays so.                                         *)
LEMMA RoutesKept ==
  ASSUME TypeOK, [Next]_vars, NEW n \in Name, routing[n] # NoRoute
  PROVE  routing'[n] # NoRoute
<1> USE DEF toolVars
<1>1. routing \in [Name -> ToolRoute \cup {NoRoute}] /\ up \in [Server -> Collector]
  BY DEF TypeOK
<1>2. ASSUME NEW s \in Server, Route(s) PROVE routing'[n] # NoRoute
  <2>1. PICK p \in up[s].cur :
          routing' = [routing EXCEPT ![Namespaced[p]] = [srv |-> p[1], tool |-> p[2]]]
    BY <1>2 DEF Route
  <2>2. p \in Server \X Bare
    BY <1>1 DEF Collector
  <2>3. p[1] # -1
    BY <2>2, RouterAssumption DEF Server
  <2> QED
    BY <1>1, <2>1, <2>3 DEF NoRoute
<1>3. ASSUME NEW s \in Server, Merge(s), ~Route(s) PROVE routing' = routing
  BY <1>3 DEF Merge, Close, Record, SendMerged
<1>4. ASSUME NEW s \in Server, NEW q \in sent[s], Respond(s, q) PROVE routing' = routing
  BY <1>4 DEF Respond, ForwardReply, Collect, CollectLast
<1>5. ASSUME NEW r \in Req, Start(r) PROVE routing' = routing
  BY <1>5 DEF Start, OpenFanout, ForwardOther, RejectNameless, RejectUnknown, Resolve, Reject
<1>6. ASSUME NEW r \in Req, Handle(r) PROVE routing' = routing
  BY <1>6 DEF Handle, PassUnchecked, PassRehydrated, RejectArgs, ReplyInvalid, Reject,
              Register, Send
<1>7. ASSUME NEW s \in Server, Fail(s) PROVE routing' = routing
  BY <1>7 DEF Fail, Crash, WriterEnds
<1>8. CASE UNCHANGED vars
  BY <1>8 DEF vars
<1> QED
  BY <1>2, <1>3, <1>4, <1>5, <1>6, <1>7, <1>8 DEF Next

(* What a named call says is of the right type.                            *)
LEMMA NamedCalls ==
  ASSUME TypeOK, NEW r \in Req, IsNamedCall(r)
  PROVE  frame[r].name \in Name /\ frame[r].args \in Args /\ ~IsFan(r)
         /\ loc[r].srv \in Server
  BY RouterAssumption DEF TypeOK, IsNamedCall, IsFan, FanMethod, ClientFrame, Local

(* A handler that does not move keeps what it has found out.               *)
LEMMA CallKept ==
  ASSUME TypeOK, [Next]_vars, NEW r \in Req, CallIsRouted(r),
         frame' = frame, pc'[r] = pc[r], loc'[r] = loc[r]
  PROVE  CallIsRouted(r)'
<1>1. IsNamedCall(r)' <=> IsNamedCall(r)
  BY DEF IsNamedCall
<1>2. IsNamedCall(r) /\ routing[frame[r].name] # NoRoute => routing'[frame[r].name] # NoRoute
  BY NamedCalls, RoutesKept
<1> QED
  BY <1>1, <1>2 DEF CallIsRouted, Unrouted, Found, Fits

(* The lookup finds the tool of that name.                                 *)
LEMMA ResolveFinds ==
  ASSUME TypeOK, RoutesAreOwn, NEW r \in Req, Resolve(r)
  PROVE  CallIsRouted(r)'
<1> DEFINE n == frame[r].name
           route == RouteOf(n)
<1>1. n \in Name /\ loc \in [Req -> Local]
  BY NamedCalls DEF Resolve, TypeOK
<1>2. /\ frame' = frame /\ routing' = routing /\ route # NoRoute
      /\ loc'[r].srv = route.srv /\ loc'[r].tool = route.tool
  BY <1>1 DEF Resolve, Local, toolVars
<1>3. pc'[r] = "validate"
  BY DEF Resolve, TypeOK
<1>4. CASE routing[n] = NoRoute
  BY <1>2, <1>3, <1>4 DEF RouteOf, CallIsRouted, Unrouted
<1>5. CASE routing[n] # NoRoute
  <2>1. route = routing[n]
    BY <1>5 DEF RouteOf
  <2> QED
    BY <1>1, <1>2, <1>3, <1>5, <2>1 DEF CallIsRouted, Found, RoutesAreOwn
<1> QED
  BY <1>4, <1>5

(* Where validation is on, only a bare name of the command line mode       *)
(* passes unvalidated: what is routed has a schema.                        *)
LEMMA UncheckedFits ==
  ASSUME TypeOK, RoutedIsRecorded, NEW r \in Req, CallIsRouted(r), PassUnchecked(r)
  PROVE  CallIsRouted(r)'
<1>1. frame' = frame /\ loc' = loc /\ pc[r] = "validate" /\ pc'[r] = "register"
  BY DEF PassUnchecked, TypeOK
<1>2. SUFFICES ASSUME IsNamedCall(r), Found(r), routing[frame[r].name] # NoRoute
               PROVE  ~Checked
  BY <1>1 DEF CallIsRouted, IsNamedCall, Unrouted, Found, Fits
<1>3. ledger[frame[r].name] # NoSchema
  BY <1>2, NamedCalls DEF RoutedIsRecorded
<1> QED
  BY <1>3 DEF PassUnchecked, SchemaInForce

(* The schema that rehydrates the arguments is one that the upstream to be *)
(* called has published for the tool to be called.                         *)
LEMMA RehydratedFits ==
  ASSUME NamesAreApart, TypeOK, SchemasArePublished, NEW r \in Req, CallIsRouted(r),
         PassRehydrated(r)
  PROVE  CallIsRouted(r)'
<1>0. loc \in [Req -> Local]
  BY DEF TypeOK
<1>1. /\ frame' = frame /\ pc[r] = "validate" /\ pc'[r] = "register"
      /\ loc'[r].srv = loc[r].srv /\ loc'[r].tool = loc[r].tool
      /\ loc'[r].args = Rehydrated(r) /\ Rehydrated(r) # Invalid
  BY <1>0 DEF PassRehydrated, TypeOK, Local
<1>2. SUFFICES ASSUME IsNamedCall(r), Found(r), Checked PROVE Fits(r)'
  BY <1>1 DEF CallIsRouted, IsNamedCall, Unrouted, Found, Fits
<1> DEFINE n == frame[r].name
<1>3. n \in Name /\ loc[r].srv \in Server /\ loc[r].tool \in Bare
  BY <1>2, NamedCalls DEF Found
<1>4. SchemaInForce(r) = ledger[n] /\ ledger[n] # NoSchema
  BY <1>2 DEF PassRehydrated, SchemaInForce
<1>5. PICK p \in Server \X Bare : \E l \in Listings[p[1]] :
        Namespaced[p] = n /\ l[p[2]] = ledger[n]
  BY <1>3, <1>4 DEF SchemasArePublished
<1>6. p = <<loc[r].srv, loc[r].tool>>
  BY <1>2, <1>3, <1>5 DEF NamesAreApart, Found
<1>7. \E l \in Listings[loc[r].srv] : l[loc[r].tool] = ledger[n]
  BY <1>5, <1>6
<1> QED
  BY <1>1, <1>4, <1>7 DEF Fits, Rehydrated

(* The upstream is sent what the handler has found out.                    *)
LEMMA SendIntended ==
  ASSUME TypeOK, CallsAreRouted, CallIsIntended, NEW r \in Req, Send(r)
  PROVE  CallIsIntended'
<1> DEFINE m == [id |-> loc[r].id, req |-> r, tool |-> loc[r].tool, args |-> loc[r].args]
<1>1. /\ frame' = frame /\ pc[r] = "send"
      /\ sent' = sent \/ sent' = [sent EXCEPT ![loc[r].srv] = @ \cup {m}]
  BY DEF Send, Enqueue, Upcalled
<1>2. sent \in [Server -> SUBSET Upcall] /\ loc[r].srv \in Server
  BY DEF TypeOK, Local
<1>3. \A s \in Server : \A q \in sent'[s] : q \in sent[s] \/ (q = m /\ s = loc[r].srv)
  BY <1>1, <1>2
<1> SUFFICES ASSUME NEW s \in Server, NEW q \in sent'[s], IsNamedCall(q.req)'
             PROVE  \/ NoPrefix /\ q.tool = frame[q.req].name
                    \/ /\ q.tool \in Bare /\ Namespaced[<<s, q.tool>>] = frame[q.req].name
                       /\ Checked => \E l \in Listings[s] :
                            /\ l[q.tool] # NoSchema
                            /\ q.args = Rehydrate[<<frame[q.req].args, l[q.tool]>>]
                            /\ q.args # Invalid
  BY <1>1 DEF CallIsIntended
<1>4. IsNamedCall(q.req)
  BY <1>1 DEF IsNamedCall
<1>5. CASE q \in sent[s]
  BY <1>4, <1>5 DEF CallIsIntended
<1>6. CASE q = m /\ s = loc[r].srv
  <2>1. Unrouted(r) \/ (Found(r) /\ Fits(r))
    BY <1>1, <1>4, <1>6 DEF CallsAreRouted, CallIsRouted
  <2>2. /\ q.req = r /\ q.tool = loc[r].tool /\ q.args = loc[r].args /\ s = loc[r].srv
    BY <1>6
  <2>3. CASE Unrouted(r)
    BY <2>2, <2>3 DEF Unrouted
  <2>4. CASE Found(r) /\ Fits(r)
    BY <2>2, <2>4 DEF Found, Fits
  <2> QED
    BY <2>1, <2>3, <2>4
<1> QED
  BY <1>3, <1>5, <1>6

(* A step of one handler leaves what the others know alone.                *)
LEMMA OthersKept ==
  ASSUME TypeOK, [Next]_vars, CallsAreRouted, NEW r \in Req, Start(r) \/ Handle(r),
         CallIsRouted(r)'
  PROVE  CallsAreRouted'
<1>1. frame' = frame /\ \A q \in Req \ {r} : pc'[q] = pc[q] /\ loc'[q] = loc[q]
  BY DEF TypeOK, Start, Handle, OpenFanout, ForwardOther, RejectNameless, RejectUnknown,
         Resolve, PassUnchecked, PassRehydrated, RejectArgs, Reject, ReplyInvalid, Register,
         Send
<1>2. \A q \in Req \ {r} : CallIsRouted(q)'
  BY <1>1, CallKept DEF CallsAreRouted
<1> QED
  BY <1>2 DEF CallsAreRouted

(* A handler that is turned down, or begins another request than a call.   *)
LEMMA NotCalled ==
  ASSUME TypeOK, NEW r \in Req,
         OpenFanout(r) \/ ForwardOther(r) \/ RejectNameless(r) \/ RejectUnknown(r)
         \/ RejectArgs(r) \/ ReplyInvalid(r)
  PROVE  CallIsRouted(r)'
<1>1. CASE OpenFanout(r) \/ ForwardOther(r)
  <2>1. ~IsNamedCall(r) /\ frame' = frame
    BY <1>1 DEF OpenFanout, ForwardOther, IsFan, FanMethod, IsNamedCall
  <2> QED
    BY <2>1 DEF CallIsRouted, IsNamedCall
<1>2. CASE RejectNameless(r) \/ RejectUnknown(r) \/ RejectArgs(r) \/ ReplyInvalid(r)
  <2>1. pc'[r] \in {"reject", "done"}
    BY <1>2 DEF RejectNameless, RejectUnknown, RejectArgs, ReplyInvalid, Reject, TypeOK
  <2> QED
    BY <2>1 DEF CallIsRouted
<1> QED
  BY <1>1, <1>2

(* An entry is made for the call as it was found.                          *)
LEMMA RegisterKeeps ==
  ASSUME TypeOK, NEW r \in Req, CallIsRouted(r), Register(r) PROVE CallIsRouted(r)'
<1>0. loc \in [Req -> Local]
  BY DEF TypeOK
<1>1. /\ frame' = frame /\ pc[r] = "register" /\ pc'[r] = "send"
      /\ loc'[r].srv = loc[r].srv /\ loc'[r].tool = loc[r].tool /\ loc'[r].args = loc[r].args
  BY <1>0 DEF Register, TypeOK, Local
<1> QED
  BY <1>1 DEF CallIsRouted, IsNamedCall, Unrouted, Found, Fits

(* A call is sent once; what is sent again is a fan-out's frame.           *)
LEMMA SendKeeps == ASSUME TypeOK, NEW r \in Req, Send(r) PROVE CallIsRouted(r)'
<1>1. frame' = frame /\ (IsNamedCall(r) => pc'[r] = "done")
  BY NamedCalls DEF Send, TypeOK, MoreToDo
<1> QED
  BY <1>1 DEF CallIsRouted, IsNamedCall

(* Where names are apart, what is known of calls is inductive.             *)
LEMMA NextCalls ==
  ASSUME NamesAreApart, IInv, TablesInv, CallsAreRouted, CallIsIntended, [Next]_vars
  PROVE  CallsAreRouted' /\ CallIsIntended'
<1>0. TypeOK /\ RoutesAreOwn /\ SchemasArePublished /\ RoutedIsRecorded
  BY DEF IInv, TablesInv
<1>1. UNCHANGED <<frame, sent>> => CallIsIntended'
  BY DEF CallIsIntended, IsNamedCall
<1>2. ASSUME NEW r \in Req, Start(r) \/ Handle(r) PROVE CallsAreRouted'
  <2>1. CallIsRouted(r)
    BY <1>2 DEF CallsAreRouted
  <2>2. CallIsRouted(r)'
    BY <1>0, <1>2, <2>1, NotCalled, ResolveFinds, UncheckedFits, RehydratedFits, RegisterKeeps,
       SendKeeps DEF Start, Handle
  <2> QED
    BY <1>0, <1>2, <2>2, OthersKept
<1>3. ASSUME NEW r \in Req, Start(r) \/ Handle(r) PROVE CallIsIntended'
  <2>1. CASE Send(r)
    BY <1>0, <2>1, SendIntended
  <2>2. CASE ~Send(r)
    <3>1. UNCHANGED <<frame, sent>>
      BY <1>3, <2>2 DEF Start, Handle, OpenFanout, ForwardOther, RejectNameless, RejectUnknown,
           Resolve, PassUnchecked, PassRehydrated, RejectArgs, Reject, ReplyInvalid, Register,
           wireVars
    <3> QED
      BY <1>1, <3>1
  <2> QED
    BY <2>1, <2>2
<1>4. ASSUME UNCHANGED <<frame, pc, loc, sent>> PROVE CallsAreRouted' /\ CallIsIntended'
  BY <1>0, <1>1, <1>4, CallKept DEF CallsAreRouted
<1>5. ASSUME NEW s \in Server, Merge(s) \/ Fail(s)
      PROVE  UNCHANGED <<frame, pc, loc, sent>>
  BY <1>5 DEF Merge, Close, Record, Route, SendMerged, Fail, Crash, WriterEnds, handlerVars, wireVars
<1>6. ASSUME NEW s \in Server, NEW q \in sent[s], Respond(s, q)
      PROVE  UNCHANGED <<frame, pc, loc, sent>>
  BY <1>6 DEF Respond, ForwardReply, Collect, CollectLast, handlerVars, wireVars
<1>7. CASE UNCHANGED vars
  BY <1>4, <1>7 DEF vars
<1> QED
  BY <1>2, <1>3, <1>4, <1>5, <1>6, <1>7 DEF Next

(* Each upstream sees only calls of its own tools, with arguments that fit *)
(* a schema it has published, where no two tools have one name.            *)
THEOREM CallsIntended == ASSUME NamesAreApart PROVE Spec => []CallIsIntended
<1>1. Init => CallsAreRouted /\ CallIsIntended
  BY DEF Init, CallsAreRouted, CallIsRouted, CallIsIntended
<1>2. IInv /\ TablesInv /\ CallsAreRouted /\ CallIsIntended /\ [Next]_vars
        => CallsAreRouted' /\ CallIsIntended'
  BY NextCalls
<1> QED
  BY <1>1, <1>2, TablesInvariance, Invariance, PTL DEF Spec

(* All that ToolInv says of the tables and the calls holds together.       *)
THEOREM ToolsInvariance == ASSUME NamesAreApart PROVE Spec => []ToolsInv
<1>1. Init => CallsAreRouted /\ CallIsIntended
  BY DEF Init, CallsAreRouted, CallIsRouted, CallIsIntended
<1>2. IInv /\ TablesInv /\ CallsAreRouted /\ CallIsIntended /\ [Next]_vars
        => CallsAreRouted' /\ CallIsIntended'
  BY NextCalls
<1>3. TablesInv /\ CallsAreRouted /\ CallIsIntended => ToolsInv
  BY DEF ToolsInv
<1> QED
  BY <1>1, <1>2, <1>3, TablesInvariance, Invariance, PTL DEF Spec

-----------------------------------------------------------------------------
(* The frames that the client was sent, and one more.                      *)
LEMMA OneMore ==
  ASSUME TypeOK, NEW m, toClient' = Append(toClient, m)
  PROVE  LET n == Len(toClient) IN
         /\ n \in Nat /\ DOMAIN toClient = 1 .. n /\ DOMAIN toClient' = 1 .. n + 1
         /\ toClient'[n + 1] = m /\ \A i \in 1 .. n : toClient'[i] = toClient[i]
<1>1. toClient \in Seq(Reply)
  BY DEF TypeOK
<1> QED
  BY <1>1

(* A frame that is no list leaves the last list the last.                  *)
LEMMA ToldKept ==
  ASSUME TypeOK, ToldIsInForce, NEW m, toClient' = Append(toClient, m),
         UNCHANGED <<frame, ledger>>,
         ~(m.type = "merged" /\ frame[m.to].method = "tools/list")
  PROVE  ToldIsInForce'
<1> DEFINE n == Len(toClient)
<1>1. /\ n \in Nat /\ DOMAIN toClient = 1 .. n /\ DOMAIN toClient' = 1 .. n + 1
      /\ toClient'[n + 1] = m /\ \A i \in 1 .. n : toClient'[i] = toClient[i]
  BY OneMore
<1>2. \A i \in 1 .. n + 1 : IF i = n + 1 THEN ~IsList(i)' ELSE IsList(i)' <=> IsList(i)
  BY <1>1 DEF IsList
<1> SUFFICES ASSUME NEW i \in 1 .. n + 1, IsList(i)', \A j \in 1 .. n + 1 : j > i => ~IsList(j)',
                    NEW p \in Listed(toClient'[i].answers)
             PROVE  ledger[Namespaced[p]] = toClient'[i].answers[p[1]].list[p[2]]
  BY <1>1 DEF ToldIsInForce, Listed
<1>3. i \in 1 .. n /\ IsList(i) /\ \A j \in 1 .. n : j > i => ~IsList(j)
  BY <1>1, <1>2
<1> QED
  BY <1>1, <1>3 DEF ToldIsInForce

(* A list that is in the ledger as it is sent is the last list.            *)
LEMMA ToldNew ==
  ASSUME TypeOK, NEW m, toClient' = Append(toClient, m), UNCHANGED <<frame, ledger>>,
         m.type = "merged" /\ frame[m.to].method = "tools/list",
         \A p \in Listed(m.answers) : ledger[Namespaced[p]] = m.answers[p[1]].list[p[2]]
  PROVE  ToldIsInForce'
<1> DEFINE n == Len(toClient)
<1>1. /\ n \in Nat /\ DOMAIN toClient = 1 .. n /\ DOMAIN toClient' = 1 .. n + 1
      /\ toClient'[n + 1] = m /\ \A i \in 1 .. n : toClient'[i] = toClient[i]
  BY OneMore
<1>2. \A i \in 1 .. n + 1 : i = n + 1 => IsList(i)'
  BY <1>1 DEF IsList
<1> SUFFICES ASSUME NEW i \in 1 .. n + 1, IsList(i)', \A j \in 1 .. n + 1 : j > i => ~IsList(j)',
                    NEW p \in Listed(toClient'[i].answers)
             PROVE  ledger[Namespaced[p]] = toClient'[i].answers[p[1]].list[p[2]]
  BY <1>1 DEF ToldIsInForce, Listed
<1>3. i = n + 1
  BY <1>1, <1>2
<1> QED
  BY <1>1, <1>3

(* A step that leaves the merges and the ledger alone.                     *)
LEMMA LedgerKept ==
  ASSUME LedgerInv, UNCHANGED <<frame, up, ledger>>, ToldIsInForce => ToldIsInForce'
  PROVE  LedgerInv'
<1> SUFFICES ASSUME NEW s \in Server PROVE LedgerIsInOrder(s)'
  BY DEF LedgerInv
<1>1. LedgerIsInOrder(s)
  BY DEF LedgerInv
<1> QED
  BY <1>1 DEF LedgerIsInOrder, Listed

(* ... which is so when nothing is sent, or an answer to another request.  *)
LEMMA OtherLedger ==
  ASSUME IInv, LedgerInv,
         \/ \E r \in Req : Start(r) \/ Handle(r)
         \/ \E s \in Server : Fail(s) \/ \E q \in sent[s] : ForwardReply(s, q) \/ Collect(s, q)
         \/ UNCHANGED vars
  PROVE  LedgerInv'
<1> USE DEF toolVars, wireVars, handlerVars, fanVars, vars
<1>0. TypeOK
  BY DEF IInv
<1>1. UNCHANGED <<frame, toClient, ledger>> => (ToldIsInForce => ToldIsInForce')
  BY DEF ToldIsInForce, IsList, Listed
<1>2. ASSUME NEW r \in Req, Start(r) \/ Handle(r), ~ReplyInvalid(r) PROVE LedgerInv'
  <2>1. UNCHANGED <<frame, up, ledger, toClient>>
    BY <1>2 DEF Start, OpenFanout, ForwardOther, RejectNameless, RejectUnknown, Resolve, Reject,
         Handle, PassUnchecked, PassRehydrated, RejectArgs, Register, Send
  <2> QED
    BY <1>1, <2>1, LedgerKept
<1>3. ASSUME NEW r \in Req, ReplyInvalid(r) PROVE LedgerInv'
  <2> DEFINE m == [to |-> r, type |-> "invalid", answers |-> NoAnswers]
  <2>1. toClient' = Append(toClient, m) /\ UNCHANGED <<frame, up, ledger>>
    BY <1>3 DEF ReplyInvalid
  <2>2. ToldIsInForce => ToldIsInForce'
    BY <1>0, <2>1, ToldKept
  <2> QED
    BY <2>1, <2>2, LedgerKept
<1>4. ASSUME NEW s \in Server, NEW q \in sent[s], ForwardReply(s, q) PROVE LedgerInv'
  <2>1. PICK resp \in Answer(s, q) :
          toClient' = Append(toClient, [to |-> pending[s][q.id].req, type |-> "result",
                                        answers |-> [NoAnswers EXCEPT ![s] = resp]])
    BY <1>4 DEF ForwardReply
  <2> DEFINE m == [to |-> pending[s][q.id].req, type |-> "result",
                   answers |-> [NoAnswers EXCEPT ![s] = resp]]
  <2>2. toClient' = Append(toClient, m) /\ UNCHANGED <<frame, up, ledger>>
    BY <1>4, <2>1 DEF ForwardReply
  <2>3. ToldIsInForce => ToldIsInForce'
    BY <1>0, <2>2, ToldKept
  <2> QED
    BY <2>2, <2>3, LedgerKept
<1>5. ASSUME NEW s \in Server, Fail(s) \/ \E q \in sent[s] : Collect(s, q) PROVE LedgerInv'
  <2>1. UNCHANGED <<frame, up, ledger, toClient>>
    BY <1>5 DEF Fail, Crash, WriterEnds, Collect
  <2> QED
    BY <1>1, <2>1, LedgerKept
<1>6. CASE UNCHANGED vars
  BY <1>1, <1>6, LedgerKept
<1> QED
  BY <1>2, <1>3, <1>4, <1>5, <1>6

(* A merge begins with the kind of the request that it answers.            *)
LEMMA CollectLastLedger ==
  ASSUME IInv, TablesInv, LedgerInv, NServers = 1, NEW s \in Server, NEW q \in sent[s],
         CollectLast(s, q)
  PROVE  LedgerInv'
<1> USE DEF toolVars, wireVars, handlerVars
<1> DEFINE f == pending[s][q.id].fan
<1>0. Server = {0} /\ s = 0
  BY DEF Server
<1>1. PICK resp \in Answer(s, q) :
        up' = [up EXCEPT ![s] =
                [Reading EXCEPT !.pc = "close", !.fan = f, !.kind = fanouts[f].kind,
                                !.client = fanouts[f].client,
                                !.collected = [fanouts[f].collected EXCEPT ![s] = resp]]]
  BY DEF CollectLast
<1>2. f \in Id /\ IsOpen(f)
  BY SlotIsPublished DEF CollectLast
<1>3. up \in [Server -> Collector]
  BY DEF IInv, TypeOK
<1>4. up'[s].pc = "close" /\ up'[s].kind = fanouts[f].kind /\ up'[s].client = fanouts[f].client
  BY <1>1, <1>3 DEF Reading
<1>5. fanouts[f].kind = frame[fanouts[f].client].method
  BY <1>2 DEF TablesInv, FanoutsArePublished
<1>6. up[s].pc = "read" /\ UNCHANGED <<frame, toClient, ledger>>
  BY DEF CollectLast, Answered
<1>7. ToldIsInForce'
  BY <1>6 DEF LedgerInv, LedgerIsInOrder, ToldIsInForce, IsList, Listed
<1>8. LedgerIsInOrder(s)'
  BY <1>4, <1>5, <1>6, <1>7 DEF LedgerIsInOrder
<1> QED
  BY <1>0, <1>8 DEF LedgerInv

(* The steps of a merge that is the only one, where names are apart.       *)
LEMMA MergeLedger ==
  ASSUME NamesAreApart, IInv, TablesInv, LedgerInv, NServers = 1, NEW s \in Server, Merge(s)
  PROVE  LedgerInv'
<1> USE DEF toolVars, wireVars, handlerVars, fanVars
<1>0. /\ TypeOK /\ up \in [Server -> Collector] /\ ledger \in [Name -> Schema \cup {NoSchema}]
      /\ Server = {0} /\ s = 0 /\ LedgerIsInOrder(s)
  BY DEF IInv, TypeOK, Server, LedgerInv
<1>1. CASE Close(s)
  <2>1. /\ up[s].pc = "close" /\ up'[s].pc = "merge" /\ up'[s].kind = up[s].kind
        /\ up'[s].client = up[s].client /\ up'[s].collected = up[s].collected
        /\ up[s].kind = "tools/list" => up'[s].todo = Listed(up[s].collected)
    BY <1>0, <1>1 DEF Close, Collector
  <2>2. UNCHANGED <<frame, toClient, ledger>>
    BY <1>1 DEF Close
  <2>3. ToldIsInForce'
    BY <1>0, <2>1, <2>2 DEF LedgerIsInOrder, ToldIsInForce, IsList, Listed
  <2>4. LedgerIsInOrder(s)'
    BY <1>0, <2>1, <2>2, <2>3 DEF LedgerIsInOrder, Listed
  <2> QED
    BY <1>0, <2>4 DEF LedgerInv
<1>2. CASE Record(s)
  <2>1. PICK p \in up[s].todo :
          /\ ledger' = [ledger EXCEPT ![Namespaced[p]] = up[s].collected[p[1]].list[p[2]]]
          /\ up' = [up EXCEPT ![s].pc = "route", ![s].todo = @ \ {p}, ![s].cur = {p}]
    BY <1>2 DEF Record
  <2>2. /\ up[s].pc = "merge" /\ up'[s].pc = "route" /\ up'[s].kind = up[s].kind
        /\ up'[s].client = up[s].client /\ up'[s].collected = up[s].collected
        /\ up'[s].todo = up[s].todo \ {p}
    BY <1>0, <1>2, <2>1 DEF Record, Collector
  <2>3. UNCHANGED <<frame, toClient>>
    BY <1>2 DEF Record
  <2>4. p \in Listed(up[s].collected)
    BY <2>2 DEF TablesInv, MergesAreInOrder, MergeIsInOrder
  <2>5. up[s].kind = "tools/list"
    <3>1. ASSUME up[s].kind # "tools/list" PROVE FALSE
      <4>1. \A t \in Server : up[s].collected[t].list = NoTools
        BY <3>1 DEF TablesInv, MergesArePublished, Published
      <4> QED
        BY <2>4, <4>1 DEF Listed, NoTools
    <3> QED
      BY <3>1
  <2>6. \A o \in Server \X Bare :
          ledger'[Namespaced[o]] = IF o = p THEN up[s].collected[p[1]].list[p[2]]
                                   ELSE ledger[Namespaced[o]]
    BY <1>0, <2>1, <2>4, RouterAssumption DEF NamesAreApart, Listed
  <2>7. \A o \in Listed(up'[s].collected) \ up'[s].todo :
          ledger'[Namespaced[o]] = up'[s].collected[o[1]].list[o[2]]
    BY <1>0, <2>2, <2>5, <2>6 DEF LedgerIsInOrder, Listed
  <2>8. LedgerIsInOrder(s)'
    BY <1>0, <2>2, <2>3, <2>5, <2>7 DEF LedgerIsInOrder
  <2> QED
    BY <1>0, <2>8 DEF LedgerInv
<1>3. CASE Route(s)
  <2>1. /\ up[s].pc = "route" /\ up'[s].pc = "merge" /\ up'[s].kind = up[s].kind
        /\ up'[s].client = up[s].client /\ up'[s].collected = up[s].collected
        /\ up'[s].todo = up[s].todo
    BY <1>0, <1>3 DEF Route, Collector
  <2>2. UNCHANGED <<frame, toClient, ledger>>
    BY <1>3 DEF Route
  <2>3. ToldIsInForce => ToldIsInForce'
    BY <2>2 DEF ToldIsInForce, IsList, Listed
  <2>4. LedgerIsInOrder(s)'
    BY <1>0, <2>1, <2>2, <2>3 DEF LedgerIsInOrder, Listed
  <2> QED
    BY <1>0, <2>4 DEF LedgerInv
<1>4. CASE SendMerged(s)
  <2> DEFINE m == [to |-> up[s].client, type |-> "merged", answers |-> up[s].collected]
  <2>1. /\ toClient' = Append(toClient, m) /\ UNCHANGED <<frame, ledger>>
        /\ up[s].pc = "merge" /\ up[s].todo = {} /\ up'[s] = Reading
    BY <1>0, <1>4 DEF SendMerged
  <2>2. ToldIsInForce'
    <3>1. CASE up[s].kind = "tools/list"
      <4>1. \A p \in Listed(m.answers) : ledger[Namespaced[p]] = m.answers[p[1]].list[p[2]]
        BY <1>0, <2>1, <3>1 DEF LedgerIsInOrder
      <4> QED
        BY <1>0, <2>1, <3>1, <4>1, ToldNew DEF LedgerIsInOrder
    <3>2. CASE up[s].kind # "tools/list"
      BY <1>0, <2>1, <3>2, ToldKept DEF LedgerIsInOrder
    <3> QED
      BY <3>1, <3>2
  <2>3. LedgerIsInOrder(s)'
    BY <2>1, <2>2 DEF LedgerIsInOrder, Reading
  <2> QED
    BY <1>0, <2>3 DEF LedgerInv
<1> QED
  BY <1>1, <1>2, <1>3, <1>4 DEF Merge

(* With one upstream a merge goes on from the ledger that the client was   *)
(* last told of to the one that it will be told of (merge_tools_list).     *)
THEOREM LedgerInvariance ==
  ASSUME NamesAreApart, NServers = 1 PROVE Spec => []LedgerInv
<1>1. Init => LedgerInv
  BY DEF Init, LedgerInv, LedgerIsInOrder, ToldIsInForce, Reading
<1>2. IInv /\ TablesInv /\ LedgerInv /\ [Next]_vars => LedgerInv'
  BY OtherLedger, CollectLastLedger, MergeLedger DEF Next, Respond
<1> QED
  BY <1>1, <1>2, TablesInvariance, Invariance, PTL DEF Spec

(* With one upstream the ledger is what the client was last told ("the     *)
(* source of truth used to validate", ledger.rs:21-22), whenever no merge  *)
(* is under way and whatever calls are handled meanwhile.                  *)
THEOREM LastListedInForce ==
  ASSUME NamesAreApart, NServers = 1 PROVE Spec => []LastListedIsInForce
<1>1. LedgerInv => LastListedIsInForce
  BY RouterAssumption DEF LedgerInv, LedgerIsInOrder, ToldIsInForce, LastListedIsInForce, Server
<1> QED
  BY <1>1, LedgerInvariance, PTL
=============================================================================
