----------------------------- MODULE Telemetry -----------------------------
(***************************************************************************)
(* The counters of src/Shrink/src/metrics.rs, with the router that adds to *)
(* them and a GET /metrics that reads them.  There is no lock over two of  *)
(* them: a call is counted in two steps of its handler, a merged list in   *)
(* three of its reader task.  All operations are Relaxed.  An addition     *)
(* reads the latest value and replaces it in one step, so that each        *)
(* counter has one history; but a load may return any value of it that is  *)
(* not older than one its task must have learned of, and two loads of      *)
(* different counters have no order between them at all.                   *)
(***************************************************************************)
EXTENDS Router

CONSTANTS
  Full,      \* tokens of a tool as its upstream lists it
  Short,     \* tokens of a tool as the client is shown it
  Envelope   \* tokens of the frame around the tools

(* The upstreams' tools are counted, so they are finitely many.            *)
ASSUME TelemetryAssumption ==
  {Full, Short, Envelope} \subseteq Nat /\ IsFiniteSet(Bare)

Counter == {"lists", "before", "after", "total", "forwarded", "rejected"}
Zero    == [c \in Counter |-> 0]

VARIABLES
  counter,  \* the counters of Metrics, as the last addition left them
  past,     \* every value that each counter has had
  tally,    \* how far the counting of each tools/call has come
  disc,     \* how far each reader task is in record_discovery
  view,     \* what the additions made for a request have left of each counter
  carried   \* for each frame to the client, the additions made before it was
            \* sent, by the task that sent it: as view has them

countVars == <<counter, past, view>>
meterVars == <<countVars, tally, disc, carried>>
allVars   == <<vars, meterVars>>

MeterTypeOK ==
  /\ TypeOK
  /\ counter \in [Counter -> Nat]
  /\ past \in [Counter -> SUBSET Nat]
  /\ tally \in [Req -> {"none", "total", "counted"}]
  /\ disc \in [Server -> {"none", "lists", "before", "counted"}]
  /\ view \in [Req -> [Counter -> Nat]]
  /\ carried \in Seq([Counter -> Nat])

MeterInit ==
  /\ Init
  /\ counter = Zero
  /\ past = [k \in Counter |-> {0}]
  /\ tally = [r \in Req |-> "none"]
  /\ disc = [s \in Server |-> "none"]
  /\ view = [r \in Req |-> Zero]
  /\ carried = <<>>

IsCall(r) == frame[r].method = "tools/call"

(* fetch_add, by the task that handles r.                                  *)
Add(r, k, n) ==
  /\ counter' = [counter EXCEPT ![k] = @ + n]
  /\ past' = [past EXCEPT ![k] = @ \cup {counter[k] + n}]
  /\ view' = [view EXCEPT ![r][k] = counter[k] + n]

(* The channel to the client hands on, with a frame, what its sender has   *)
(* done before: whoever receives the frame cannot load less than that.     *)
Carry(v) == carried' = IF toClient' = toClient THEN carried ELSE Append(carried, v)

-----------------------------------------------------------------------------
(* Bug: only what is forwarded is recorded.                                *)
ToCountSent(r) ==
  IsCall(r) /\ pc[r] = "done" /\ \E s \in Server : \E q \in sent[s] : q.req = r

(* record_call_rejected is called before the error is sent,                *)
(* record_call_forwarded after the frame is.                               *)
ToCount(r) == IsCall(r) /\ pc[r] \in {"reject", "done"}

(* Bug: a call that is turned down is added to its own counter only.       *)
CountForwardedTotal(r) ==
  /\ ToCount(r) /\ tally[r] = "none"
  /\ Add(r, "total", IF pc[r] = "reject" THEN 0 ELSE 1)
  /\ tally' = [tally EXCEPT ![r] = "total"]
  /\ UNCHANGED <<vars, disc, carried>>

CountTotal(r) ==
  /\ ToCount(r) /\ tally[r] = "none"
  /\ Add(r, "total", 1)
  /\ tally' = [tally EXCEPT ![r] = "total"]
  /\ UNCHANGED <<vars, disc, carried>>

CountPart(r) ==
  /\ tally[r] = "total"
  /\ Add(r, IF pc[r] = "reject" THEN "rejected" ELSE "forwarded", 1)
  /\ tally' = [tally EXCEPT ![r] = "counted"]
  /\ UNCHANGED <<vars, disc, carried>>

(* record_discovery, when the tools are merged and compacted.              *)
Tools(s) == Cardinality(Listed(up[s].collected))
IsMerged(s) == up[s].pc = "merge" /\ up[s].todo = {}
ToReport(s) == IsMerged(s) /\ up[s].kind = "tools/list"

CountList(s) ==
  /\ ToReport(s) /\ disc[s] = "none"
  /\ Add(up[s].client, "lists", 1)
  /\ disc' = [disc EXCEPT ![s] = "lists"]
  /\ UNCHANGED <<vars, tally, carried>>

CountBefore(s) ==
  /\ disc[s] = "lists"
  /\ Add(up[s].client, "before", Full * Tools(s))
  /\ disc' = [disc EXCEPT ![s] = "before"]
  /\ UNCHANGED <<vars, tally, carried>>

CountAfter(s) ==
  /\ disc[s] = "before"
  /\ Add(up[s].client, "after", Short * Tools(s) + Envelope)
  /\ disc' = [disc EXCEPT ![s] = "counted"]
  /\ UNCHANGED <<vars, tally, carried>>

(* The router's own steps, each where the code has it.                     *)
MeteredStart(r) ==
  /\ Start(r)
  /\ Concurrent \/ \A q \in Req : ToCount(q) => tally[q] = "counted"
  /\ UNCHANGED meterVars

(* Bug: the error is sent before the call is counted.                      *)
MeteredHandleEarly(r) ==
  Handle(r) /\ Carry(view[r]) /\ UNCHANGED <<countVars, tally, disc>>

MeteredHandle(r) ==
  /\ pc[r] = "reject" /\ ToCount(r) => tally[r] = "counted"
  /\ Handle(r) /\ Carry(view[r])
  /\ UNCHANGED <<countVars, tally, disc>>

MeteredMerge(s) ==
  /\ ToReport(s) => disc[s] = "counted"
  /\ Merge(s) /\ Carry(view[up[s].client])
  /\ disc' = [disc EXCEPT ![s] = IF IsMerged(s) THEN "none" ELSE @]
  /\ UNCHANGED <<countVars, tally>>

(* A forwarded answer passes through the reader task of its upstream, which*)
(* has no part in the counting of calls.                                   *)
MeteredRespond(s, q) ==
  Respond(s, q) /\ Carry(Zero) /\ UNCHANGED <<countVars, tally, disc>>

-----------------------------------------------------------------------------
(* What render may show of counter k to a client that had received n       *)
(* frames when it asked: any value that k has had, but none older than the *)
(* sender of one of those frames left behind.                              *)
Loads(n, k) == {v \in past[k] : \A i \in 1 .. n : v >= carried[i][k]}

-----------------------------------------------------------------------------
MeterNext ==
  \/ \E r \in Req : MeteredStart(r) \/ MeteredHandle(r) \/ CountTotal(r) \/ CountPart(r)
  \/ \E s \in Server :
       \/ MeteredMerge(s) \/ CountList(s) \/ CountBefore(s) \/ CountAfter(s)
       \/ Fail(s) /\ UNCHANGED meterVars
       \/ \E q \in sent[s] : MeteredRespond(s, q)

(* As in Router: the runtime runs the tasks that are ready, and upstreams  *)
(* that are not silent answer what they are sent while they read.          *)
MeterFairness ==
  /\ \A r \in Req : WF_allVars(MeteredHandle(r) \/ CountTotal(r) \/ CountPart(r))
  /\ \A s \in Server :
       WF_allVars(MeteredMerge(s) \/ CountList(s) \/ CountBefore(s) \/ CountAfter(s))
  /\ \A s \in Server, r \in Req :
       WF_allVars(s \notin closed /\ \E q \in sent[s] : q.req = r /\ MeteredRespond(s, q))

MeterSpec == MeterInit /\ [][MeterNext]_allVars /\ MeterFairness

-----------------------------------------------------------------------------
(* Properties.                                                             *)

(* Calls that the client was told are invalid.                             *)
Rejected ==
  {r \in Req : \E i \in DOMAIN toClient : toClient[i].to = r /\ toClient[i].type = "invalid"}

(* Calls in the total that are not in a part yet.                          *)
CallsUnderCount == Cardinality({r \in Req : tally[r] = "total"})

IsSent(r) == \E s \in Server : \E q \in sent[s] : q.req = r

(* A call whose frame was lost: handled to its end, not turned down, and   *)
(* for an upstream whose channel is closed (router.rs:288).                *)
IsLost(r) == pc[r] = "done" /\ r \notin Rejected /\ loc[r].srv \in closed

(* The counters of metrics.rs, as the last addition left them, against     *)
(* what the router did: the total is the parts and the calls being         *)
(* counted; a call counts as rejected only if it is turned down, and as    *)
(* forwarded ("to upstream", metrics.rs:26) only if its frame was put on   *)
(* the channel of its upstream, or was lost because that was closed: the   *)
(* code does not tell these two apart.                                     *)
CountsAreTrue ==
  /\ counter["total"] = counter["forwarded"] + counter["rejected"] + CallsUnderCount
  /\ counter["rejected"] <=
       Cardinality({r \in Req : IsCall(r) /\ (pc[r] = "reject" \/ r \in Rejected)})
  /\ counter["forwarded"] <=
       Cardinality({r \in Req : IsCall(r) /\ (IsSent(r) \/ IsLost(r))})

(* Who asks for /metrics finds in it, stale as each number may be, all     *)
(* that the frames it has received speak of: every rejection in both its   *)
(* counters, every list, and the tokens of each list before and after.  An *)
(* answer to a forwarded call speaks of nothing: that call may be counted  *)
(* later (router.rs:288-289).  And no frame speaks of more than there is:  *)
(* the latest values are always among those that may be shown.             *)
ScrapeIsCurrent ==
  \A n \in 0 .. Len(toClient) :
    /\ \A k \in Counter : counter[k] \in Loads(n, k)
    /\ \A k \in {"total", "rejected"} : \A v \in Loads(n, k) :
         v >= Cardinality({i \in 1 .. n : toClient[i].type = "invalid"})
    /\ \A v \in Loads(n, "lists") : v >= Cardinality({i \in 1 .. n : IsList(i)})
    /\ \A i \in 1 .. n : IsList(i) =>
         LET tools == Cardinality(Listed(toClient[i].answers)) IN
         /\ \A v \in Loads(n, "before") : v >= Full * tools
         /\ \A v \in Loads(n, "after") : v >= Short * tools + Envelope

(* Every tools/call that is handled to its end is counted, as what it came *)
(* to, whether its upstream ever answers or not.                           *)
EveryCallIsCounted == \A r \in Req : (IsCall(r) /\ pc[r] # "new") ~> (tally[r] = "counted")
=============================================================================
