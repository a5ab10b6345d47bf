------------------------------- MODULE Router -------------------------------
(***************************************************************************)
(* The multi-server router (src/Shrink/src/router.rs): it renumbers every  *)
(* client request into the id space of the upstream it goes to, fans       *)
(* tools/list and initialize out to all upstreams and merges their         *)
(* answers, and routes tools/call by the namespaced tool name.             *)
(*                                                                         *)
(* The router is called from one task per upstream (its read_pump) and     *)
(* from the client's task, in stdio mode, or from one task per POST, in    *)
(* SSE mode.  Nothing is awaited inside a call, but the tasks run on       *)
(* several OS threads, so the unit of interleaving is one operation on a   *)
(* shared map, counter or channel.  Two such operations are joined in one  *)
(* action only where no other thread can tell: an id is drawn and its      *)
(* entry inserted before anyone else knows the id, and only the reader of  *)
(* upstream s ever removes an entry of s.                                  *)
(***************************************************************************)
EXTENDS Integers, FiniteSets, Sequences

CONSTANTS
  NServers,    \* number of upstreams
  Req,         \* the frames with an id that the client sends, each read once
  NoReq,       \* not a request
  Frames,      \* what such a frame may say
  Bare,        \* tool names as the upstreams know them
  Name,        \* tool names as the client writes them
  NoName,      \* the absence of a tool name
  Namespaced,  \* Namespaced[<<s, b>>]: the name the client sees for tool b of s
  NoPrefix,    \* single-server command line mode: names are not prefixed
  Schema,      \* inputSchemas
  NoSchema,    \* the absence of one
  Listings,    \* Listings[s]: the tools/list results upstream s may give
  Args,        \* tools/call arguments
  Invalid,     \* a validation error
  Rehydrate,   \* Rehydrate[<<a, sch>>]: validator::rehydrate under this tier
  Checked,     \* the tier is not `none`: arguments are validated
  Concurrent,  \* client frames may be handled in parallel (SSE mode)
  Mortal,      \* upstreams that may stop answering, or reading
  MaxId        \* bound on the ids drawn per counter

Server == 0 .. NServers - 1
Id     == 1 .. MaxId

Listing == [Bare -> Schema \cup {NoSchema}]
NoTools == [b \in Bare |-> NoSchema]

FanMethod == {"tools/list", "initialize"}
Method    == FanMethod \cup {"tools/call", "other"}

ClientFrame == [method : Method, name : Name \cup {NoName}, args : Args]

(***************************************************************************)
(* Distinguished values are not members of the sets they complete; in      *)
(* command line mode the one upstream's tools keep their names.            *)
(***************************************************************************)
ASSUME RouterAssumption ==
  /\ NServers \in Nat \ {0}
  /\ MaxId \in Nat
  /\ NoReq \notin Req
  /\ NoName \notin Bare \cup Name
  /\ NoSchema \notin Schema
  /\ Invalid \notin Args
  /\ Frames \subseteq ClientFrame
  /\ Namespaced \in [Server \X Bare -> Name]
  /\ Listings \in [Server -> SUBSET Listing]
  /\ Rehydrate \in [Args \X Schema -> Args \cup {Invalid}]
  /\ NoPrefix \in BOOLEAN /\ Checked \in BOOLEAN /\ Concurrent \in BOOLEAN
  /\ NoPrefix => NServers = 1 /\ \A b \in Bare : Namespaced[<<0, b>>] = b
  /\ Mortal \subseteq Server

-----------------------------------------------------------------------------
(* An upstream's response: who gave it, to which request (neither is in    *)
(* the frame: they record where the content comes from), and the tools it  *)
(* lists.  An error answer, or one without result.tools, lists none.       *)
Response  == [from : Server, req : Req \cup {NoReq}, list : Listing]
NoAnswer  == [from |-> 0, req |-> NoReq, list |-> NoTools]
Answers   == [Server -> Response]
NoAnswers == [s \in Server |-> NoAnswer]

(* What to do with the response to an id: enum PendingResp, or no entry.   *)
Forward(r) == [type |-> "forward", req |-> r]
Member(f)  == [type |-> "member", fan |-> f]
NoEntry    == [type |-> "none"]
PendingResp ==
  [type : {"forward"}, req : Req] \cup [type : {"member"}, fan : Id] \cup {NoEntry}

(* struct FanOut; NoFanOut stands for an absent key.  Taken is what        *)
(* mem::take and mem::replace leave behind until the key is removed.       *)
FanOut == [kind : FanMethod \cup {"none"}, client : Req \cup {NoReq},
           remaining : 0 .. NServers, collected : Answers]
NoFanOut == [kind |-> "none", client |-> NoReq, remaining |-> 0, collected |-> NoAnswers]
Taken    == [kind |-> "tools/list", client |-> NoReq, remaining |-> 0,
             collected |-> NoAnswers]

(* struct ToolRoute; NoRoute stands for an absent key.                     *)
ToolRoute == [srv : Server, tool : Bare]
NoRoute   == [srv |-> -1, tool |-> NoName]

(* A request frame on the wire to an upstream.                             *)
Upcall == [id : Id, req : Req, tool : Bare \cup Name \cup {NoName}, args : Args]

(* A frame to the client: the response of one upstream, the merge of all   *)
(* of them, or a local Invalid params error.                               *)
Reply == [to : Req, type : {"result", "merged", "invalid"}, answers : Answers]

(* Local variables of collect_fanout and merge_tools_list in the reader    *)
(* task of an upstream: tools still to be recorded, and the one that is in *)
(* the ledger but not in the routing table yet.                            *)
Collector == [pc : {"read", "close", "merge", "route"}, fan : Id \cup {0},
              kind : FanMethod \cup {"none"}, client : Req \cup {NoReq},
              collected : Answers, todo : SUBSET (Server \X Bare),
              cur : SUBSET (Server \X Bare)]
Reading   == [pc |-> "read", fan |-> 0, kind |-> "none", client |-> NoReq,
              collected |-> NoAnswers, todo |-> {}, cur |-> {}]

VARIABLES
  frame,     \* what each client request says
  pc, loc,   \* control point and local variables of the handler of a request
  nextId,    \* upstream_next_id
  pending,   \* upstream_pending
  fanNext,   \* fanout_next_id
  fanouts,   \* fanouts
  routing,   \* routing
  ledger,    \* the schema ledger
  toClient,  \* every frame sent on the to_client channel, in order
  sent,      \* every request frame put on each to_upstream channel
  up,        \* the reader task of each upstream
  silent,    \* upstreams that answer nothing any more
  closed     \* upstreams whose writer task has ended: the channel is closed

handlerVars == <<frame, pc, loc>>
idVars      == <<nextId, pending>>
fanVars     == <<fanNext, fanouts>>
toolVars    == <<routing, ledger>>
wireVars    == <<toClient, sent>>
vars == <<frame, pc, loc, nextId, pending, fanNext, fanouts, routing, ledger,
          toClient, sent, up, silent, closed>>

Local == [srv : Server, id : Id \cup {0}, fan : Id \cup {0},
          tool : Bare \cup Name \cup {NoName}, args : Args]

(* Every variable holds a value of the code's type for it.                 *)
TypeOK ==
  /\ frame \in [Req -> Frames]
  /\ pc \in [Req -> {"new", "validate", "reject", "register", "send", "done"}]
  /\ loc \in [Req -> Local]
  /\ nextId \in [Server -> 1 .. MaxId + 1]
  /\ pending \in [Server -> [Id -> PendingResp]]
  /\ fanNext \in 1 .. MaxId + 1
  /\ fanouts \in [Id -> FanOut]
  /\ routing \in [Name -> ToolRoute \cup {NoRoute}]
  /\ ledger \in [Name -> Schema \cup {NoSchema}]
  /\ toClient \in Seq(Reply)
  /\ sent \in [Server -> SUBSET Upcall]
  /\ up \in [Server -> Collector]
  /\ silent \subseteq Mortal /\ closed \subseteq Mortal

Init ==
  /\ frame \in [Req -> Frames]
  /\ pc = [r \in Req |-> "new"]
  /\ loc = [r \in Req |-> [srv |-> 0, id |-> 0, fan |-> 0, tool |-> NoName,
                           args |-> frame[r].args]]
  /\ nextId = [s \in Server |-> 1]
  /\ pending = [s \in Server |-> [i \in Id |-> NoEntry]]
  /\ fanNext = 1
  /\ fanouts = [f \in Id |-> NoFanOut]
  /\ routing = [n \in Name |-> NoRoute]
  /\ ledger = [n \in Name |-> NoSchema]
  /\ toClient = <<>>
  /\ sent = [s \in Server |-> {}]
  /\ up = [s \in Server |-> Reading]
  /\ silent = {} /\ closed = {}

Replied(r) == \E i \in DOMAIN toClient : toClient[i].to = r
IsFan(r)   == frame[r].method \in FanMethod

-----------------------------------------------------------------------------
(* The client's side: on_client_frame.  In stdio mode one task reads the   *)
(* frames and handles each to its end before the next.                     *)

CanStart(r) ==
  /\ pc[r] = "new"
  /\ Concurrent \/ \A q \in Req : pc[q] \in {"new", "done"}

(* A call is turned down: reply_invalid_params is still to come ...        *)
Reject(r) ==
  /\ pc' = [pc EXCEPT ![r] = "reject"]
  /\ UNCHANGED <<frame, loc, idVars, fanVars, toolVars, wireVars, up, silent, closed>>

(* ... and sends the error, whatever the maps say by then.                 *)
ReplyInvalid(r) ==
  /\ pc[r] = "reject"
  /\ toClient' = Append(toClient, [to |-> r, type |-> "invalid", answers |-> NoAnswers])
  /\ pc' = [pc EXCEPT ![r] = "done"]
  /\ UNCHANGED <<frame, loc, sent, idVars, fanVars, toolVars, up, silent, closed>>

(* Bug: the last upstream is not waited for.                               *)
NewFanOutOneShort(r) ==
  [kind |-> frame[r].method, client |-> r, remaining |-> NServers - 1,
   collected |-> NoAnswers]

(* The slots of a fan-out as it starts: every upstream is waited for.      *)
NewFanOut(r) ==
  [kind |-> frame[r].method, client |-> r, remaining |-> NServers,
   collected |-> NoAnswers]

OpenFanout(r) ==
  /\ CanStart(r) /\ IsFan(r) /\ fanNext <= MaxId
  /\ fanouts' = [fanouts EXCEPT ![fanNext] = NewFanOut(r)]
  /\ fanNext' = fanNext + 1
  /\ loc' = [loc EXCEPT ![r].fan = fanNext]
  /\ pc' = [pc EXCEPT ![r] = "register"]
  /\ UNCHANGED <<frame, idVars, toolVars, wireVars, up, silent, closed>>

(* Unrecognized requests go to server 0.                                   *)
ForwardOther(r) ==
  /\ CanStart(r) /\ frame[r].method = "other"
  /\ pc' = [pc EXCEPT ![r] = "register"]
  /\ UNCHANGED <<frame, loc, idVars, fanVars, toolVars, wireVars, up, silent, closed>>

(* Which upstream owns a tool: the routing table's answer, or, when names  *)
(* are not prefixed, the one upstream there is.                            *)
RouteOf(n) ==
  IF routing[n] = NoRoute /\ NoPrefix THEN [srv |-> 0, tool |-> n] ELSE routing[n]

IsNamedCall(r) == frame[r].method = "tools/call" /\ frame[r].name # NoName

RejectNameless(r) ==
  /\ CanStart(r) /\ frame[r].method = "tools/call" /\ frame[r].name = NoName
  /\ Reject(r)

RejectUnknown(r) ==
  /\ CanStart(r) /\ IsNamedCall(r) /\ RouteOf(frame[r].name) = NoRoute
  /\ Reject(r)

(* Bug: the prefix is not stripped.                                        *)
ResolvePrefixed(r) ==
  /\ CanStart(r) /\ IsNamedCall(r)
  /\ LET route == RouteOf(frame[r].name) IN
       /\ route # NoRoute
       /\ loc' = [loc EXCEPT ![r].srv = route.srv, ![r].tool = frame[r].name]
  /\ pc' = [pc EXCEPT ![r] = "validate"]
  /\ UNCHANGED <<frame, idVars, fanVars, toolVars, wireVars, up, silent, closed>>

Resolve(r) ==
  /\ CanStart(r) /\ IsNamedCall(r)
  /\ LET route == RouteOf(frame[r].name) IN
       /\ route # NoRoute
       /\ loc' = [loc EXCEPT ![r].srv = route.srv, ![r].tool = route.tool]
  /\ pc' = [pc EXCEPT ![r] = "validate"]
  /\ UNCHANGED <<frame, idVars, fanVars, toolVars, wireVars, up, silent, closed>>

(* Validation reads the ledger after, and apart from, the routing lookup.  *)
SchemaInForce(r) == IF Checked THEN ledger[frame[r].name] ELSE NoSchema
Rehydrated(r)    == Rehydrate[<<frame[r].args, SchemaInForce(r)>>]

PassUnchecked(r) ==
  /\ pc[r] = "validate" /\ SchemaInForce(r) = NoSchema
  /\ pc' = [pc EXCEPT ![r] = "register"]
  /\ UNCHANGED <<frame, loc, idVars, fanVars, toolVars, wireVars, up, silent, closed>>

PassRehydrated(r) ==
  /\ pc[r] = "validate" /\ SchemaInForce(r) # NoSchema /\ Rehydrated(r) # Invalid
  /\ loc' = [loc EXCEPT ![r].args = Rehydrated(r)]
  /\ pc' = [pc EXCEPT ![r] = "register"]
  /\ UNCHANGED <<frame, idVars, fanVars, toolVars, wireVars, up, silent, closed>>

RejectArgs(r) ==
  /\ pc[r] = "validate" /\ SchemaInForce(r) # NoSchema /\ Rehydrated(r) = Invalid
  /\ Reject(r)

(* Draw an id of the upstream and note what its response is for.           *)
EntryFor(r) == IF IsFan(r) THEN Member(loc[r].fan) ELSE Forward(r)

(* Bug: the counter is loaded, not incremented.                            *)
RegisterSameId(r) ==
  LET s == loc[r].srv IN
  /\ pc[r] = "register" /\ nextId[s] <= MaxId
  /\ pending' = [pending EXCEPT ![s][nextId[s]] = EntryFor(r)]
  /\ loc' = [loc EXCEPT ![r].id = nextId[s]]
  /\ pc' = [pc EXCEPT ![r] = "send"]
  /\ UNCHANGED <<frame, nextId, fanVars, toolVars, wireVars, up, silent, closed>>

Register(r) ==
  LET s == loc[r].srv IN
  /\ pc[r] = "register" /\ nextId[s] <= MaxId
  /\ pending' = [pending EXCEPT ![s][nextId[s]] = EntryFor(r)]
  /\ loc' = [loc EXCEPT ![r].id = nextId[s]]
  /\ nextId' = [nextId EXCEPT ![s] = @ + 1]
  /\ pc' = [pc EXCEPT ![r] = "send"]
  /\ UNCHANGED <<frame, fanVars, toolVars, wireVars, up, silent, closed>>

(* Bug: the loop over the upstreams ends one too soon.                     *)
MoreToDoOneShort(r) == IsFan(r) /\ loc[r].srv < NServers - 2

(* A fan-out goes on to the next upstream until it has been to all.        *)
MoreToDo(r) == IsFan(r) /\ loc[r].srv < NServers - 1

Upcalled(r) ==
  [id |-> loc[r].id, req |-> r, tool |-> loc[r].tool, args |-> loc[r].args]

(* tx.send fails when the writer task has ended, and the error is ignored: *)
(* the frame is lost, the entry stays, and the handler goes on as usual.   *)
Enqueue(r) ==
  LET s == loc[r].srv IN
  sent' = IF s \in closed THEN sent ELSE [sent EXCEPT ![s] = @ \cup {Upcalled(r)}]

(* Bug: a request that is not fanned out is retried.                       *)
SendAgain(r) ==
  /\ pc[r] = "send"
  /\ Enqueue(r)
  /\ loc' = [loc EXCEPT ![r].srv = IF MoreToDo(r) THEN @ + 1 ELSE @]
  /\ pc' = [pc EXCEPT ![r] = IF MoreToDo(r) \/ ~IsFan(r) THEN "register" ELSE "done"]
  /\ UNCHANGED <<frame, idVars, fanVars, toolVars, toClient, up, silent, closed>>

Send(r) ==
  /\ pc[r] = "send"
  /\ Enqueue(r)
  /\ loc' = [loc EXCEPT ![r].srv = IF MoreToDo(r) THEN @ + 1 ELSE @]
  /\ pc' = [pc EXCEPT ![r] = IF MoreToDo(r) THEN "register" ELSE "done"]
  /\ UNCHANGED <<frame, idVars, fanVars, toolVars, toClient, up, silent, closed>>

-----------------------------------------------------------------------------
(* The upstreams' side: on_upstream_frame.  An upstream may answer any     *)
(* frame it was sent, in any order and more than once; a response whose id *)
(* has no entry is dropped, which changes nothing.                         *)

Answer(s, q) ==
  [from : {s}, req : {q.req},
   list : IF frame[q.req].method = "tools/list" THEN Listings[s] ELSE {NoTools}]

Answered(s, q, type) ==
  /\ up[s].pc = "read" /\ s \notin silent
  /\ q \in sent[s] /\ pending[s][q.id].type = type

(* Bug: the entry is read, not removed.                                    *)
ReadEntry(s, i) == pending' = pending

RemoveEntry(s, i) == pending' = [pending EXCEPT ![s][i] = NoEntry]

ForwardReply(s, q) ==
  /\ Answered(s, q, "forward")
  /\ \E resp \in Answer(s, q) :
       toClient' = Append(toClient, [to |-> pending[s][q.id].req, type |-> "result",
                                     answers |-> [NoAnswers EXCEPT ![s] = resp]])
  /\ RemoveEntry(s, q.id)
  /\ UNCHANGED <<handlerVars, nextId, fanVars, toolVars, sent, up, silent, closed>>

(* collect_fanout under the fan-out's lock.  No fan-out under the key: the *)
(* response is dropped (FanOutAccounting shows that this never happens).   *)
Collect(s, q) ==
  LET f == pending[s][q.id].fan IN
  /\ Answered(s, q, "member")
  /\ fanouts[f] = NoFanOut \/ fanouts[f].remaining > 1
  /\ \E resp \in Answer(s, q) :
       fanouts' = IF fanouts[f] = NoFanOut THEN fanouts
                  ELSE [fanouts EXCEPT ![f].collected[s] = resp, ![f].remaining = @ - 1]
  /\ RemoveEntry(s, q.id)
  /\ UNCHANGED <<handlerVars, nextId, fanNext, toolVars, wireVars, up, silent, closed>>

(* The last one in takes the data out, still under the lock (remaining     *)
(* saturates at 0, so one that came after it would do so again).           *)
CollectLast(s, q) ==
  LET f  == pending[s][q.id].fan
      fo == fanouts[f]
  IN
  /\ Answered(s, q, "member")
  /\ fo # NoFanOut /\ fo.remaining <= 1
  /\ \E resp \in Answer(s, q) :
       up' = [up EXCEPT ![s] =
               [Reading EXCEPT !.pc = "close", !.fan = f, !.kind = fo.kind,
                               !.client = fo.client,
                               !.collected = [fo.collected EXCEPT ![s] = resp]]]
  /\ fanouts' = [fanouts EXCEPT ![f] = Taken]
  /\ RemoveEntry(s, q.id)
  /\ UNCHANGED <<handlerVars, nextId, fanNext, toolVars, wireVars, silent, closed>>

(* Every tool that an answer lists.                                        *)
Listed(answers) == {p \in Server \X Bare : answers[p[1]].list[p[2]] # NoSchema}

(* Bug: the finished fan-out is left in the map.                           *)
CloseKeeping(s) ==
  /\ up[s].pc = "close"
  /\ up' = [up EXCEPT ![s].pc = "merge",
                      ![s].todo = IF up[s].kind = "tools/list"
                                  THEN Listed(up[s].collected) ELSE {}]
  /\ UNCHANGED <<handlerVars, idVars, fanVars, toolVars, wireVars, silent, closed>>

Close(s) ==
  /\ up[s].pc = "close"
  /\ fanouts' = [fanouts EXCEPT ![up[s].fan] = NoFanOut]
  /\ up' = [up EXCEPT ![s].pc = "merge",
                      ![s].todo = IF up[s].kind = "tools/list"
                                  THEN Listed(up[s].collected) ELSE {}]
  /\ UNCHANGED <<handlerVars, idVars, fanNext, toolVars, wireVars, silent, closed>>

(* Bug: a schema once recorded is not overwritten.                         *)
RecordOnce(s) ==
  /\ up[s].pc = "merge"
  /\ \E p \in up[s].todo :
       /\ \A o \in up[s].todo : p[1] <= o[1]
       /\ ledger' = [ledger EXCEPT ![Namespaced[p]] =
                       IF @ = NoSchema THEN up[s].collected[p[1]].list[p[2]] ELSE @]
       /\ up' = [up EXCEPT ![s].pc = "route", ![s].todo = @ \ {p}, ![s].cur = {p}]
  /\ UNCHANGED <<handlerVars, idVars, fanVars, routing, wireVars, silent, closed>>

(* Bug: the schema is recorded under the bare name.                        *)
RecordBare(s) ==
  /\ up[s].pc = "merge"
  /\ \E p \in up[s].todo :
       /\ \A o \in up[s].todo : p[1] <= o[1]
       /\ ledger' = [n \in Name |-> IF n = p[2] THEN up[s].collected[p[1]].list[p[2]]
                                    ELSE ledger[n]]
       /\ up' = [up EXCEPT ![s].pc = "route", ![s].todo = @ \ {p}, ![s].cur = {p}]
  /\ UNCHANGED <<handlerVars, idVars, fanVars, routing, wireVars, silent, closed>>

(* merge_tools_list, by server: a tool's schema goes to the ledger ...     *)
Record(s) ==
  /\ up[s].pc = "merge"
  /\ \E p \in up[s].todo :
       /\ \A o \in up[s].todo : p[1] <= o[1]
       /\ ledger' = [ledger EXCEPT ![Namespaced[p]] = up[s].collected[p[1]].list[p[2]]]
       /\ up' = [up EXCEPT ![s].pc = "route", ![s].todo = @ \ {p}, ![s].cur = {p}]
  /\ UNCHANGED <<handlerVars, idVars, fanVars, routing, wireVars, silent, closed>>

(* ... and then its route to the routing table.                            *)
Route(s) ==
  /\ up[s].pc = "route"
  /\ \E p \in up[s].cur :
       routing' = [routing EXCEPT ![Namespaced[p]] = [srv |-> p[1], tool |-> p[2]]]
  /\ up' = [up EXCEPT ![s].pc = "merge", ![s].cur = {}]
  /\ UNCHANGED <<handlerVars, idVars, fanVars, ledger, wireVars, silent, closed>>

(* Bug: the reply is sent while tools are still to be routed.              *)
SendMergedEarly(s) ==
  /\ up[s].pc = "merge"
  /\ toClient' = Append(toClient, [to |-> up[s].client, type |-> "merged",
                                   answers |-> up[s].collected])
  /\ up' = [up EXCEPT ![s] = Reading]
  /\ UNCHANGED <<handlerVars, idVars, fanVars, toolVars, sent, silent, closed>>

SendMerged(s) ==
  /\ up[s].pc = "merge" /\ up[s].todo = {}
  /\ toClient' = Append(toClient, [to |-> up[s].client, type |-> "merged",
                                   answers |-> up[s].collected])
  /\ up' = [up EXCEPT ![s] = Reading]
  /\ UNCHANGED <<handlerVars, idVars, fanVars, toolVars, sent, silent, closed>>

(* An upstream dies, closes its output or hangs, and nobody tells the      *)
(* router.  Frames are still put on its channel, until a write fails.      *)
Crash(s) ==
  /\ s \in Mortal \ silent
  /\ silent' = silent \cup {s}
  /\ UNCHANGED <<handlerVars, idVars, fanVars, toolVars, wireVars, up, closed>>

(* A write to an upstream that has exited, or has closed its input, fails  *)
(* (the write of a notification perhaps): write_pump returns, and with it  *)
(* go the channel's receiver and the frames that are still in it.          *)
WriterEnds(s) ==
  /\ s \in Mortal \ closed
  /\ closed' = closed \cup {s}
  /\ UNCHANGED <<handlerVars, idVars, fanVars, toolVars, wireVars, up, silent>>

Fail(s) == Crash(s) \/ WriterEnds(s)

-----------------------------------------------------------------------------
Start(r) ==
  OpenFanout(r) \/ ForwardOther(r) \/ RejectNameless(r) \/ RejectUnknown(r) \/ Resolve(r)

Handle(r) ==
  PassUnchecked(r) \/ PassRehydrated(r) \/ RejectArgs(r) \/ ReplyInvalid(r)
  \/ Register(r) \/ Send(r)

Respond(s, q) == ForwardReply(s, q) \/ Collect(s, q) \/ CollectLast(s, q)

Merge(s) == Close(s) \/ Record(s) \/ Route(s) \/ SendMerged(s)

Next ==
  \/ \E r \in Req : Start(r) \/ Handle(r)
  \/ \E s \in Server : Merge(s) \/ Fail(s) \/ \E q \in sent[s] : Respond(s, q)

Spec == Init /\ [][Next]_vars

(* The runtime runs every task that is ready; an upstream that is not      *)
(* silent answers every request it was sent, while its writer runs.  The   *)
(* client need not start anything, and no upstream has to die.             *)
Fairness ==
  /\ \A r \in Req : WF_vars(Handle(r))
  /\ \A s \in Server : WF_vars(Merge(s))
  /\ \A s \in Server, r \in Req :
       WF_vars(s \notin closed /\ \E q \in sent[s] : q.req = r /\ Respond(s, q))

FairSpec == Spec /\ Fairness

-----------------------------------------------------------------------------
(* Properties.                                                             *)

(* A request gets one reply at most, however often and in whatever order   *)
(* the upstreams answer and however the reader tasks interleave.           *)
AtMostOneReply ==
  \A i, j \in DOMAIN toClient : toClient[i].to = toClient[j].to => i = j

(* Id translation (router.rs:9-13): a response is handed to the client     *)
(* whose request it answers, and comes from the upstream that request was  *)
(* routed to.                                                              *)
ReplyIsOwn ==
  \A i \in DOMAIN toClient : toClient[i].type = "result" =>
    LET r == toClient[i].to
        s == loc[r].srv
    IN  /\ ~IsFan(r)
        /\ toClient[i].answers[s].req = r /\ toClient[i].answers[s].from = s
        /\ \A t \in Server \ {s} : toClient[i].answers[t] = NoAnswer

(* Every slot holds the answer of its upstream to request r.               *)
IsFull(answers, r) == \A s \in Server : answers[s].req = r /\ answers[s].from = s

(* Fan-out tracking (router.rs:15-19): a merged reply holds every          *)
(* upstream's own answer to this very request, each in its slot.           *)
MergedReplyIsComplete ==
  \A i \in DOMAIN toClient : toClient[i].type = "merged" =>
    LET r == toClient[i].to IN
    r \in Req /\ IsFan(r) /\ IsFull(toClient[i].answers, r)

IsOpen(f) == fanouts[f] \notin {NoFanOut, Taken}

(* While a fan-out is open its counter is the number of its empty slots,   *)
(* and a pending member is one of an open fan-out, waits for an empty slot *)
(* and is the only one to do so: no count is lost or taken twice, so the   *)
(* early returns of collect_fanout are never taken.                        *)
FanOutAccounting ==
  /\ \A f \in Id : IsOpen(f) =>
       fanouts[f].remaining = Cardinality({s \in Server : fanouts[f].collected[s] = NoAnswer})
  /\ \A s \in Server, i \in Id : pending[s][i].type = "member" =>
       LET f == pending[s][i].fan IN
       /\ IsOpen(f) /\ fanouts[f].collected[s] = NoAnswer
       /\ \A j \in Id : pending[s][j] = pending[s][i] => i = j

(* Once a request is answered, nothing of it is left in the maps: they do  *)
(* not grow over a long session, and no second answer can come of it.      *)
NoLeftovers ==
  \A r \in Req : Replied(r) =>
    /\ \A s \in Server, i \in Id :
         pending[s][i] # Forward(r) /\ (IsFan(r) => pending[s][i] # Member(loc[r].fan))
    /\ IsFan(r) => fanouts[loc[r].fan] = NoFanOut

(* An id in flight is not given to a second request: an entry stays as it  *)
(* was inserted until its response removes it.                             *)
EntriesAreKept ==
  [][\A s \in Server, i \in Id : pending[s][i] # NoEntry =>
        pending'[s][i] \in {pending[s][i], NoEntry}]_vars

(* A routed tool has a schema in the ledger, whichever thread looks at the *)
(* two maps in between: "forwarding without validation" (router.rs:272-275)*)
(* is out of reach of names that the router knows.                         *)
RoutedIsRecorded == \A n \in Name : routing[n] # NoRoute => ledger[n] # NoSchema

(* What the client was told of can be called: once a list is sent, each    *)
(* tool in it is routed to the upstream that listed it, under its own name *)
(* (drive_multi.py:9, "Each upstream only sees calls intended for it").    *)
AdvertisedRoutesHome ==
  \A i \in DOMAIN toClient : toClient[i].type = "merged" =>
    \A p \in Listed(toClient[i].answers) :
      routing[Namespaced[p]] = [srv |-> p[1], tool |-> p[2]]

(* A call reaches an upstream only under the name by which the client      *)
(* would know that upstream's tool, with arguments rehydrated by a schema  *)
(* that this very upstream published for it.                               *)
CallIsIntended ==
  \A s \in Server : \A q \in sent[s] : IsNamedCall(q.req) =>
    \/ NoPrefix /\ q.tool = frame[q.req].name
    \/ /\ q.tool \in Bare /\ Namespaced[<<s, q.tool>>] = frame[q.req].name
       /\ Checked => \E l \in Listings[s] :
            /\ l[q.tool] # NoSchema
            /\ q.args = Rehydrate[<<frame[q.req].args, l[q.tool]>>]
            /\ q.args # Invalid

IsList(i) == toClient[i].type = "merged" /\ frame[toClient[i].to].method = "tools/list"

(* The ledger holds the schemas of the last list that the client was sent. *)
ToldIsInForce ==
  \A i \in DOMAIN toClient :
    (IsList(i) /\ \A j \in DOMAIN toClient : j > i => ~IsList(j)) =>
      \A p \in Listed(toClient[i].answers) :
        ledger[Namespaced[p]] = toClient[i].answers[p[1]].list[p[2]]

(* The ledger is "the source of truth used to validate" (ledger.rs:21-22)  *)
(* what the agent calls "against the compacted signature" (ledger.rs:5):   *)
(* when no merge is under way, it is what the client was last told.        *)
LastListedIsInForce == (\A s \in Server : up[s].pc \in {"read", "close"}) => ToldIsInForce

Targets(r) == IF IsFan(r) THEN Server ELSE {loc[r].srv}

(* A request that the gateway has begun to handle is answered, unless an   *)
(* upstream that it was for fell silent or stopped reading; what became of *)
(* another is no excuse.                                                   *)
EveryRequestAnswered ==
  \A r \in Req :
    (pc[r] # "new") ~> (Replied(r) \/ Targets(r) \cap (silent \cup closed) # {})
=============================================================================
