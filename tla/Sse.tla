-------------------------------- MODULE Sse --------------------------------
(***************************************************************************)
(* SSE mode (src/Shrink/src/sse.rs): each GET /sse launches a session of   *)
(* its own and spawns a task that cleans up after it; each POST looks its  *)
(* session up and hands it a frame.  Handlers and cleanup tasks run on     *)
(* several threads; a handler has no await, so it is never cancelled       *)
(* halfway.  The cleanup task waits until the guard is dropped, which is   *)
(* in the response stream from the end of the handler to the disconnect.   *)
(***************************************************************************)
EXTENDS Session

CONSTANTS
  Post,    \* the POST requests that clients make
  NoSess,  \* not a session
  Home     \* Home[p]: the connection of the client that makes p

Sid == 1 .. Cardinality(Sess)

ASSUME SseAssumption ==
  IsFiniteSet(Sess) /\ NoSess \notin Sess /\ Home \in [Post -> Sess]

VARIABLES
  handler,   \* control point of sse_handler
  sid,       \* its session_id
  cleanup,   \* control point of the cleanup task
  nextSid,   \* session_counter
  sessions,  \* sessions
  gauge,     \* active_sessions
  post       \* control point and session of message_handler

sseVars == <<handler, sid, cleanup, nextSid, sessions, gauge, post>>
vars == <<stage, at, child, reader, writer, handler, sid, cleanup, nextSid, sessions, gauge, post>>

TypeOK ==
  /\ SessionTypeOK
  /\ handler \in [Sess -> {"none", "launch", "insert", "count", "streaming",
                           "closed", "failed"}]
  /\ sid \in [Sess -> Sid \cup {0}]
  /\ cleanup \in [Sess -> {"none", "wait", "shutdown", "done"}]
  /\ nextSid \in 1 .. Cardinality(Sess) + 1
  /\ sessions \in [Sid -> Sess \cup {NoSess}]
  /\ gauge \in Int
  /\ post \in [Post -> [pc : {"none", "found", "404", "202", "lost"},
                        to : Sess \cup {NoSess}]]

Init ==
  /\ SessionInit
  /\ handler = [x \in Sess |-> "none"]
  /\ sid = [x \in Sess |-> 0]
  /\ cleanup = [x \in Sess |-> "none"]
  /\ nextSid = 1
  /\ sessions = [i \in Sid |-> NoSess]
  /\ gauge = 0
  /\ post = [p \in Post |-> [pc |-> "none", to |-> NoSess]]

-----------------------------------------------------------------------------
(* GET /sse: sse_handler.                                                  *)

(* Bug: the counter is loaded, not incremented.                            *)
ConnectSameId(x) ==
  /\ handler[x] = "none"
  /\ sid' = [sid EXCEPT ![x] = nextSid]
  /\ handler' = [handler EXCEPT ![x] = "launch"]
  /\ Launch(x)
  /\ UNCHANGED <<cleanup, nextSid, sessions, gauge, post>>

Connect(x) ==
  /\ handler[x] = "none"
  /\ sid' = [sid EXCEPT ![x] = nextSid]
  /\ nextSid' = nextSid + 1
  /\ handler' = [handler EXCEPT ![x] = "launch"]
  /\ Launch(x)
  /\ UNCHANGED <<cleanup, sessions, gauge, post>>

Spawn(x) == Launching(x) /\ UNCHANGED sseVars

(* The client gets an error frame on a stream without a guard.             *)
GiveUp(x) ==
  /\ handler[x] = "launch" /\ stage[x] = "failed"
  /\ handler' = [handler EXCEPT ![x] = "failed"]
  /\ UNCHANGED <<sessionVars, sid, cleanup, nextSid, sessions, gauge, post>>

SpawnCleanup(x) ==
  /\ handler[x] = "launch" /\ stage[x] = "live"
  /\ cleanup' = [cleanup EXCEPT ![x] = "wait"]
  /\ handler' = [handler EXCEPT ![x] = "insert"]
  /\ UNCHANGED <<sessionVars, sid, nextSid, sessions, gauge, post>>

Insert(x) ==
  /\ handler[x] = "insert"
  /\ sessions' = [sessions EXCEPT ![sid[x]] = x]
  /\ handler' = [handler EXCEPT ![x] = "count"]
  /\ UNCHANGED <<sessionVars, sid, cleanup, nextSid, gauge, post>>

(* session_start; the handler returns the stream, whose first event tells  *)
(* the client where to POST.                                               *)
Count(x) ==
  /\ handler[x] = "count"
  /\ gauge' = gauge + 1
  /\ handler' = [handler EXCEPT ![x] = "streaming"]
  /\ UNCHANGED <<sessionVars, sid, cleanup, nextSid, sessions, post>>

(* The client goes away: the stream is dropped, and the guard with it.     *)
Disconnect(x) ==
  /\ handler[x] = "streaming"
  /\ handler' = [handler EXCEPT ![x] = "closed"]
  /\ UNCHANGED <<sessionVars, sid, cleanup, nextSid, sessions, gauge, post>>

-----------------------------------------------------------------------------
(* The cleanup task.                                                       *)

(* Bug: the guard is dropped when the handler returns, or before.          *)
AnyGuard(x) == cleanup[x] = "wait"

GuardDropped(x) == cleanup[x] = "wait" /\ handler[x] = "closed"

RemoveSession(x) ==
  /\ GuardDropped(x)
  /\ sessions' = [sessions EXCEPT ![sid[x]] = NoSess]
  /\ cleanup' = [cleanup EXCEPT ![x] = "shutdown"]
  /\ UNCHANGED <<sessionVars, handler, sid, nextSid, gauge, post>>

Abort(x) == cleanup[x] = "shutdown" /\ AbortPumps(x) /\ UNCHANGED sseVars
Kill(x)  == (KillChild(x) \/ ShutDown(x)) /\ UNCHANGED sseVars

(* Bug: a session that ends is not counted down.                           *)
EndUncounted(x) ==
  /\ cleanup[x] = "shutdown" /\ stage[x] = "down"
  /\ cleanup' = [cleanup EXCEPT ![x] = "done"]
  /\ UNCHANGED <<sessionVars, handler, sid, nextSid, sessions, gauge, post>>

End(x) ==
  /\ cleanup[x] = "shutdown" /\ stage[x] = "down"
  /\ gauge' = gauge - 1
  /\ cleanup' = [cleanup EXCEPT ![x] = "done"]
  /\ UNCHANGED <<sessionVars, handler, sid, nextSid, sessions, post>>

-----------------------------------------------------------------------------
(* POST /messages: message_handler, by a client that was told its id.      *)

Lookup(p) ==
  LET found == sessions[sid[Home[p]]] IN
  /\ post[p].pc = "none" /\ handler[Home[p]] \in {"streaming", "closed"}
  /\ post' = [post EXCEPT ![p] = [pc |-> IF found = NoSess THEN "404" ELSE "found",
                                  to |-> found]]
  /\ UNCHANGED <<sessionVars, handler, sid, cleanup, nextSid, sessions, gauge>>

(* The frame goes on a channel to an upstream.  Once the writer task is    *)
(* over the channel has no receiver, and the error is ignored.             *)
Writes(x, s) == writer[x][s] \in {"running", "aborting"}

Dispatch(p) ==
  /\ post[p].pc = "found"
  /\ \E s \in Server :
       post' = [post EXCEPT ![p].pc = IF Writes(post[p].to, s) THEN "202" ELSE "lost"]
  /\ UNCHANGED <<sessionVars, handler, sid, cleanup, nextSid, sessions, gauge>>

-----------------------------------------------------------------------------
Handle(x) == Spawn(x) \/ GiveUp(x) \/ SpawnCleanup(x) \/ Insert(x) \/ Count(x)
Cleanup(x) == RemoveSession(x) \/ Abort(x) \/ Kill(x) \/ End(x)


(* What children and pump tasks do on their own.                           *)
Ends(x, s) ==
  (ChildExits(x, s) \/ ReaderEnds(x, s) \/ WriterEnds(x, s)) /\ UNCHANGED sseVars
Stops(x, s) == (ReaderStops(x, s) \/ WriterStops(x, s)) /\ UNCHANGED sseVars

Next ==
  \/ \E x \in Sess : Connect(x) \/ Handle(x) \/ Disconnect(x) \/ Cleanup(x)
  \/ \E x \in Sess, s \in Server : Ends(x, s) \/ Stops(x, s)
  \/ \E p \in Post : Lookup(p) \/ Dispatch(p)

Spec == Init /\ [][Next]_vars

(* The runtime runs every task that is ready, drops one that was asked to  *)
(* stop when it next yields, and kill ends a child.                        *)
Fairness ==
  /\ \A x \in Sess : WF_vars(Handle(x)) /\ WF_vars(Cleanup(x))
  /\ \A x \in Sess, s \in Server : WF_vars(Stops(x, s))

FairSpec == Spec /\ Fairness

-----------------------------------------------------------------------------
(* Properties.                                                             *)

(* As long as a client is connected, its session is in the map under the   *)
(* id that the client was told, nobody stops its pumps or kills its        *)
(* children, and it is counted, so the gauge never falls below zero.       *)
OpenSessionIsServed ==
  /\ \A x \in Sess : handler[x] = "streaming" =>
       /\ sessions[sid[x]] = x
       /\ \A s \in Server : /\ "aborting" \notin {reader[x][s], writer[x][s]}
                           /\ child[x][s] # "killed"
  /\ gauge >= Cardinality({x \in Sess : handler[x] = "streaming"})

(* A POST is handed to the session of the client that made it, although it *)
(* holds on to a session that may be removed meanwhile, and its frame is   *)
(* lost only if that client has gone, or if an upstream has gone or closed *)
(* its input.                                                              *)
PostsReachHome ==
  \A p \in Post :
    /\ post[p].to \in {Home[p], NoSess}
    /\ post[p].pc = "404" => handler[Home[p]] = "closed"
    /\ post[p].pc = "lost" =>
         \/ handler[Home[p]] = "closed"
         \/ \E s \in Brief : writer[Home[p]][s] = "ended"

Over(x) == handler[x] \in {"none", "failed"} \/ cleanup[x] = "done"

(* Nobody has stopped it, or told it to stop.                              *)
StillRuns(x) == \E s \in Server : "running" \in {child[x][s], reader[x][s], writer[x][s]}

(* When all connections are over nothing is left of those that were set    *)
(* up: no child of theirs runs, no pump task goes on that nobody asked to  *)
(* stop, no session is in the map, and the gauge is back at zero.          *)
NothingIsLeft ==
  (\A x \in Sess : Over(x)) =>
    /\ gauge = 0 /\ \A i \in Sid : sessions[i] = NoSess
    /\ \A x \in Sess : cleanup[x] = "done" => ~StillRuns(x)

(* "When the session ends", shutdown "aborts the tasks and kills every     *)
(* upstream child process" (session.rs:25-26): what launch has spawned     *)
(* does not outlive the connection it was spawned for.                     *)
NoOrphans == \A x \in Sess : Over(x) => ~StillRuns(x)

(* Every connection that its client closes is cleaned up in the end, and   *)
(* all of its pump tasks stop.                                             *)
Stopped(x) == \A s \in Server : reader[x][s] = "ended" /\ writer[x][s] = "ended"

ClosedIsCleanedUp ==
  \A x \in Sess : handler[x] = "closed" ~> cleanup[x] = "done" /\ Stopped(x)
=============================================================================
