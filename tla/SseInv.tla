------------------------------- MODULE SseInv -------------------------------
(***************************************************************************)
(* The inductive invariant of Sse: how the handler, the cleanup task, the  *)
(* session and the entry in the map of one connection go together, and     *)
(* that no two connections share an id.                                    *)
(***************************************************************************)
EXTENDS Sse

(* Ids are drawn in order, one by each connection.                         *)
Connected == {x \in Sess : handler[x] # "none"}

SidsAreOwn ==
  /\ nextSid = Cardinality(Connected) + 1
  /\ \A x \in Sess : handler[x] = "none" <=> sid[x] = 0
  /\ \A x \in Sess : sid[x] < nextSid
  /\ \A x, y \in Sess : sid[x] = sid[y] /\ sid[x] # 0 => x = y

(* The cleanup task starts before the handler returns and waits for the    *)
(* guard; launch and shutdown are called by the one and by the other.      *)
TasksAreInStep ==
  \A x \in Sess :
    /\ handler[x] = "none" => stage[x] = "new"
    /\ handler[x] = "launch" => stage[x] \in {"launching", "failed", "live"}
    /\ handler[x] = "failed" => stage[x] = "failed"
    /\ handler[x] \in {"none", "launch", "failed"} => cleanup[x] = "none"
    /\ handler[x] \in {"insert", "count", "streaming"} => cleanup[x] = "wait"
    /\ handler[x] = "closed" => cleanup[x] \in {"wait", "shutdown", "done"}
    /\ cleanup[x] = "wait" => stage[x] = "live"
    /\ cleanup[x] = "shutdown" => stage[x] \in {"live", "killing", "down"}
    /\ cleanup[x] = "done" => stage[x] = "down"

(* A session is in the map, under its own id, from its insertion to its    *)
(* cleanup.                                                                *)
InMap(x) == cleanup[x] = "wait" /\ handler[x] # "insert"

MapIsRight ==
  /\ \A x \in Sess : InMap(x) => sessions[sid[x]] = x
  /\ \A i \in Sid : sessions[i] # NoSess => InMap(sessions[i]) /\ sid[sessions[i]] = i

(* Launch has come to at, and so has, later, shutdown.  Before shutdown    *)
(* nobody stops a task; after it no task goes on unasked.                  *)
Unspawned(x, s) == stage[x] = "new" \/ (stage[x] = "launching" /\ s >= at[x])
Spawned(x, s) == stage[x] = "live" \/ (stage[x] = "launching" /\ s < at[x])

TaskIsInStep(x, s, task) ==
  /\ Unspawned(x, s) => task = "none"
  /\ Spawned(x, s) => task # "none"
  /\ stage[x] \in {"new", "launching", "failed", "live"} => task # "aborting"
  /\ stage[x] \in {"killing", "down"} => task = "aborting" \/ task = "ended"

ChildrenAreInStep ==
  \A x \in Sess, s \in Server :
    /\ stage[x] = "new" => at[x] = 0
    /\ Unspawned(x, s) => child[x][s] = "none"
    /\ stage[x] \in {"new", "launching", "failed", "live"} => child[x][s] # "killed"
    /\ stage[x] = "killing" /\ s < at[x] => child[x][s] # "running"
    /\ stage[x] = "down" => child[x][s] # "running"
    /\ TaskIsInStep(x, s, reader[x][s])
    /\ TaskIsInStep(x, s, writer[x][s])
    /\ stage[x] \in {"launching", "live"} /\ writer[x][s] = "ended" => s \in Brief

(* The gauge counts those that have been counted and not been cleaned up.  *)
Counted == {x \in Sess : handler[x] \in {"streaming", "closed"} /\ cleanup[x] # "done"}

(* What a POST has found is the session of its own client.                 *)
PostsAreHome ==
  \A p \in Post :
    /\ post[p].pc # "none" => handler[Home[p]] \in {"streaming", "closed"}
    /\ post[p].pc = "found" => post[p].to = Home[p]

SInv ==
  /\ TypeOK
  /\ SidsAreOwn
  /\ TasksAreInStep
  /\ MapIsRight
  /\ ChildrenAreInStep
  /\ gauge = Cardinality(Counted)
  /\ PostsAreHome
  /\ PostsReachHome
=============================================================================
