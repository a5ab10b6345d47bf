----------------------------- MODULE SseProofs -----------------------------
(***************************************************************************)
(* Proofs about Sse, for any number of connections, upstreams and POSTs.   *)
(* SInv (SseInv) is inductive: there is one lemma for each action, with    *)
(* one step for each conjunct that the action can disturb.                 *)
(***************************************************************************)
EXTENDS SseInv, TLAPS, FiniteSetTheorems

(* The sets that are counted are finite, and no larger than all sessions.  *)
LEMMA Finite ==
  /\ IsFiniteSet(Connected) /\ IsFiniteSet(Counted)
  /\ Cardinality(Connected) \in Nat /\ Cardinality(Counted) \in Nat
  /\ Cardinality(Sess) \in Nat
<1>1. IsFiniteSet(Connected) /\ IsFiniteSet(Counted) /\ IsFiniteSet(Sess)
  BY SseAssumption, FS_Subset DEF Connected, Counted
<1> QED
  BY <1>1, FS_CardinalityType

(* There are ids for all connections.                                      *)
LEMMA IdsSuffice ==
  ASSUME SidsAreOwn, NEW x \in Sess, handler[x] = "none"
  PROVE  nextSid \in Sid /\ Cardinality(Connected \cup {x}) = Cardinality(Connected) + 1
<1>1. x \notin Connected /\ Connected \cup {x} \subseteq Sess
  BY DEF Connected
<1>2. Cardinality(Connected \cup {x}) = Cardinality(Connected) + 1
  BY <1>1, Finite, FS_AddElement
<1>3. Cardinality(Connected \cup {x}) <= Cardinality(Sess)
  BY <1>1, SseAssumption, FS_Subset
<1> QED
  BY <1>2, <1>3, Finite DEF SidsAreOwn, Sid

(* At first nobody is connected.                                           *)
LEMMA InitSInv == Init => SInv
<1> SUFFICES ASSUME Init PROVE SInv
  OBVIOUS
<1> USE DEF Init, SessionInit
<1>1. Connected = {} /\ Counted = {} /\ Cardinality({}) = 0
  BY FS_EmptySet DEF Connected, Counted
<1>2. TypeOK
  BY SseAssumption, SessionAssumption, Finite DEF TypeOK, SessionTypeOK, Task
<1>3. SidsAreOwn
  BY <1>1 DEF SidsAreOwn
<1>4. TasksAreInStep
  BY DEF TasksAreInStep
<1>5. MapIsRight
  BY DEF MapIsRight, InMap
<1>6. ChildrenAreInStep
  BY SessionAssumption DEF ChildrenAreInStep, TaskIsInStep, Unspawned, Spawned, Server
<1>7. PostsAreHome /\ PostsReachHome
  BY DEF PostsAreHome, PostsReachHome
<1> QED
  BY <1>1, <1>2, <1>3, <1>4, <1>5, <1>6, <1>7 DEF SInv

-----------------------------------------------------------------------------
(* Steps that leave the session alone.                                     *)

(* A connection is made: it gets an id that nobody has.                    *)
LEMMA ConnectStep ==
  ASSUME SInv, NEW x \in Sess, Connect(x) PROVE SInv'
<1> USE DEF Connect, Launch
<1>0. TypeOK /\ SidsAreOwn /\ TasksAreInStep /\ handler[x] = "none" /\ sid[x] = 0
  BY DEF SInv, SidsAreOwn
<1>1. nextSid \in Sid /\ Cardinality(Connected \cup {x}) = nextSid
  BY <1>0, IdsSuffice DEF SidsAreOwn
<1>2. Connected' = Connected \cup {x} /\ Counted' = Counted
  BY <1>0 DEF Connected, Counted, TypeOK
<1>3. TypeOK'
  BY <1>0, <1>1, Finite DEF TypeOK, SessionTypeOK, Sid
<1>4. SidsAreOwn'
  BY <1>0, <1>1, <1>2, Finite DEF SidsAreOwn, TypeOK, Sid
<1>5. TasksAreInStep'
  BY <1>0 DEF TasksAreInStep, TypeOK, SessionTypeOK
<1>6. \A y \in Sess : InMap(y)' <=> InMap(y)
  BY <1>0 DEF InMap, TasksAreInStep, TypeOK
<1>7. MapIsRight'
  <2>1. \A y \in Sess : InMap(y) => y # x
    BY <1>0 DEF InMap, TasksAreInStep
  <2>2. \A i \in Sid : sessions[i] # NoSess => sessions[i] \in Sess
    BY <1>0 DEF TypeOK
  <2> QED
    BY <1>0, <1>6, <2>1, <2>2 DEF SInv, MapIsRight, TypeOK
<1>8. ChildrenAreInStep'
  BY <1>0, SessionAssumption
     DEF SInv, ChildrenAreInStep, TaskIsInStep, Unspawned, Spawned, TasksAreInStep, TypeOK,
         SessionTypeOK, Server
<1>9. PostsAreHome' /\ PostsReachHome'
  BY <1>0, SseAssumption DEF SInv, PostsAreHome, PostsReachHome, TypeOK
<1> QED
  BY <1>2, <1>3, <1>4, <1>5, <1>7, <1>8, <1>9 DEF SInv

(* The handler of a launched or failed session goes on, up to the          *)
(* insertion into the map, or the client of an open one goes away.         *)
LEMMA HandlerStep ==
  ASSUME SInv, NEW x \in Sess, GiveUp(x) \/ SpawnCleanup(x) \/ Disconnect(x)
  PROVE  SInv'
<1> USE DEF GiveUp, SpawnCleanup, Disconnect, sessionVars
<1>0. TypeOK /\ SidsAreOwn /\ TasksAreInStep /\ handler[x] # "none"
  BY DEF SInv
<1>1. handler'[x] # "none" /\ \A y \in Sess \ {x} : handler'[y] = handler[y]
  BY <1>0 DEF TypeOK
<1>2. Connected' = Connected /\ Counted' = Counted
  <2>1. Connected' = Connected
    BY <1>0, <1>1 DEF Connected
  <2>2. Counted' = Counted
    BY <1>0 DEF Counted, TypeOK, TasksAreInStep
  <2> QED
    BY <2>1, <2>2
<1>3. TypeOK'
  BY <1>0 DEF TypeOK, SessionTypeOK
<1>4. SidsAreOwn'
  BY <1>0, <1>1, <1>2 DEF SidsAreOwn
<1>5. TasksAreInStep'
  BY <1>0 DEF TasksAreInStep, TypeOK
<1>6. \A y \in Sess : InMap(y)' <=> InMap(y)
  BY <1>0 DEF InMap, TasksAreInStep, TypeOK
<1>7. MapIsRight'
  BY <1>0, <1>6 DEF SInv, MapIsRight, TypeOK
<1>8. ChildrenAreInStep'
  BY DEF SInv, ChildrenAreInStep, TaskIsInStep, Unspawned, Spawned
<1>9. PostsAreHome' /\ PostsReachHome'
  BY <1>0, SseAssumption DEF SInv, PostsAreHome, PostsReachHome, TypeOK
<1> QED
  BY <1>2, <1>3, <1>4, <1>5, <1>7, <1>8, <1>9 DEF SInv

(* A session is put into the map, under an id that is its own.             *)
LEMMA InsertStep ==
  ASSUME SInv, NEW x \in Sess, Insert(x) PROVE SInv'
<1> USE DEF Insert, sessionVars
<1>0. TypeOK /\ SidsAreOwn /\ TasksAreInStep /\ MapIsRight /\ handler[x] = "insert"
      /\ cleanup[x] = "wait"
  BY DEF SInv, TasksAreInStep
<1>1. sid[x] \in Sid /\ \A y \in Sess \ {x} : sid[y] # sid[x]
  BY <1>0 DEF TypeOK, SidsAreOwn
<1>2. Connected' = Connected /\ Counted' = Counted
  <2>1. Connected' = Connected
    BY <1>0 DEF Connected, TypeOK
  <2>2. Counted' = Counted
    BY <1>0 DEF Counted, TypeOK
  <2> QED
    BY <2>1, <2>2
<1>3. TypeOK'
  BY <1>0, <1>1 DEF TypeOK, SessionTypeOK
<1>4. SidsAreOwn'
  BY <1>0, <1>2 DEF SidsAreOwn, TypeOK
<1>5. TasksAreInStep'
  BY <1>0 DEF TasksAreInStep, TypeOK
<1>6. InMap(x)' /\ ~InMap(x) /\ \A y \in Sess \ {x} : InMap(y)' <=> InMap(y)
  BY <1>0 DEF InMap, TypeOK
<1>7. MapIsRight'
  <2>1. sessions'[sid[x]] = x /\ \A i \in Sid \ {sid[x]} : sessions'[i] = sessions[i]
    BY <1>0, <1>1 DEF TypeOK
  <2>2. \A y \in Sess : InMap(y) => sid[y] \in Sid \ {sid[x]}
    BY <1>0, <1>1, <1>6 DEF InMap, SidsAreOwn, TasksAreInStep, TypeOK
  <2>3. \A i \in Sid : sessions[i] # NoSess => sessions[i] \in Sess \ {x}
    BY <1>0, <1>6 DEF TypeOK, MapIsRight
  <2> QED
    BY <1>0, <1>6, <2>1, <2>2, <2>3 DEF MapIsRight
<1>8. ChildrenAreInStep'
  BY DEF SInv, ChildrenAreInStep, TaskIsInStep, Unspawned, Spawned
<1>9. PostsAreHome' /\ PostsReachHome'
  BY <1>0, SseAssumption DEF SInv, PostsAreHome, PostsReachHome, TypeOK
<1> QED
  BY <1>2, <1>3, <1>4, <1>5, <1>7, <1>8, <1>9 DEF SInv

(* A session is counted, once, and the stream handed to the client.        *)
LEMMA CountStep ==
  ASSUME SInv, NEW x \in Sess, Count(x) PROVE SInv'
<1> USE DEF Count, sessionVars
<1>0. TypeOK /\ SidsAreOwn /\ TasksAreInStep /\ handler[x] = "count" /\ cleanup[x] = "wait"
  BY DEF SInv, TasksAreInStep
<1>1. Connected' = Connected
  BY <1>0 DEF Connected, TypeOK
<1>2. gauge' = Cardinality(Counted')
  <2>1. Counted' = Counted \cup {x} /\ x \notin Counted
    BY <1>0 DEF Counted, TypeOK
  <2>2. Cardinality(Counted \cup {x}) = Cardinality(Counted) + 1
    BY <2>1, Finite, FS_AddElement
  <2> QED
    BY <2>1, <2>2 DEF SInv
<1>3. TypeOK'
  BY <1>0 DEF TypeOK, SessionTypeOK
<1>4. SidsAreOwn'
  BY <1>0, <1>1 DEF SidsAreOwn, TypeOK
<1>5. TasksAreInStep'
  BY <1>0 DEF TasksAreInStep, TypeOK
<1>6. \A y \in Sess : InMap(y)' <=> InMap(y)
  BY <1>0 DEF InMap, TypeOK
<1>7. MapIsRight'
  BY <1>0, <1>6 DEF SInv, MapIsRight, TypeOK
<1>8. ChildrenAreInStep'
  BY DEF SInv, ChildrenAreInStep, TaskIsInStep, Unspawned, Spawned
<1>9. PostsAreHome' /\ PostsReachHome'
  BY <1>0, SseAssumption DEF SInv, PostsAreHome, PostsReachHome, TypeOK
<1> QED
  BY <1>2, <1>3, <1>4, <1>5, <1>7, <1>8, <1>9 DEF SInv

(* The cleanup task takes the session out of the map, and no other.        *)
LEMMA RemoveSessionStep ==
  ASSUME SInv, NEW x \in Sess, RemoveSession(x) PROVE SInv'
<1> USE DEF RemoveSession, GuardDropped, sessionVars
<1>0. TypeOK /\ SidsAreOwn /\ TasksAreInStep /\ MapIsRight /\ handler[x] = "closed"
      /\ cleanup[x] = "wait"
  BY DEF SInv
<1>1. sid[x] \in Sid /\ \A y \in Sess \ {x} : sid[y] # sid[x]
  BY <1>0 DEF TypeOK, SidsAreOwn
<1>2. Connected' = Connected /\ Counted' = Counted
  <2>1. Connected' = Connected
    BY DEF Connected
  <2>2. Counted' = Counted
    BY <1>0 DEF Counted, TypeOK
  <2> QED
    BY <2>1, <2>2
<1>3. TypeOK'
  BY <1>0, <1>1 DEF TypeOK, SessionTypeOK
<1>4. SidsAreOwn'
  BY <1>0, <1>2 DEF SidsAreOwn
<1>5. TasksAreInStep'
  BY <1>0 DEF TasksAreInStep, TypeOK
<1>6. InMap(x) /\ ~InMap(x)' /\ \A y \in Sess \ {x} : InMap(y)' <=> InMap(y)
  BY <1>0 DEF InMap, TypeOK
<1>7. MapIsRight'
  <2>1. sessions'[sid[x]] = NoSess /\ \A i \in Sid \ {sid[x]} : sessions'[i] = sessions[i]
    BY <1>0, <1>1 DEF TypeOK
  <2>2. \A y \in Sess : InMap(y)' => y # x /\ InMap(y) /\ sid[y] \in Sid \ {sid[x]}
    BY <1>0, <1>1, <1>6 DEF InMap, SidsAreOwn, TasksAreInStep, TypeOK
  <2>3. \A i \in Sid \ {sid[x]} : sessions[i] # NoSess => sessions[i] \in Sess \ {x}
    BY <1>0 DEF TypeOK, MapIsRight
  <2> QED
    BY <1>0, <1>6, <2>1, <2>2, <2>3 DEF MapIsRight
<1>8. ChildrenAreInStep'
  BY DEF SInv, ChildrenAreInStep, TaskIsInStep, Unspawned, Spawned
<1>9. PostsAreHome' /\ PostsReachHome'
  BY DEF SInv, PostsAreHome, PostsReachHome
<1> QED
  BY <1>2, <1>3, <1>4, <1>5, <1>7, <1>8, <1>9 DEF SInv

(* The cleanup task counts the session down, once.                         *)
LEMMA EndStep ==
  ASSUME SInv, NEW x \in Sess, End(x) PROVE SInv'
<1> USE DEF End, sessionVars
<1>0. TypeOK /\ TasksAreInStep /\ handler[x] = "closed" /\ cleanup[x] = "shutdown"
  BY DEF SInv, TasksAreInStep, TypeOK
<1>1. Connected' = Connected
  BY DEF Connected
<1>2. gauge' = Cardinality(Counted')
  <2>1. Counted' = Counted \ {x} /\ x \in Counted
    BY <1>0 DEF Counted, TypeOK
  <2>2. Cardinality(Counted \ {x}) = Cardinality(Counted) - 1
    BY <2>1, Finite, FS_RemoveElement
  <2> QED
    BY <2>1, <2>2 DEF SInv
<1>3. TypeOK'
  BY <1>0 DEF TypeOK, SessionTypeOK
<1>4. SidsAreOwn'
  BY <1>1 DEF SInv, SidsAreOwn
<1>5. TasksAreInStep'
  BY <1>0 DEF TasksAreInStep, TypeOK
<1>6. \A y \in Sess : InMap(y)' <=> InMap(y)
  BY <1>0 DEF InMap, TypeOK
<1>7. MapIsRight'
  BY <1>0, <1>6 DEF SInv, MapIsRight, TypeOK
<1>8. ChildrenAreInStep'
  BY DEF SInv, ChildrenAreInStep, TaskIsInStep, Unspawned, Spawned
<1>9. PostsAreHome' /\ PostsReachHome'
  BY DEF SInv, PostsAreHome, PostsReachHome
<1> QED
  BY <1>2, <1>3, <1>4, <1>5, <1>7, <1>8, <1>9 DEF SInv

-----------------------------------------------------------------------------
(* Steps of the session, which leave the rest alone.                       *)

(* What such a step has to show.                                           *)
LEMMA SessionStep ==
  ASSUME SInv, UNCHANGED sseVars, SessionTypeOK', TasksAreInStep', ChildrenAreInStep',
         \A y \in Sess, s \in Server : writer[y][s] = "ended" => writer'[y][s] = "ended"
  PROVE  SInv'
<1> USE DEF sseVars
<1>1. TypeOK'
  BY DEF SInv, TypeOK
<1>2. Connected' = Connected /\ Counted' = Counted
  BY DEF Connected, Counted
<1>3. SidsAreOwn'
  BY <1>2 DEF SInv, SidsAreOwn
<1>4. MapIsRight'
  BY DEF SInv, MapIsRight, InMap
<1>5. PostsAreHome' /\ PostsReachHome'
  BY SseAssumption, SessionAssumption DEF SInv, PostsAreHome, PostsReachHome
<1> QED
  BY <1>1, <1>2, <1>3, <1>4, <1>5 DEF SInv

(* launch goes on to the next upstream, fails, or has come to the last.    *)
LEMMA SpawnStep ==
  ASSUME SInv, NEW x \in Sess, Spawn(x) PROVE SInv'
<1> USE DEF SpawnChild, SpawnFails, Launched
<1>0. TypeOK /\ SessionTypeOK /\ TasksAreInStep /\ ChildrenAreInStep /\ UNCHANGED sseVars
      /\ Launching(x)
  BY DEF SInv, TypeOK, Spawn
<1>1. stage[x] = "launching" /\ handler[x] = "launch"
  BY <1>0 DEF Launching, TasksAreInStep, TypeOK
<1>2. SessionTypeOK'
  <2>1. CASE SpawnChild(x)
    <3>1. at[x] \in Server /\ at[x] + 1 \in 0 .. NServers
      BY <1>0, <2>1, SessionAssumption DEF SessionTypeOK, Server
    <3> QED
      BY <1>0, <2>1, <3>1 DEF SessionTypeOK, Task
  <2>2. CASE SpawnFails(x) \/ Launched(x)
    BY <1>0, <2>2 DEF SessionTypeOK
  <2> QED
    BY <1>0, <2>1, <2>2 DEF Launching
<1>3. TasksAreInStep'
  BY <1>0, <1>1 DEF Launching, TasksAreInStep, SessionTypeOK, sseVars
<1>4. ChildrenAreInStep'
  <2>1. CASE SpawnChild(x)
    BY <1>0, <1>1, <2>1, SessionAssumption
       DEF ChildrenAreInStep, TaskIsInStep, Unspawned, Spawned, SessionTypeOK, Server
  <2>2. CASE SpawnFails(x)
    BY <1>0, <1>1, <2>2 DEF ChildrenAreInStep, TaskIsInStep, Unspawned, Spawned, SessionTypeOK
  <2>3. CASE Launched(x)
    BY <1>0, <1>1, <2>3, SessionAssumption
       DEF ChildrenAreInStep, TaskIsInStep, Unspawned, Spawned, SessionTypeOK, Server
  <2> QED
    BY <1>0, <2>1, <2>2, <2>3 DEF Launching
<1>5. \A y \in Sess, s \in Server : writer[y][s] = "ended" => writer'[y][s] = "ended"
  <2>1. CASE SpawnChild(x)
    <3>0. PICK s \in Server : s = at[x]
      BY <1>0, <2>1, SessionAssumption DEF SessionTypeOK, Server
    <3>1. writer[x][s] = "none"
      BY <1>0, <1>1, <3>0
         DEF SessionTypeOK, Server, ChildrenAreInStep, TaskIsInStep, Unspawned, Spawned
    <3> QED
      BY <1>0, <2>1, <3>0, <3>1 DEF SessionTypeOK
  <2> QED
    BY <1>0, <2>1 DEF Launching
<1> QED
  BY <1>0, <1>2, <1>3, <1>4, <1>5, SessionStep

(* shutdown asks the pumps of a session that is live to stop.              *)
LEMMA AbortStep ==
  ASSUME SInv, NEW x \in Sess, Abort(x) PROVE SInv'
<1> USE DEF Abort, AbortPumps, Asked
<1>0. TypeOK /\ SessionTypeOK /\ TasksAreInStep /\ ChildrenAreInStep /\ UNCHANGED sseVars
  BY DEF SInv, TypeOK
<1>2. SessionTypeOK'
  <2>1. \A task \in [Server -> Task] : Asked(task) \in [Server -> Task]
    BY DEF Task
  <2> QED
    BY <1>0, <2>1, SessionAssumption DEF SessionTypeOK
<1>3. TasksAreInStep'
  BY <1>0 DEF TasksAreInStep, SessionTypeOK, TypeOK, sseVars
<1>4. ChildrenAreInStep'
  <2>1. \A y \in Sess \ {x} : /\ stage'[y] = stage[y] /\ at'[y] = at[y]
                              /\ child'[y] = child[y]
                              /\ reader'[y] = reader[y] /\ writer'[y] = writer[y]
    BY <1>0 DEF SessionTypeOK
  <2>2. /\ stage[x] = "live" /\ stage'[x] = "killing" /\ at'[x] = 0
        /\ child'[x] = child[x]
        /\ reader'[x] = Asked(reader[x]) /\ writer'[x] = Asked(writer[x])
    BY <1>0 DEF SessionTypeOK
  <2>3. \A s \in Server : {reader'[x][s], writer'[x][s]} \subseteq {"aborting", "ended"}
    BY <1>0, <2>2 DEF ChildrenAreInStep, TaskIsInStep, Unspawned, Spawned, SessionTypeOK, Task
  <2> HIDE DEF Asked
  <2>4. \A s \in Server : at'[x] \in Nat /\ ~(s < at'[x])
    BY <2>2, SessionAssumption DEF Server
  <2> QED
    BY <1>0, <2>1, <2>2, <2>3, <2>4 DEF ChildrenAreInStep, TaskIsInStep, Unspawned, Spawned
<1>5. \A y \in Sess, s \in Server : writer[y][s] = "ended" => writer'[y][s] = "ended"
  BY <1>0 DEF SessionTypeOK
<1> QED
  BY <1>0, <1>2, <1>3, <1>4, <1>5, SessionStep

(* shutdown kills the next child, or has come to the last.                 *)
LEMMA KillStep ==
  ASSUME SInv, NEW x \in Sess, Kill(x) PROVE SInv'
<1> USE DEF KillChild, ShutDown
<1>0. TypeOK /\ SessionTypeOK /\ TasksAreInStep /\ ChildrenAreInStep /\ UNCHANGED sseVars
      /\ (KillChild(x) \/ ShutDown(x))
  BY DEF SInv, TypeOK, Kill
<1>1. stage[x] = "killing" /\ cleanup[x] = "shutdown"
  BY <1>0 DEF TasksAreInStep, TypeOK
<1>a. KillChild(x) => at[x] \in Server /\ at[x] + 1 \in 0 .. NServers
  BY <1>0, SessionAssumption DEF SessionTypeOK, Server
<1>2. SessionTypeOK'
  <2>1. CASE KillChild(x)
    <3>1. [child[x] EXCEPT ![at[x]] = IF @ = "running" THEN "killed" ELSE @]
            \in [Server -> {"none", "running", "exited", "killed"}]
      BY <1>0, <1>a, <2>1 DEF SessionTypeOK
    <3> QED
      BY <1>0, <1>a, <2>1, <3>1 DEF SessionTypeOK
  <2>2. CASE ShutDown(x)
    BY <1>0, <2>2 DEF SessionTypeOK
  <2> QED
    BY <1>0, <2>1, <2>2
<1>3. TasksAreInStep'
  BY <1>0, <1>1 DEF TasksAreInStep, SessionTypeOK, TypeOK, sseVars
<1>4. ChildrenAreInStep'
  <2>1. CASE KillChild(x)
    <3>1. \A y \in Sess \ {x} : at'[y] = at[y] /\ child'[y] = child[y]
      BY <1>0, <2>1 DEF SessionTypeOK
    <3>2. /\ at'[x] = at[x] + 1 /\ child'[x][at[x]] # "running"
          /\ \A s \in Server : child'[x][s] = child[x][s] \/ s = at[x]
          /\ \A s \in Server : child[x][s] = "exited" => child'[x][s] = "exited"
      BY <1>0, <1>a, <2>1 DEF SessionTypeOK
    <3> QED
      BY <1>0, <1>1, <1>a, <2>1, <3>1, <3>2
         DEF ChildrenAreInStep, TaskIsInStep, Unspawned, Spawned, SessionTypeOK, Server
  <2>2. CASE ShutDown(x)
    BY <1>0, <1>1, <2>2
       DEF ChildrenAreInStep, TaskIsInStep, Unspawned, Spawned, SessionTypeOK, Server
  <2> QED
    BY <1>0, <2>1, <2>2
<1>5. \A y \in Sess, s \in Server : writer[y][s] = "ended" => writer'[y][s] = "ended"
  BY <1>0 DEF SessionTypeOK
<1> QED
  BY <1>0, <1>2, <1>3, <1>4, <1>5, SessionStep

(* What children and pump tasks do on their own.                           *)
LEMMA ExitStep ==
  ASSUME SInv, NEW x \in Sess, NEW s \in Server, Ends(x, s) \/ Stops(x, s)
  PROVE  SInv'
<1> USE DEF Ends, Stops, ChildExits, ReaderEnds, WriterEnds, ReaderStops, WriterStops
<1>0. TypeOK /\ SessionTypeOK /\ TasksAreInStep /\ ChildrenAreInStep /\ UNCHANGED sseVars
  BY DEF SInv, TypeOK
<1>1. /\ stage' = stage /\ at' = at
      /\ \/ child' = [child EXCEPT ![x][s] = "exited"] /\ child[x][s] = "running"
            /\ UNCHANGED <<reader, writer>>
         \/ reader' = [reader EXCEPT ![x][s] = "ended"]
            /\ reader[x][s] \in {"running", "aborting"} /\ UNCHANGED <<child, writer>>
         \/ writer' = [writer EXCEPT ![x][s] = "ended"]
            /\ writer[x][s] \in {"running", "aborting"} /\ UNCHANGED <<child, reader>>
            /\ (writer[x][s] = "running" /\ stage[x] # "failed" => s \in Brief)
  BY DEF RouterDropped
<1>2. SessionTypeOK'
  <2>1. SessionTypeOK /\ "ended" \in Task
    BY <1>0 DEF Task
  <2>2. child' \in [Sess -> [Server -> {"none", "running", "exited", "killed"}]]
    BY <1>1, <2>1 DEF SessionTypeOK
  <2>a. ASSUME NEW task \in [Sess -> [Server -> Task]]
        PROVE  [task EXCEPT ![x][s] = "ended"] \in [Sess -> [Server -> Task]]
    BY <2>1
  <2>3. reader' \in [Sess -> [Server -> Task]]
    BY <1>1, <2>1, <2>a DEF SessionTypeOK
  <2>4. writer' \in [Sess -> [Server -> Task]]
    BY <1>1, <2>1, <2>a DEF SessionTypeOK
  <2> QED
    BY <1>1, <2>1, <2>2, <2>3, <2>4 DEF SessionTypeOK
<1>3. TasksAreInStep'
  BY <1>0, <1>1 DEF TasksAreInStep, sseVars
<1>4. ChildrenAreInStep'
  <2>1. CASE child' = [child EXCEPT ![x][s] = "exited"] /\ child[x][s] = "running"
             /\ UNCHANGED <<reader, writer>>
    BY <1>0, <1>1, <2>1 DEF ChildrenAreInStep, TaskIsInStep, Unspawned, Spawned, SessionTypeOK
  <2>2. CASE reader' = [reader EXCEPT ![x][s] = "ended"]
             /\ reader[x][s] \in {"running", "aborting"} /\ UNCHANGED <<child, writer>>
    BY <1>0, <1>1, <2>2 DEF ChildrenAreInStep, TaskIsInStep, Unspawned, Spawned, SessionTypeOK
  <2>3. CASE writer' = [writer EXCEPT ![x][s] = "ended"]
             /\ writer[x][s] \in {"running", "aborting"} /\ UNCHANGED <<child, reader>>
             /\ (writer[x][s] = "running" /\ stage[x] # "failed" => s \in Brief)
    BY <1>0, <1>1, <2>3 DEF ChildrenAreInStep, TaskIsInStep, Unspawned, Spawned, SessionTypeOK
  <2> QED
    BY <1>1, <2>1, <2>2, <2>3
<1>5. \A y \in Sess, t \in Server : writer[y][t] = "ended" => writer'[y][t] = "ended"
  BY <1>0, <1>1 DEF SessionTypeOK
<1> QED
  BY <1>0, <1>2, <1>3, <1>4, <1>5, SessionStep

-----------------------------------------------------------------------------
(* Steps of a POST.                                                        *)

(* A POST finds the session of its client or, once that has gone, none.    *)
LEMMA LookupFinds ==
  ASSUME SInv, NEW p \in Post, handler[Home[p]] \in {"streaming", "closed"}
  PROVE  /\ sessions[sid[Home[p]]] \in {Home[p], NoSess}
         /\ handler[Home[p]] = "streaming" => sessions[sid[Home[p]]] = Home[p]
<1>0. TypeOK /\ SidsAreOwn /\ TasksAreInStep /\ MapIsRight /\ Home[p] \in Sess
  BY SseAssumption DEF SInv
<1>1. sid[Home[p]] \in Sid
  BY <1>0 DEF SidsAreOwn, TypeOK
<1>2. handler[Home[p]] = "streaming" => sessions[sid[Home[p]]] = Home[p]
  BY <1>0 DEF MapIsRight, InMap, TasksAreInStep
<1>3. sessions[sid[Home[p]]] # NoSess => sessions[sid[Home[p]]] = Home[p]
  BY <1>0, <1>1 DEF MapIsRight, SidsAreOwn, TypeOK
<1> QED
  BY <1>2, <1>3

(* A frame is lost only where the writer task has ended by itself.         *)
LEMMA DispatchReaches ==
  ASSUME SInv, NEW x \in Sess, NEW s \in Server, handler[x] = "streaming", ~Writes(x, s)
  PROVE  s \in Brief /\ writer[x][s] = "ended"
<1>1. stage[x] = "live"
  BY DEF SInv, TasksAreInStep
<1>2. writer[x][s] = "ended"
  BY <1>1
     DEF SInv, TypeOK, SessionTypeOK, Task, ChildrenAreInStep, TaskIsInStep, Unspawned, Spawned, Writes
<1> QED
  BY <1>1, <1>2 DEF SInv, ChildrenAreInStep, TaskIsInStep, Unspawned, Spawned

(* A POST is looked up, or its frame is handed over.                       *)
LEMMA PostStep ==
  ASSUME SInv, NEW p \in Post, Lookup(p) \/ Dispatch(p) PROVE SInv'
<1> USE DEF sessionVars
<1>0. TypeOK /\ Home[p] \in Sess
      /\ UNCHANGED <<sessionVars, handler, sid, cleanup, nextSid, sessions, gauge>>
      /\ \A q \in Post \ {p} : post'[q] = post[q]
  BY SseAssumption DEF SInv, TypeOK, Lookup, Dispatch
<1>1. /\ post'[p].to \in {Home[p], NoSess}
      /\ handler[Home[p]] \in {"streaming", "closed"}
      /\ post'[p].pc = "found" => post'[p].to = Home[p]
      /\ post'[p].pc = "404" => handler[Home[p]] = "closed"
      /\ post'[p].pc = "lost" =>
           handler[Home[p]] = "closed" \/ \E s \in Brief : writer[Home[p]][s] = "ended"
      /\ post'[p] \in [pc : {"none", "found", "404", "202", "lost"},
                       to : Sess \cup {NoSess}]
  <2>1. CASE Lookup(p)
    <3>1. /\ handler[Home[p]] \in {"streaming", "closed"}
          /\ post'[p] = [pc |-> IF sessions[sid[Home[p]]] = NoSess THEN "404" ELSE "found",
                         to |-> sessions[sid[Home[p]]]]
      BY <1>0, <2>1 DEF Lookup, TypeOK
    <3> QED
      BY <1>0, <3>1, LookupFinds, SseAssumption
  <2>2. CASE Dispatch(p)
    <3>1. PICK s \in Server :
            post'[p] = [post[p] EXCEPT !.pc = IF Writes(post[p].to, s) THEN "202"
                                              ELSE "lost"]
      BY <1>0, <2>2 DEF Dispatch, TypeOK
    <3>2. post[p].to = Home[p] /\ handler[Home[p]] \in {"streaming", "closed"}
      BY <2>2 DEF SInv, PostsAreHome, Dispatch
    <3>3. post[p] \in [pc : {"none", "found", "404", "202", "lost"}, to : Sess \cup {NoSess}]
      BY <1>0 DEF TypeOK
    <3> QED
      BY <1>0, <3>1, <3>2, <3>3, DispatchReaches
  <2> QED
    BY <2>1, <2>2
<1>2. TypeOK'
  <2>0. DOMAIN post' = Post /\ post' = [q \in Post |-> post'[q]]
    BY <1>0 DEF TypeOK, Lookup, Dispatch
  <2>1. post' \in [Post -> [pc : {"none", "found", "404", "202", "lost"},
                            to : Sess \cup {NoSess}]]
    BY <1>0, <1>1, <2>0 DEF TypeOK
  <2> QED
    BY <1>0, <2>1 DEF TypeOK, SessionTypeOK
<1>3. SidsAreOwn' /\ gauge' = Cardinality(Counted)'
  BY <1>0 DEF SInv, SidsAreOwn, Connected, Counted
<1>4. TasksAreInStep' /\ ChildrenAreInStep'
  BY <1>0 DEF SInv, TasksAreInStep, ChildrenAreInStep, TaskIsInStep, Unspawned, Spawned
<1>5. MapIsRight'
  BY <1>0 DEF SInv, MapIsRight, InMap
<1>6. PostsAreHome'
  BY <1>0, <1>1 DEF SInv, PostsAreHome
<1>7. PostsReachHome'
  BY <1>0, <1>1 DEF SInv, PostsReachHome, sessionVars
<1> QED
  BY <1>2, <1>3, <1>4, <1>5, <1>6, <1>7 DEF SInv

(* SInv is inductive.                                                      *)
LEMMA NextSInv == SInv /\ [Next]_vars => SInv'
<1> SUFFICES ASSUME SInv, [Next]_vars PROVE SInv'
  OBVIOUS
<1>1. ASSUME NEW x \in Sess, Connect(x) \/ Handle(x) \/ Disconnect(x) \/ Cleanup(x)
      PROVE  SInv'
  BY <1>1, ConnectStep, SpawnStep, HandlerStep, InsertStep, CountStep, RemoveSessionStep,
     AbortStep, KillStep, EndStep DEF Handle, Cleanup
<1>2. ASSUME NEW x \in Sess, NEW s \in Server, Ends(x, s) \/ Stops(x, s) PROVE SInv'
  BY <1>2, ExitStep
<1>3. ASSUME NEW p \in Post, Lookup(p) \/ Dispatch(p) PROVE SInv'
  BY <1>3, PostStep
<1>4. CASE UNCHANGED vars
  <2>1. UNCHANGED sseVars /\ UNCHANGED sessionVars
    BY <1>4 DEF vars, sseVars, sessionVars
  <2>2. SessionTypeOK' /\ TasksAreInStep' /\ ChildrenAreInStep'
    BY <2>1
       DEF SInv, TypeOK, SessionTypeOK, TasksAreInStep, ChildrenAreInStep, TaskIsInStep, Unspawned, Spawned,
                sseVars, sessionVars
  <2> QED
    BY <2>1, <2>2, SessionStep DEF sessionVars
<1> QED
  BY <1>1, <1>2, <1>3, <1>4 DEF Next

-----------------------------------------------------------------------------
(* The inductive invariant holds in every reachable state, for any number  *)
(* of connections, upstreams of each, and POSTs.                           *)
THEOREM SseInvariance == Spec => []SInv
<1> QED
  BY InitSInv, NextSInv, PTL DEF Spec

(* Every variable of SSE mode keeps to its type.                           *)
THEOREM SseTypeCorrect == Spec => []TypeOK
<1>1. SInv => TypeOK
  BY DEF SInv
<1> QED
  BY <1>1, SseInvariance, PTL

(* A POST is handed to the session of the client that made it, and its     *)
(* frame is lost only if that client has gone, or if an upstream has gone  *)
(* or closed its input (message_handler).                                  *)
THEOREM PostsGoHome == Spec => []PostsReachHome
<1>1. SInv => PostsReachHome
  BY DEF SInv
<1> QED
  BY <1>1, SseInvariance, PTL

(* As long as a client is connected, its session is in the map under the   *)
(* id that the client was told, undisturbed, and counted (sse_handler and  *)
(* the cleanup task).                                                      *)
THEOREM OpenIsServed == Spec => []OpenSessionIsServed
<1>1. SInv => OpenSessionIsServed
  <2> SUFFICES ASSUME SInv PROVE OpenSessionIsServed
    OBVIOUS
  <2> DEFINE Streaming == {x \in Sess : handler[x] = "streaming"}
  <2>1. ASSUME NEW x \in Sess, handler[x] = "streaming"
        PROVE  /\ sessions[sid[x]] = x
               /\ \A s \in Server : /\ "aborting" \notin {reader[x][s], writer[x][s]}
                                   /\ child[x][s] # "killed"
    BY <2>1
       DEF SInv, TasksAreInStep, MapIsRight, InMap, ChildrenAreInStep, TaskIsInStep, Unspawned, Spawned
  <2>2. Streaming \subseteq Counted
    BY DEF SInv, Counted, TasksAreInStep
  <2>3. Cardinality(Streaming) <= Cardinality(Counted)
    BY <2>2, Finite, FS_Subset
  <2>4. gauge >= Cardinality(Streaming)
    BY <2>2, <2>3, Finite, FS_Subset, FS_CardinalityType DEF SInv
  <2> QED
    BY <2>1, <2>4 DEF OpenSessionIsServed
<1> QED
  BY <1>1, SseInvariance, PTL

(* When all connections are over, nothing is left of those that were set   *)
(* up: no child, no pump that nobody asked to stop, no entry in the map,   *)
(* and the gauge is at zero (the cleanup task and shutdown).               *)
THEOREM NothingLeft == Spec => []NothingIsLeft
<1>1. SInv => NothingIsLeft
  <2> SUFFICES ASSUME SInv, \A x \in Sess : Over(x)
               PROVE  /\ gauge = 0 /\ \A i \in Sid : sessions[i] = NoSess
                      /\ \A x \in Sess : cleanup[x] = "done" => ~StillRuns(x)
    BY DEF NothingIsLeft
  <2>1. Counted = {}
    BY DEF Counted, Over
  <2>2. \A x \in Sess : ~InMap(x)
    BY DEF SInv, InMap, Over, TasksAreInStep
  <2>3. \A i \in Sid : sessions[i] = NoSess
    BY <2>2 DEF SInv, TypeOK, MapIsRight
  <2>4. \A x \in Sess : cleanup[x] = "done" => ~StillRuns(x)
    BY DEF SInv, TasksAreInStep, ChildrenAreInStep, TaskIsInStep, Unspawned, Spawned, StillRuns
  <2> QED
    BY <2>1, <2>3, <2>4, FS_EmptySet DEF SInv
<1> QED
  BY <1>1, SseInvariance, PTL
=============================================================================
