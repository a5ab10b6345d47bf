------------------------------ MODULE Session ------------------------------
(***************************************************************************)
(* The life of a session's upstreams (src/Shrink/src/session.rs): launch   *)
(* spawns a child process, a task that reads its output and a task that    *)
(* writes its input for each upstream, in order, and gives up at the first *)
(* that cannot be spawned; shutdown asks all tasks to stop and then kills  *)
(* the children one by one.  Stdio mode has one session, SSE mode one for  *)
(* each connection.                                                        *)
(***************************************************************************)
EXTENDS Integers, FiniteSets

CONSTANTS
  Sess,      \* the sessions
  NServers,  \* upstreams of each session
  Broken,    \* upstreams whose command may fail to be spawned
  Brief      \* upstreams that may exit, close their input or their output,
             \* or write a line that the codec refuses

Server == 0 .. NServers - 1

ASSUME SessionAssumption ==
  NServers \in Nat \ {0} /\ Broken \subseteq Server /\ Brief \subseteq Server

VARIABLES
  stage,  \* how far launch or shutdown has come
  at,     \* the upstream that launch or shutdown is at
  child,  \* the child processes
  reader, \* the task that reads each upstream's output (read_pump)
  writer  \* the task that writes its input (write_pump)

sessionVars == <<stage, at, child, reader, writer>>

(* A task that was asked to stop goes on until it next yields, and is over *)
(* then, as one is that has returned.                                      *)
Task == {"none", "running", "aborting", "ended"}

SessionTypeOK ==
  /\ stage \in [Sess -> {"new", "launching", "failed", "live", "killing", "down"}]
  /\ at \in [Sess -> 0 .. NServers]
  /\ child \in [Sess -> [Server -> {"none", "running", "exited", "killed"}]]
  /\ reader \in [Sess -> [Server -> Task]]
  /\ writer \in [Sess -> [Server -> Task]]

SessionInit ==
  /\ stage = [x \in Sess |-> "new"]
  /\ at = [x \in Sess |-> 0]
  /\ child = [x \in Sess |-> [s \in Server |-> "none"]]
  /\ reader = [x \in Sess |-> [s \in Server |-> "none"]]
  /\ writer = [x \in Sess |-> [s \in Server |-> "none"]]

Launch(x) ==
  /\ stage[x] = "new"
  /\ stage' = [stage EXCEPT ![x] = "launching"]
  /\ UNCHANGED <<at, child, reader, writer>>

(* Bug: the loop over the upstreams goes one too far.                      *)
SpawnChildPast(x) ==
  /\ stage[x] = "launching" /\ at[x] <= NServers
  /\ child' = [child EXCEPT ![x][at[x]] = "running"]
  /\ reader' = [reader EXCEPT ![x][at[x]] = "running"]
  /\ writer' = [writer EXCEPT ![x][at[x]] = "running"]
  /\ at' = [at EXCEPT ![x] = @ + 1]
  /\ UNCHANGED stage

SpawnChild(x) ==
  /\ stage[x] = "launching" /\ at[x] < NServers
  /\ child' = [child EXCEPT ![x][at[x]] = "running"]
  /\ reader' = [reader EXCEPT ![x][at[x]] = "running"]
  /\ writer' = [writer EXCEPT ![x][at[x]] = "running"]
  /\ at' = [at EXCEPT ![x] = @ + 1]
  /\ UNCHANGED stage

(* The early return drops the handles of what was spawned so far, which    *)
(* neither kills a child (kill_on_drop is not set) nor aborts a task.      *)
SpawnFails(x) ==
  /\ stage[x] = "launching" /\ at[x] \in Broken
  /\ stage' = [stage EXCEPT ![x] = "failed"]
  /\ UNCHANGED <<at, child, reader, writer>>

Launched(x) ==
  /\ stage[x] = "launching" /\ at[x] = NServers
  /\ stage' = [stage EXCEPT ![x] = "live"]
  /\ UNCHANGED <<at, child, reader, writer>>

(* A child ends by itself; nobody is told.                                 *)
ChildExits(x, s) ==
  /\ s \in Brief /\ child[x][s] = "running"
  /\ child' = [child EXCEPT ![x][s] = "exited"]
  /\ UNCHANGED <<stage, at, reader, writer>>

(* A reader task returns at the end of the output and at a line that the   *)
(* codec refuses, whether or not the child lives on.                       *)
ReaderEnds(x, s) ==
  /\ s \in Brief /\ reader[x][s] = "running"
  /\ reader' = [reader EXCEPT ![x][s] = "ended"]
  /\ UNCHANGED <<stage, at, child, writer>>

(* Nobody holds the router, and with it the senders of the channels:       *)
(* launch has dropped its reference, and a reader task drops its own as it *)
(* ends.                                                                   *)
RouterDropped(x) == stage[x] = "failed" /\ \A s \in Server : reader[x][s] # "running"

(* A writer task returns when a write fails, for the child has exited or   *)
(* closed its input, and when its channel has no sender left.              *)
WriterEnds(x, s) ==
  /\ s \in Brief \/ RouterDropped(x)
  /\ writer[x][s] = "running"
  /\ writer' = [writer EXCEPT ![x][s] = "ended"]
  /\ UNCHANGED <<stage, at, child, reader>>

(* shutdown asks the tasks to stop and does not wait.  It asks one after   *)
(* the other without an await; as one that was asked may still go on for a *)
(* while, asking all of them at once leaves out no order in which they     *)
(* stop.                                                                   *)
Asked(task) == [s \in Server |-> IF task[s] = "running" THEN "aborting" ELSE task[s]]

AbortPumps(x) ==
  /\ stage[x] = "live"
  /\ reader' = [reader EXCEPT ![x] = Asked(@)]
  /\ writer' = [writer EXCEPT ![x] = Asked(@)]
  /\ stage' = [stage EXCEPT ![x] = "killing"]
  /\ at' = [at EXCEPT ![x] = 0]
  /\ UNCHANGED child

ReaderStops(x, s) ==
  /\ reader[x][s] = "aborting"
  /\ reader' = [reader EXCEPT ![x][s] = "ended"]
  /\ UNCHANGED <<stage, at, child, writer>>

WriterStops(x, s) ==
  /\ writer[x][s] = "aborting"
  /\ writer' = [writer EXCEPT ![x][s] = "ended"]
  /\ UNCHANGED <<stage, at, child, reader>>

(* Bug: shutdown waits for a signal to a child that has exited.            *)
KillRunning(x) ==
  /\ stage[x] = "killing" /\ at[x] < NServers /\ child[x][at[x]] = "running"
  /\ child' = [child EXCEPT ![x][at[x]] = "killed"]
  /\ at' = [at EXCEPT ![x] = @ + 1]
  /\ UNCHANGED <<stage, reader, writer>>

(* ... then kill, which waits for each child in turn; a child that has     *)
(* exited cannot be killed, which is ignored.                              *)
KillChild(x) ==
  /\ stage[x] = "killing" /\ at[x] < NServers
  /\ child' = [child EXCEPT ![x][at[x]] = IF @ = "running" THEN "killed" ELSE @]
  /\ at' = [at EXCEPT ![x] = @ + 1]
  /\ UNCHANGED <<stage, reader, writer>>

ShutDown(x) ==
  /\ stage[x] = "killing" /\ at[x] = NServers
  /\ stage' = [stage EXCEPT ![x] = "down"]
  /\ UNCHANGED <<at, child, reader, writer>>

(* What launch does once it is called.                                     *)
Launching(x) == SpawnChild(x) \/ SpawnFails(x) \/ Launched(x)
=============================================================================
