------------------------------ MODULE StdioInv ------------------------------
(***************************************************************************)
(* The inductive invariant of Stdio's lines and of main: what is on each   *)
(* of the ways through the gateway, and how the session's stage bounds it. *)
(***************************************************************************)
EXTENDS Stdio, StartupInv

(* Everything that is on the way to upstream s, or has come there.         *)
Flow(s) == heard[s] \o stdin[s] \o queue[s]

(* The reader takes what is written; a line that is still handed out is    *)
(* the one taken last, and is for the upstreams that wait for it.          *)
LinesAreTaken ==
  /\ taken <= written.n /\ written.n <= Len(script)
  /\ hand # {} => taken # 0 /\ hand \subseteq To[script[taken]]
  /\ stage[main] \in {"new", "launching"} => taken = 0

(* q holds the members of S up to one of them, in their order.             *)
Begins(q, S) ==
  /\ Increasing(q)
  /\ ToSet(q) \subseteq S
  /\ \A k \in S, h \in ToSet(q) : k <= h => k \in ToSet(q)

(* An upstream's flow is what was handed to it, up to some line, and all   *)
(* of it while its pump runs.                                              *)
FlowIsInOrder(s) ==
  /\ Begins(Flow(s), Handed(s))
  /\ PumpRuns(s) => ToSet(Flow(s)) = Handed(s)

FlowsAreInOrder == \A s \in Server : FlowIsInOrder(s)

(* What an upstream has written and the gateway not read.                  *)
Left(s) == made[s] - Len(stdout[s])

AnswersAreInOrder ==
  \A s \in Server :
    /\ Len(stdout[s]) <= made[s]
    /\ \A i \in DOMAIN stdout[s] : stdout[s][i] = Left(s) + i

(* The client's write pump has all lines until it is aborted; a torn line  *)
(* is the last of what comes out after that.                               *)
ClientIsInOrder ==
  /\ InTurn(Issued)
  /\ \A s \in Server : Numbers(s, Issued) \subseteq 1 .. made[s]
  /\ drain \in {"no", "draining"} =>
       InTurn(OnWay) /\ \A s \in Server : Numbers(s, OnWay) = 1 .. Left(s)
  /\ Torn \notin ToSet(toClient) \cup ToSet(hold)
  /\ \A i \in DOMAIN (got \o out) : (got \o out)[i] = Torn =>
       i = Len(got \o out) /\ hold = <<>> /\ drain \in {"over", "exited"}

(* How far main has come: it drains when the input has ended, and has shut *)
(* the session down when it exits.                                         *)
InputHasEnded ==
  /\ hand = {}
  /\ (taken = written.n /\ ~written.open) \/ (taken < written.n /\ IsBad(taken + 1))

MainIsInOrder ==
  /\ drain # "no" => stage[main] \in {"failed", "live", "killing", "down"}
  /\ drain # "no" /\ stage[main] # "failed" => InputHasEnded
  /\ drain = "exited" => stage[main] \in {"failed", "down"}
  /\ stage[main] \in {"killing", "down"} =>
       \A s \in Server : reader[main][s] # "running" /\ writer[main][s] # "running"
  /\ stage[main] = "killing" => \A s \in Server : s < at[main] => child[main][s] # "running"
  /\ stage[main] = "down" => \A s \in Server : child[main][s] # "running"

GateInvariant ==
  /\ SessionTypeOK /\ IoTypeOK
  /\ LinesAreTaken
  /\ FlowsAreInOrder
  /\ AnswersAreInOrder
  /\ ClientIsInOrder
  /\ MainIsInOrder

StdioInvariant == StartInvariant /\ GateInvariant
=============================================================================
