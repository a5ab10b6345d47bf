----------------------------- MODULE StdioRelay -----------------------------
(***************************************************************************)
(* Stdio implements Relay.  Lines that are on a channel, with a pump or in *)
(* a pipe are neither heard nor told yet; how far the session has come is  *)
(* in its stage and in main's.                                             *)
(***************************************************************************)
EXTENDS StdioInv

Phase ==
  CASE stage[main] \in {"new", "launching"} -> "new"
    [] stage[main] = "failed" -> "failed"
    [] OTHER -> CASE drain = "no" -> "serving"
                  [] drain = "exited" -> "ended"
                  [] OTHER -> "closing"

UpOf(s) ==
  CASE child[main][s] = "none" -> "no"
    [] child[main][s] = "running" -> "up"
    [] OTHER -> "down"

R == INSTANCE Relay
       WITH Servers <- Server,
            phase <- Phase,
            up <- [s \in Server |-> UpOf(s)],
            offered <- written.n,
            read <- taken,
            said <- made,
            told <- got

(* Until the session is live no line is anywhere.                          *)
QuietUntilLive ==
  stage[main] \in {"new", "launching", "failed"} =>
    /\ hand = {}
    /\ \A s \in Server : queue[s] = <<>> /\ stdin[s] = <<>> /\ stdout[s] = <<>> /\ todo[s] = 0
    /\ toClient = <<>> /\ hold = <<>> /\ out = <<>>

(* launch has started the upstreams up to the one that it is at.           *)
LaunchedInTurn ==
  /\ stage[main] = "new" => at[main] = 0
  /\ stage[main] \in {"new", "launching"} =>
       \A s \in Server : child[main][s] = "none" <=> s >= at[main]
  /\ stage[main] \in {"live", "killing", "down"} => \A s \in Server : child[main][s] # "none"

(* Stdio mode keeps what a relay promises: behind tasks, channels, pipes   *)
(* and a thread for stdout, every line that is heard is the next one, and  *)
(* no session ends before its upstreams (main.rs, proxy.rs, session.rs).   *)
ImplementsRelay == R!Spec
=============================================================================
