------------------------------- MODULE Relay -------------------------------
(***************************************************************************)
(* What stdio mode promises, with no channels, pumps, pipes or threads:    *)
(* a session starts all its upstreams or fails; then each upstream hears   *)
(* the client's lines that are for it, and the client hears what each      *)
(* upstream says, in order, once and with no gap; and when the client's    *)
(* lines are at their end the session closes, and leaves no upstream up.   *)
(***************************************************************************)
EXTENDS Naturals, Sequences

CONSTANTS
  Servers,   \* the upstreams
  Scripts,   \* what the client may say: sequences of lines
  To,        \* To[l]: the upstreams that line l is for
  Overlong,  \* lines that end the input
  Torn       \* a line cut off in the middle

VARIABLES
  phase,     \* "new", "failed", or "serving", "closing", "ended"
  up,        \* up[s]: "no", "up" or "down"
  script,    \* what the client has to say
  offered,   \* how many lines of it the client has said
  read,      \* how many of these the gateway has read
  heard,     \* heard[s]: the numbers of the lines that s has heard
  said,      \* said[s]: how many lines s has said
  told       \* the lines that the client has heard: whose, and the number

vars == <<phase, up, script, offered, read, heard, said, told>>

Init ==
  /\ phase = "new"
  /\ up = [s \in Servers |-> "no"]
  /\ script \in Scripts
  /\ offered = 0 /\ read = 0
  /\ heard = [s \in Servers |-> <<>>]
  /\ said = [s \in Servers |-> 0]
  /\ told = <<>>

Start(s) ==
  /\ phase = "new" /\ up[s] = "no"
  /\ up' = [up EXCEPT ![s] = "up"]
  /\ UNCHANGED <<phase, script, offered, read, heard, said, told>>

Fail ==
  /\ phase = "new" /\ phase' = "failed"
  /\ UNCHANGED <<up, script, offered, read, heard, said, told>>

Serve ==
  /\ phase = "new" /\ \A s \in Servers : up[s] # "no"
  /\ phase' = "serving"
  /\ UNCHANGED <<up, script, offered, read, heard, said, told>>

(* The client says a line, at any time; it is read while the session is on.*)
Offer ==
  /\ phase \in {"serving", "closing"} /\ offered < Len(script)
  /\ offered' = offered + 1
  /\ UNCHANGED <<phase, up, script, read, heard, said, told>>

Take ==
  /\ phase = "serving" /\ read < offered /\ script[read + 1] \notin Overlong
  /\ read' = read + 1
  /\ UNCHANGED <<phase, up, script, offered, heard, said, told>>

(* An upstream hears the line that comes after all it has heard.           *)
FollowsAll(s, k) == {heard[s][i] : i \in DOMAIN heard[s]} = {j \in 1 .. k - 1 : s \in To[script[j]]}

Hear(s) ==
  /\ up[s] = "up"
  /\ \E k \in 1 .. read :
       /\ s \in To[script[k]] /\ FollowsAll(s, k)
       /\ heard' = [heard EXCEPT ![s] = Append(@, k)]
  /\ UNCHANGED <<phase, up, script, offered, read, said, told>>

Say(s) ==
  /\ up[s] = "up"
  /\ said' = [said EXCEPT ![s] = @ + 1]
  /\ UNCHANGED <<phase, up, script, offered, read, heard, told>>

(* An upstream ends by itself, or is ended with the session.               *)
Die(s) ==
  /\ up[s] = "up"
  /\ up' = [up EXCEPT ![s] = "down"]
  /\ UNCHANGED <<phase, script, offered, read, heard, said, told>>

(* The numbers of the lines of s that the client has heard.                *)
ToldOf(s) == {told[i].n : i \in {j \in DOMAIN told : told[j] # Torn /\ told[j].from = s}}

IsWhole == \A i \in DOMAIN told : told[i] # Torn

(* The client hears what an upstream said after what it has heard of it.   *)
Tell(s) ==
  /\ phase \notin {"new", "failed"} /\ IsWhole
  /\ \E n \in 1 .. said[s] : ToldOf(s) = 1 .. n - 1 /\ told' = Append(told, [from |-> s, n |-> n])
  /\ UNCHANGED <<phase, up, script, offered, read, heard, said>>

(* In the end a line may be cut off, and it is the last.                   *)
Cut ==
  /\ phase \in {"closing", "ended"} /\ IsWhole
  /\ told' = Append(told, Torn)
  /\ UNCHANGED <<phase, up, script, offered, read, heard, said>>

(* The session closes when all that the client said has been read, up to   *)
(* a line that cannot be.                                                  *)
Close ==
  /\ phase = "serving"
  /\ read < offered => script[read + 1] \in Overlong
  /\ phase' = "closing"
  /\ UNCHANGED <<up, script, offered, read, heard, said, told>>

End ==
  /\ phase = "closing" /\ \A s \in Servers : up[s] = "down"
  /\ phase' = "ended"
  /\ UNCHANGED <<up, script, offered, read, heard, said, told>>

Next ==
  \/ Fail \/ Serve \/ Offer \/ Take \/ Cut \/ Close \/ End
  \/ \E s \in Servers : Start(s) \/ Hear(s) \/ Say(s) \/ Die(s) \/ Tell(s)

Spec == Init /\ [][Next]_vars
=============================================================================
