------------------------------ MODULE MeterInv ------------------------------
(***************************************************************************)
(* The inductive invariant of Telemetry: what each counter counts, and     *)
(* what the frames to the client tell of the counters.                     *)
(***************************************************************************)
EXTENDS Telemetry, ToolInv

(* A call is counted after its frame is sent or lost, or while it is       *)
(* turned down, and then before the client is told of that.                *)
CallsAreOrdered ==
  \A r \in Req :
    /\ pc[r] = "reject" => IsCall(r)
    /\ tally[r] # "none" => ToCount(r)
    /\ IsCall(r) /\ pc[r] = "done" => IsSent(r) \/ IsLost(r) \/ r \in Rejected
    /\ r \in Rejected => pc[r] = "done" /\ tally[r] = "counted"

(* The calls that were turned down, or are being.                          *)
Refused == {r \in Req : IsCall(r) /\ (pc[r] = "reject" \/ r \in Rejected)}

(* Only finitely many calls have been handled.                             *)
Handled == {r \in Req : IsCall(r) /\ pc[r] # "new"}

Forwarded  == {r \in Req : tally[r] = "counted" /\ r \notin Refused}
TurnedDown == {r \in Req : tally[r] = "counted" /\ r \in Refused}

CallsAreCounted ==
  /\ IsFiniteSet(Handled)
  /\ counter["total"] = counter["forwarded"] + counter["rejected"] + CallsUnderCount
  /\ counter["forwarded"] = Cardinality(Forwarded)
  /\ counter["rejected"] = Cardinality(TurnedDown)

(* A list is counted as its merge ends, and before it is sent.             *)
ListsAreOrdered ==
  \A s \in Server :
    /\ disc[s] # "none" => ToReport(s)
    /\ up[s].pc # "read" => up[s].kind = frame[up[s].client].method

(* The counters that are added to one by one: no two requests leave the    *)
(* same value behind.                                                      *)
Units == {"total", "forwarded", "rejected", "lists"}

ViewsAreApart ==
  \A k \in Units : \A r, q \in Req : view[q][k] = view[r][k] /\ view[r][k] > 0 => q = r

(* The tokens of a list, before and after its compaction.                  *)
Before(answers) == Full * Cardinality(Listed(answers))
After(answers)  == Short * Cardinality(Listed(answers)) + Envelope

(* What has been added for a request is in what its task has seen.         *)
ViewsAreCurrent ==
  /\ \A r \in Req :
       /\ tally[r] # "none" => view[r]["total"] > 0
       /\ tally[r] = "counted" /\ pc[r] = "reject" => view[r]["rejected"] > 0
  /\ \A s \in Server :
       LET seen == view[up[s].client] IN
       /\ disc[s] # "none" => seen["lists"] > 0
       /\ disc[s] \in {"before", "counted"} => seen["before"] >= Before(up[s].collected)
       /\ disc[s] = "counted" => seen["after"] >= After(up[s].collected)

(* A frame carries what was counted of its request.                        *)
FramesAreCounted ==
  /\ Len(carried) = Len(toClient)
  /\ \A i \in DOMAIN toClient :
       LET r == toClient[i].to IN
       /\ toClient[i].type = "invalid" => \A k \in {"total", "rejected"} :
            carried[i][k] = view[r][k] /\ view[r][k] > 0
       /\ IsList(i) =>
            /\ carried[i]["lists"] = view[r]["lists"] /\ view[r]["lists"] > 0
            /\ carried[i]["before"] >= Before(toClient[i].answers)
            /\ carried[i]["after"] >= After(toClient[i].answers)

(* Counters only grow: nobody has seen more of one than there is.          *)
LatestIsMost ==
  \A k \in Counter :
    /\ counter[k] \in past[k]
    /\ \A r \in Req : view[r][k] <= counter[k]
    /\ \A i \in DOMAIN carried : carried[i][k] <= counter[k]

MeterInvariant ==
  /\ MeterTypeOK
  /\ CallsAreOrdered
  /\ CallsAreCounted
  /\ ListsAreOrdered
  /\ ViewsAreApart
  /\ ViewsAreCurrent
  /\ FramesAreCounted
  /\ LatestIsMost
=============================================================================
