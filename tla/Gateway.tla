------------------------------ MODULE Gateway ------------------------------
(***************************************************************************)
(* What the gateway promises its client, with no ids to translate, no maps *)
(* and no tasks.  A request is put to its upstreams, to each of them once: *)
(* to all of them if it is fanned out, else to one.  It is answered once,  *)
(* by what those upstreams answered to it and by nothing else; or it is    *)
(* rejected before any upstream hears of it.                               *)
(***************************************************************************)
CONSTANTS
  Servers,   \* the upstreams
  Req,       \* the client's requests
  Ids,       \* the ids that upstreams know requests by
  Responses, \* what upstreams say: records with fields from and req
  NoAnswer   \* the absence of a response

VARIABLES
  fanned,    \* the requests that are for all upstreams
  asked,     \* asked[r][s]: the ids under which s was asked r
  heard,     \* heard[r][s]: the answer of s to r
  outcome    \* outcome[r]: what the client was sent

vars == <<fanned, asked, heard, outcome>>

Init ==
  /\ fanned \subseteq Req
  /\ asked = [r \in Req |-> [s \in Servers |-> {}]]
  /\ heard = [r \in Req |-> [s \in Servers |-> NoAnswer]]
  /\ outcome = [r \in Req |-> "none"]

(* An upstream is asked; a request that is not fanned out has one only.    *)
Ask(r, s) ==
  /\ outcome[r] = "none" /\ asked[r][s] = {}
  /\ r \notin fanned => \A t \in Servers : asked[r][t] = {}
  /\ \E i \in Ids : asked' = [asked EXCEPT ![r][s] = {i}]
  /\ UNCHANGED <<fanned, heard, outcome>>

(* An upstream that was asked answers, for the first time.                 *)
Listen(r, s) ==
  /\ outcome[r] = "none" /\ asked[r][s] # {} /\ heard[r][s] = NoAnswer
  /\ \E a \in Responses :
       a.from = s /\ a.req = r /\ heard' = [heard EXCEPT ![r][s] = a]

Hear(r, s) ==
  /\ r \in fanned
  /\ Listen(r, s)
  /\ UNCHANGED <<fanned, asked, outcome>>

(* All have answered: the client is sent the merge of their answers.       *)
SendMerge(r) ==
  /\ r \in fanned /\ outcome[r] = "none"
  /\ \A s \in Servers : heard[r][s] # NoAnswer
  /\ outcome' = [outcome EXCEPT ![r] = "merged"]
  /\ UNCHANGED <<fanned, asked, heard>>

(* The only one asked answers: the client is sent its answer.              *)
PassOn(r, s) ==
  /\ r \notin fanned
  /\ Listen(r, s)
  /\ outcome' = [outcome EXCEPT ![r] = "result"]
  /\ UNCHANGED <<fanned, asked>>

Reject(r) ==
  /\ r \notin fanned /\ outcome[r] = "none"
  /\ \A s \in Servers : asked[r][s] = {}
  /\ outcome' = [outcome EXCEPT ![r] = "invalid"]
  /\ UNCHANGED <<fanned, asked, heard>>

Next ==
  \E r \in Req :
    \/ SendMerge(r) \/ Reject(r)
    \/ \E s \in Servers : Ask(r, s) \/ Hear(r, s) \/ PassOn(r, s)

Spec == Init /\ [][Next]_vars
=============================================================================
