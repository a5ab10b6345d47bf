------------------------------ MODULE MCRouter ------------------------------
(* Small instances of Router for TLC.                                      *)
EXTENDS RouterGateway, ToolInv, TLC

CONSTANTS r1, r2, r3,      \* requests
          b, c,            \* tools as the upstreams know them
          nb0, nb1, nc0, nc1, nx,  \* names: tool b of server 0, ..., nobody's
          x, y,            \* arguments: as the agent wrote them
          wide, narrow     \* schemas: one that takes x and y, one that takes only x

Sym == Permutations(Req)

Call(n, a) == [method |-> "tools/call", name |-> n, args |-> a]
Plain(m)   == [method |-> m, name |-> NoName, args |-> x]

NoListings == [s \in Server |-> {NoTools}]

(* Distinct prefixes: distinct names.                                      *)
OwnNames ==
  [p \in Server \X Bare |-> IF p[1] = 0 THEN (IF p[2] = b THEN nb0 ELSE nc0)
                             ELSE (IF p[2] = b THEN nb1 ELSE nc1)]

(* Prefix "p" and tool "q__t", prefix "p__q" and tool "t": both are known  *)
(* as "p__q__t".                                                           *)
CollidingNames == [p \in Server \X Bare |-> IF p = <<1, c>> THEN nb0 ELSE OwnNames[p]]

(* Single-server command line mode.                                        *)
BareNames == [p \in Server \X Bare |-> p[2]]

(* Rehydration: the narrow schema rejects y.                               *)
Validate ==
  [as \in Args \X Schema |-> IF as[2] = narrow /\ as[1] = y THEN Invalid ELSE as[1]]

One(t, sch) == [o \in Bare |-> IF o = t THEN sch ELSE NoSchema]

IdFrames   == {Plain("tools/list"), Plain("other"), Call(nx, x)}
LiveFrames == {Plain("tools/list"), Plain("other"), Call(nb0, x), Call(nb0, y)}

LiveListings == [s \in Server |-> IF s = 0 THEN {One(b, narrow)} ELSE {NoTools}]

(* Server 0 lists tool b, whose schema may change; server 1 lists it or    *)
(* answers with an error, which the merge takes for an empty list.         *)
CallFrames   == {Plain("tools/list"), Call(nb0, y), Call(nb1, y)}
CallListings == [s \in Server |-> IF s = 0 THEN {One(b, wide), One(b, narrow)}
                                  ELSE {One(b, wide), NoTools}]

ListFrames     == {Plain("tools/list")}
ClashListings  == [s \in Server |-> IF s = 0 THEN {One(b, wide)} ELSE {One(c, wide)}]
StaleListings  == [s \in Server |-> IF s = 0 THEN {One(b, wide), One(b, narrow)}
                                    ELSE {NoTools}]

SingleFrames   == {Plain("tools/list"), Plain("initialize"), Call(b, y), Call(NoName, x)}
SingleListings == [s \in Server |-> {One(b, wide), One(b, narrow), NoTools}]
=============================================================================
