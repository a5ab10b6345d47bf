------------------------------ MODULE ToolInv ------------------------------
(***************************************************************************)
(* The inductive invariant of Router's tool tables: where each schema,     *)
(* each route and each call come from.                                     *)
(***************************************************************************)
EXTENDS RouterInv

(* No two tools have one name for the client (no prefix or tool has the    *)
(* separator where it would make it so).                                   *)
NamesAreApart ==
  \A p, q \in Server \X Bare : Namespaced[p] = Namespaced[q] => p = q

(* The collected lists are what the upstreams published, and those         *)
(* collected for another request than tools/list are empty.                *)
Published(kind, collected) ==
  \A s \in Server :
    /\ collected[s].list \in Listings[s] \cup {NoTools}
    /\ kind # "tools/list" => collected[s].list = NoTools

FanoutsArePublished ==
  \A f \in Id :
    /\ Published(fanouts[f].kind, fanouts[f].collected)
    /\ IsOpen(f) => fanouts[f].kind = frame[fanouts[f].client].method

MergesArePublished == \A s \in Server : Published(up[s].kind, up[s].collected)

(* Where names are apart, the name of a tool leads to it.                  *)
IsHome(p) ==
  NamesAreApart => routing[Namespaced[p]] = [srv |-> p[1], tool |-> p[2]]

(* A merge has routed what is neither still to do nor in hand, and what is *)
(* in hand is in the ledger.                                               *)
MergeIsInOrder(s) ==
  /\ up[s].pc # "route" => up[s].cur = {}
  /\ \A p, q \in up[s].cur : p = q
  /\ up[s].pc \in {"merge", "route"} =>
       /\ up[s].todo \cup up[s].cur \subseteq Listed(up[s].collected)
       /\ \A p \in up[s].cur : ledger[Namespaced[p]] # NoSchema
       /\ \A p \in Listed(up[s].collected) \ (up[s].todo \cup up[s].cur) : IsHome(p)

MergesAreInOrder == \A s \in Server : MergeIsInOrder(s)

(* A name is routed to the tool that has it.                               *)
RoutesAreOwn ==
  \A n \in Name : routing[n] # NoRoute =>
    /\ routing[n].srv \in Server /\ routing[n].tool \in Bare
    /\ Namespaced[<<routing[n].srv, routing[n].tool>>] = n

AdvertisedAreHome ==
  \A i \in DOMAIN toClient : toClient[i].type = "merged" =>
    \A p \in Listed(toClient[i].answers) : IsHome(p)

(* A recorded schema was published for a tool of that name.                *)
SchemasArePublished ==
  \A n \in Name : ledger[n] # NoSchema =>
    \E p \in Server \X Bare : \E l \in Listings[p[1]] :
      Namespaced[p] = n /\ l[p[2]] = ledger[n]

TablesInv ==
  /\ FanoutsArePublished
  /\ MergesArePublished
  /\ MergesAreInOrder
  /\ RoutesAreOwn
  /\ SchemasArePublished
  /\ RoutedIsRecorded
  /\ AdvertisedAreHome

(* What a handler has found out about its call.                            *)
Unrouted(r) == NoPrefix /\ loc[r].tool = frame[r].name

Found(r) ==
  /\ loc[r].tool \in Bare
  /\ Namespaced[<<loc[r].srv, loc[r].tool>>] = frame[r].name

Fits(r) ==
  Checked => \E l \in Listings[loc[r].srv] :
    /\ l[loc[r].tool] # NoSchema
    /\ loc[r].args = Rehydrate[<<frame[r].args, l[loc[r].tool]>>]
    /\ loc[r].args # Invalid

CallIsRouted(r) ==
  IsNamedCall(r) =>
    /\ pc[r] = "validate" =>
         Unrouted(r) \/ (Found(r) /\ routing[frame[r].name] # NoRoute)
    /\ pc[r] \in {"register", "send"} => Unrouted(r) \/ (Found(r) /\ Fits(r))

CallsAreRouted == \A r \in Req : CallIsRouted(r)

(* ... which holds where names are apart, unlike the rest.                 *)
ToolsInv == TablesInv /\ CallsAreRouted /\ CallIsIntended

(* A merge of lists records what the client is then sent; when none is     *)
(* under way, the ledger is as the client was told.  With one upstream     *)
(* there is one merge at a time.                                           *)
LedgerIsInOrder(s) ==
  /\ up[s].pc # "read" => up[s].kind = frame[up[s].client].method
  /\ up[s].pc \in {"read", "close"} \/ up[s].kind # "tools/list" => ToldIsInForce
  /\ up[s].pc \in {"merge", "route"} /\ up[s].kind = "tools/list" =>
       \A p \in Listed(up[s].collected) \ up[s].todo :
         ledger[Namespaced[p]] = up[s].collected[p[1]].list[p[2]]

LedgerInv == \A s \in Server : LedgerIsInOrder(s)
=============================================================================
