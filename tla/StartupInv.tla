----------------------------- MODULE StartupInv -----------------------------
(***************************************************************************)
(* The inductive invariant of Startup: how far the command line has been   *)
(* read, and what has become of it so far.                                 *)
(***************************************************************************)
EXTENDS Startup

(* The "--" that ends the gateway's own options is the first of these.     *)
Marks == {i \in DOMAIN asked : asked[i].opt = "--" /\ ~IsValue(i)}

(* The next token, or the place after the last.                            *)
Place == Len(asked) - Len(argv) + 1

IsRead == start \in {"parse", "resolve", "ready"}

(* What is still to be read is the end of the command line.                *)
LineIsReadInOrder ==
  /\ Len(argv) <= Len(asked)
  /\ \A i \in DOMAIN argv : argv[i] = asked[Place - 1 + i]
  /\ start \in {"resolve", "ready"} => argv = <<>>

(* Until the mark is met, the next token is nobody's value; after it, all  *)
(* tokens are the command's.                                               *)
MarkIsAhead ==
  /\ cli.command = <<>>
  /\ ~IsValue(Place)
  /\ \A i \in Marks : Place <= i

CommandIsBehind ==
  \E r \in Marks :
    /\ \A i \in Marks : r <= i
    /\ r < Place
    /\ cli.command = SubSeq(asked, r + 1, Place - 1)

CommandIsInOrder == IsRead => IF dashes THEN CommandIsBehind ELSE MarkIsAhead

ToldFirst ==
  start = "told" => \E i \in DOMAIN asked :
    asked[i].opt \in {"--help", "--version"} /\ \A j \in Marks : i < j

(* The prefixes are those of a file that has been validated, or there is   *)
(* one upstream without any.                                               *)
SpecsAreValid ==
  start = "ready" =>
    \/ specs = << <<>> >>
    \/ /\ file # NoFile /\ Valid(file)
       /\ specs = [i \in DOMAIN file.servers |-> file.servers[i].name]

StartInvariant ==
  /\ StartTypeOK
  /\ LineIsReadInOrder
  /\ CommandIsInOrder
  /\ ToldFirst
  /\ SpecsAreValid
=============================================================================
