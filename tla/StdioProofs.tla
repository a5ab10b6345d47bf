----------------------------- MODULE StdioProofs -----------------------------
(***************************************************************************)
(* Proofs about Stdio, for any number of upstreams and lines, any command  *)
(* line and pipes of any capacity.                                         *)
(***************************************************************************)
EXTENDS StdioRelay, StartupProofs

(* main's session.                                                         *)
LEMMA MainIs == main \in Sess
  BY StdioAssumption DEF main

(* Sequences: the first of one moves to the end of the one before it.      *)
LEMMA Moved ==
  ASSUME NEW S, NEW q \in Seq(S), NEW r \in Seq(S), r # <<>>
  PROVE  /\ Head(r) \in S /\ Head(r) = r[1] /\ Tail(r) \in Seq(S) /\ Len(Tail(r)) = Len(r) - 1
         /\ Len(r) \in Nat \ {0}
         /\ \A i \in 1 .. Len(r) - 1 : Tail(r)[i] = r[i + 1]
         /\ Append(q, Head(r)) \in Seq(S) /\ Len(Append(q, Head(r))) = Len(q) + 1
         /\ Append(q, Head(r)) \o Tail(r) = q \o r
  OBVIOUS

(* Sequences: one more at the end of the last of three.                    *)
LEMMA Appended ==
  ASSUME NEW S, NEW q \in Seq(S), NEW r \in Seq(S), NEW x \in S
  PROVE  /\ Append(q, x) \in Seq(S) /\ Len(Append(q, x)) = Len(q) + 1 /\ Len(q) \in Nat
         /\ \A i \in 1 .. Len(q) : Append(q, x)[i] = q[i]
         /\ Append(q, x)[Len(q) + 1] = x
         /\ q \o Append(r, x) = Append(q \o r, x)
  OBVIOUS

(* Sequences: three in a row.                                              *)
LEMMA Regrouped ==
  ASSUME NEW S, NEW q \in Seq(S), NEW r \in Seq(S), NEW u \in Seq(S)
  PROVE  /\ q \o r \in Seq(S) /\ r \o u \in Seq(S) /\ q \o r \o u \in Seq(S)
         /\ q \o r \o u = q \o (r \o u)
  OBVIOUS

(* The same of sequences of numbers.                                       *)
LEMMA RegroupedNumbers ==
  ASSUME NEW q \in Seq(Nat), NEW r \in Seq(Nat), NEW u \in Seq(Nat)
  PROVE  q \o r \o u = q \o (r \o u)
  OBVIOUS

(* Sequences: the set of what is in one.                                   *)
LEMMA SetOf ==
  ASSUME NEW S, NEW q \in Seq(S)
  PROVE  ToSet(q) = {q[i] : i \in 1 .. Len(q)} /\ ToSet(q) \subseteq S
<1>1. DOMAIN q = 1 .. Len(q) /\ \A i \in 1 .. Len(q) : q[i] \in S
  OBVIOUS
<1> QED
  BY <1>1 DEF ToSet

(* Sequences: what is in them.                                             *)
LEMMA Members ==
  ASSUME NEW S, NEW q \in Seq(S), NEW r \in Seq(S)
  PROVE  ToSet(q \o r) = ToSet(q) \cup ToSet(r)
<1>1. \A p \in Seq(S) : ToSet(p) = {p[i] : i \in 1 .. Len(p)}
  BY SetOf
<1>2. /\ q \o r \in Seq(S) /\ Len(q \o r) = Len(q) + Len(r)
      /\ Len(q) \in Nat /\ Len(r) \in Nat
      /\ \A k \in 1 .. Len(q) : (q \o r)[k] = q[k]
      /\ \A k \in 1 .. Len(r) : (q \o r)[Len(q) + k] = r[k]
  BY Joined
<1>3. ToSet(q \o r) = ToSet(q) \cup ToSet(r)
  <2>1. ASSUME NEW i \in 1 .. Len(q) + Len(r) PROVE (q \o r)[i] \in ToSet(q) \cup ToSet(r)
    <3>1. CASE i <= Len(q)
      BY <1>1, <1>2, <3>1
    <3>2. CASE ~(i <= Len(q))
      <4>1. i - Len(q) \in 1 .. Len(r) /\ Len(q) + (i - Len(q)) = i
        BY <1>2, <3>2
      <4>2. (q \o r)[i] = r[i - Len(q)]
        BY <1>2, <4>1
      <4> QED
        BY <1>1, <4>1, <4>2
    <3> QED
      BY <3>1, <3>2
  <2>2. \A k \in 1 .. Len(q) : k \in 1 .. Len(q) + Len(r)
    BY <1>2
  <2>3. \A k \in 1 .. Len(r) : Len(q) + k \in 1 .. Len(q) + Len(r)
    BY <1>2
  <2>4. ToSet(q \o r) = {(q \o r)[i] : i \in 1 .. Len(q) + Len(r)}
    BY <1>1, <1>2
  <2>5. ToSet(q) \subseteq ToSet(q \o r)
    BY <1>1, <1>2, <2>2, <2>4
  <2>6. ToSet(r) \subseteq ToSet(q \o r)
    BY <1>1, <1>2, <2>3, <2>4
  <2> QED
    BY <2>1, <2>4, <2>5, <2>6
<1> QED
  BY <1>1, <1>3

(* Sequences: what is in one with one more.                                *)
LEMMA MembersOfMore ==
  ASSUME NEW S, NEW q \in Seq(S), NEW x \in S
  PROVE  ToSet(Append(q, x)) = ToSet(q) \cup {x}
<1>1. \A p \in Seq(S) : ToSet(p) = {p[i] : i \in 1 .. Len(p)}
  BY SetOf
<1>2. Len(q) \in Nat
  OBVIOUS
<1>3. ToSet(Append(q, x)) = ToSet(q) \cup {x}
  <2>1. /\ Append(q, x) \in Seq(S) /\ Len(Append(q, x)) = Len(q) + 1
        /\ \A i \in 1 .. Len(q) : Append(q, x)[i] = q[i]
        /\ Append(q, x)[Len(q) + 1] = x
    BY Appended
  <2>2. ToSet(Append(q, x)) = {Append(q, x)[i] : i \in 1 .. Len(q) + 1}
    BY <1>1, <2>1
  <2>3. \A i \in 1 .. Len(q) + 1 : i \in 1 .. Len(q) \/ i = Len(q) + 1
    BY <1>2
  <2>4. (\A i \in 1 .. Len(q) : i \in 1 .. Len(q) + 1) /\ Len(q) + 1 \in 1 .. Len(q) + 1
    BY <1>2
  <2> QED
    BY <1>1, <2>1, <2>2, <2>3, <2>4
<1> QED
  BY <1>3

-----------------------------------------------------------------------------
(* What begins a sequence that holds the first members of a set holds the  *)
(* first of them itself.                                                   *)
LEMMA BeginningBegins ==
  ASSUME NEW S, NEW q \in Seq(Nat), NEW r \in Seq(Nat), Begins(q \o r, S)
  PROVE  Begins(q, S)
<1> DEFINE p == q \o r
<1>1. /\ p \in Seq(Nat) /\ Len(p) = Len(q) + Len(r) /\ Len(q) \in Nat /\ Len(r) \in Nat
      /\ \A k \in 1 .. Len(q) : p[k] = q[k]
  BY Joined
<1>2. ToSet(q) = {q[i] : i \in 1 .. Len(q)} /\ ToSet(p) = {p[i] : i \in 1 .. Len(p)}
  BY <1>1, SetOf
<1>3. /\ DOMAIN q = 1 .. Len(q) /\ DOMAIN p = 1 .. Len(p)
      /\ \A i \in 1 .. Len(q) : i \in 1 .. Len(p) /\ q[i] \in Nat
      /\ \A i \in 1 .. Len(p) : p[i] \in Nat
  BY <1>1
<1>4. /\ Increasing(p) /\ ToSet(p) \subseteq S
      /\ \A k \in S, h \in ToSet(p) : k <= h => k \in ToSet(p)
  BY DEF Begins
<1> HIDE DEF p
<1>5. Increasing(q)
  BY <1>1, <1>3, <1>4 DEF Increasing
<1>6. ToSet(q) \subseteq ToSet(p)
  BY <1>1, <1>2, <1>3
<1>7. ASSUME NEW k \in S, NEW h \in ToSet(q), k <= h PROVE k \in ToSet(q)
  <2>1. k \in ToSet(p)
    BY <1>4, <1>6, <1>7
  <2>2. PICK i \in 1 .. Len(p) : k = p[i]
    BY <1>2, <2>1
  <2>3. PICK j \in 1 .. Len(q) : h = q[j]
    BY <1>2, <1>7
  <2>4. i <= j
    <3> SUFFICES ASSUME j < i PROVE FALSE
      BY <2>2, <2>3
    <3>1. p[j] < p[i]
      BY <1>3, <1>4 DEF Increasing
    <3>2. p[i] <= p[j] /\ p[i] \in Nat /\ p[j] \in Nat
      BY <1>1, <1>3, <1>7, <2>2, <2>3
    <3> QED
      BY <3>1, <3>2
  <2>5. i \in 1 .. Len(q)
    BY <1>1, <2>2, <2>3, <2>4
  <2> QED
    BY <1>1, <1>2, <2>2, <2>5
<1> QED
  BY <1>4, <1>5, <1>6, <1>7 DEF Begins

(* A greater number goes to the end of all of a set, or is left out.       *)
LEMMA OneMoreBegins ==
  ASSUME NEW S, S \subseteq Nat, NEW q \in Seq(Nat), Begins(q, S), NEW k \in Nat,
         \A h \in S : h < k
  PROVE  /\ Begins(q, S \cup {k})
         /\ ToSet(q) = S => Begins(Append(q, k), S \cup {k})
                            /\ ToSet(Append(q, k)) = S \cup {k}
<1>1. /\ Increasing(q) /\ ToSet(q) \subseteq S
      /\ \A x \in S, h \in ToSet(q) : x <= h => x \in ToSet(q)
  BY DEF Begins
<1>2. Begins(q, S \cup {k})
  <2>1. ASSUME NEW h \in ToSet(q), k <= h PROVE FALSE
    <3>1. h \in Nat /\ h < k
      BY <1>1
    <3> QED
      BY <2>1, <3>1
  <2> QED
    BY <1>1, <2>1 DEF Begins
<1>3. ASSUME ToSet(q) = S
      PROVE  Begins(Append(q, k), S \cup {k}) /\ ToSet(Append(q, k)) = S \cup {k}
  <2> DEFINE p == Append(q, k)
  <2>1. /\ p \in Seq(Nat) /\ Len(p) = Len(q) + 1 /\ Len(q) \in Nat
        /\ \A i \in 1 .. Len(q) : p[i] = q[i]
        /\ p[Len(q) + 1] = k
    BY Appended
  <2>2. ToSet(p) = S \cup {k}
    BY <1>3, MembersOfMore
  <2>3. DOMAIN p = 1 .. Len(q) + 1 /\ DOMAIN q = 1 .. Len(q)
    BY <2>1
  <2>4. \A i \in 1 .. Len(q) : q[i] \in S
    BY <1>3, <2>3 DEF ToSet
  <2> HIDE DEF p
  <2>5. ASSUME NEW i \in DOMAIN p, NEW j \in DOMAIN p, i < j PROVE p[i] < p[j]
    <3>1. i \in 1 .. Len(q) /\ (j \in 1 .. Len(q) \/ j = Len(q) + 1)
      BY <2>1, <2>3, <2>5
    <3>2. CASE j \in 1 .. Len(q)
      <4>1. q[i] < q[j]
        BY <1>1, <2>3, <2>5, <3>1, <3>2 DEF Increasing
      <4> QED
        BY <2>1, <3>1, <3>2, <4>1
    <3>3. CASE j = Len(q) + 1
      BY <2>1, <2>4, <3>1, <3>3
    <3> QED
      BY <3>1, <3>2, <3>3
  <2>6. Increasing(p)
    BY <2>5 DEF Increasing
  <2>7. Begins(p, S \cup {k})
    BY <2>2, <2>6 DEF Begins
  <2> QED
    BY <2>2, <2>7 DEF p
<1> QED
  BY <1>2, <1>3

-----------------------------------------------------------------------------
(* Frames: those of one upstream, and whether they are in turn.            *)
LEMMA NumbersOfMore ==
  ASSUME NEW q \in Seq(Frame), NEW f \in Frame, NEW s
  PROVE  Numbers(s, Append(q, f)) =
           Numbers(s, q) \cup (IF f # Torn /\ f.from = s THEN {f.n} ELSE {})
<1> DEFINE p == Append(q, f)
<1>1. /\ p \in Seq(Frame) /\ Len(p) = Len(q) + 1 /\ Len(q) \in Nat
      /\ \A i \in 1 .. Len(q) : p[i] = q[i]
      /\ p[Len(q) + 1] = f
  BY Appended
<1>2. DOMAIN p = 1 .. Len(q) + 1 /\ DOMAIN q = 1 .. Len(q)
  BY <1>1
<1> HIDE DEF p
<1>3. ASSUME NEW x \in Numbers(s, p)
      PROVE  x \in Numbers(s, q) \cup (IF f # Torn /\ f.from = s THEN {f.n} ELSE {})
  <2>1. PICK i \in DOMAIN p : p[i] # Torn /\ p[i].from = s /\ x = p[i].n
    BY DEF Numbers
  <2>2. i \in 1 .. Len(q) \/ i = Len(q) + 1
    BY <1>1, <1>2
  <2>3. CASE i \in 1 .. Len(q)
    BY <1>1, <1>2, <2>1, <2>3 DEF Numbers
  <2>4. CASE i = Len(q) + 1
    BY <1>1, <2>1, <2>4
  <2> QED
    BY <2>2, <2>3, <2>4
<1>4. ASSUME NEW x \in Numbers(s, q) PROVE x \in Numbers(s, p)
  <2>1. PICK i \in 1 .. Len(q) : q[i] # Torn /\ q[i].from = s /\ x = q[i].n
    BY <1>2 DEF Numbers
  <2>2. i \in DOMAIN p /\ p[i] = q[i]
    BY <1>1, <1>2
  <2> QED
    BY <2>1, <2>2 DEF Numbers
<1>5. ASSUME f # Torn, f.from = s PROVE f.n \in Numbers(s, p)
  <2>1. Len(q) + 1 \in DOMAIN p
    BY <1>1, <1>2
  <2> QED
    BY <1>1, <1>5, <2>1 DEF Numbers
<1>6. Numbers(s, p) = Numbers(s, q) \cup (IF f # Torn /\ f.from = s THEN {f.n} ELSE {})
  BY <1>3, <1>4, <1>5
<1> QED
  BY <1>6 DEF p

(* What comes before the last is the sequence without it.                  *)
LEMMA BeforeLast ==
  ASSUME NEW S, NEW q \in Seq(S), NEW x \in S
  PROVE  /\ SubSeq(Append(q, x), 1, Len(q)) = q
         /\ \A i \in 1 .. Len(q) : SubSeq(Append(q, x), 1, i - 1) = SubSeq(q, 1, i - 1)
  OBVIOUS

(* One more that is its upstream's next, or is torn, keeps frames in turn. *)
LEMMA MoreInTurn ==
  ASSUME NEW q \in Seq(Frame), NEW f \in Frame, InTurn(q),
         f # Torn => Numbers(f.from, q) = 1 .. f.n - 1
  PROVE  InTurn(Append(q, f))
<1> DEFINE p == Append(q, f)
<1>1. /\ p \in Seq(Frame) /\ Len(p) = Len(q) + 1 /\ Len(q) \in Nat
      /\ \A i \in 1 .. Len(q) : p[i] = q[i]
      /\ p[Len(q) + 1] = f
  BY Appended
<1>2. DOMAIN p = 1 .. Len(q) + 1 /\ DOMAIN q = 1 .. Len(q)
  BY <1>1
<1>3. /\ SubSeq(p, 1, Len(q)) = q
      /\ \A i \in 1 .. Len(q) : SubSeq(p, 1, i - 1) = SubSeq(q, 1, i - 1)
  BY BeforeLast
<1> HIDE DEF p
<1>4. ASSUME NEW i \in DOMAIN p, p[i] # Torn
      PROVE  Numbers(p[i].from, SubSeq(p, 1, i - 1)) = 1 .. p[i].n - 1
  <2>1. CASE i \in 1 .. Len(q)
    BY <1>1, <1>2, <1>3, <1>4, <2>1 DEF InTurn
  <2>2. CASE i = Len(q) + 1
    <3>1. i - 1 = Len(q) /\ p[i] = f
      BY <1>1, <2>2
    <3> QED
      BY <1>3, <1>4, <3>1
  <2> QED
    BY <1>1, <1>2, <2>1, <2>2
<1>5. InTurn(p)
  BY <1>4 DEF InTurn
<1> QED
  BY <1>5 DEF p

(* The beginning of frames in turn is in turn, and has no other numbers.   *)
LEMMA BeginningInTurn ==
  ASSUME NEW q \in Seq(Frame), NEW r \in Seq(Frame)
  PROVE  /\ InTurn(q \o r) => InTurn(q)
         /\ \A s : Numbers(s, q) \subseteq Numbers(s, q \o r)
<1> DEFINE p == q \o r
<1>1. /\ p \in Seq(Frame) /\ Len(p) = Len(q) + Len(r) /\ Len(q) \in Nat /\ Len(r) \in Nat
      /\ \A k \in 1 .. Len(q) : p[k] = q[k]
  BY Joined
<1>2. /\ DOMAIN p = 1 .. Len(p) /\ DOMAIN q = 1 .. Len(q)
      /\ \A i \in 1 .. Len(q) : i \in 1 .. Len(p)
  BY <1>1
<1>3. \A i \in 1 .. Len(q) : SubSeq(p, 1, i - 1) = SubSeq(q, 1, i - 1)
  OBVIOUS
<1> HIDE DEF p
<1>4. InTurn(p) => InTurn(q)
  BY <1>1, <1>2, <1>3 DEF InTurn
<1>5. \A s : Numbers(s, q) \subseteq Numbers(s, p)
  BY <1>1, <1>2 DEF Numbers
<1> QED
  BY <1>4, <1>5 DEF p

-----------------------------------------------------------------------------
(* The types, conjunct by conjunct.                                        *)
LEMMA IoFacts ==
  ASSUME IoTypeOK
  PROVE  /\ queue \in [Server -> Seq(Nat)] /\ stdin \in [Server -> Seq(Nat)]
         /\ heard \in [Server -> Seq(Nat)] /\ stdout \in [Server -> Seq(Nat)]
         /\ todo \in [Server -> Nat] /\ made \in [Server -> Nat]
         /\ toClient \in Seq(Frame) /\ hold \in Seq(Frame) /\ out \in Seq(Frame)
         /\ got \in Seq(Frame)
         /\ taken \in Nat /\ hand \subseteq Server /\ script \in Seq(Line)
         /\ written \in [n : Nat, open : BOOLEAN]
<1>1. script \in Seq(Line)
  BY StdioAssumption DEF IoTypeOK
<1> QED
  BY <1>1 DEF IoTypeOK

(* A line that has been handed out is one of the script's.                 *)
LEMMA HandedFacts ==
  ASSUME IoTypeOK, LinesAreTaken, NEW s
  PROVE  /\ Handed(s) \subseteq 1 .. taken
         /\ \A k \in Handed(s) : k \in Nat \ {0} /\ script[k] \in Line /\ s \in To[script[k]]
<1>1. taken <= written.n /\ written.n <= Len(script) /\ taken \in Nat /\ written.n \in Nat
      /\ script \in Seq(Line)
  BY IoFacts DEF LinesAreTaken
<1>2. \A k \in 1 .. taken : k \in Nat \ {0} /\ script[k] \in Line
  BY <1>1
<1> QED
  BY <1>2 DEF Handed

(* Three sequences in a row, of which the first element of one moves to    *)
(* the end of the one before it, or the last gets one more.                *)
LEMMA FlowMoves ==
  ASSUME NEW h \in Seq(Nat), NEW i \in Seq(Nat), NEW q \in Seq(Nat)
  PROVE  /\ q # <<>> => h \o Append(i, Head(q)) \o Tail(q) = h \o i \o q
         /\ i # <<>> => Append(h, Head(i)) \o Tail(i) \o q = h \o i \o q
         /\ \A x \in Nat : h \o i \o Append(q, x) = Append(h \o i \o q, x)
<1>1. ASSUME q # <<>> PROVE h \o Append(i, Head(q)) \o Tail(q) = h \o i \o q
  <2> DEFINE a == Append(i, Head(q))
             b == Tail(q)
  <2>1. a \in Seq(Nat) /\ b \in Seq(Nat) /\ a \o b = i \o q
    BY <1>1, Moved
  <2> HIDE DEF a, b
  <2>2. h \o a \o b = h \o (a \o b)
    BY <2>1, RegroupedNumbers
  <2>3. h \o i \o q = h \o (i \o q)
    BY RegroupedNumbers
  <2>4. h \o a \o b = h \o i \o q
    BY <2>1, <2>2, <2>3, Zenon
  <2> QED
    BY <2>4 DEF a, b
<1>2. ASSUME i # <<>> PROVE Append(h, Head(i)) \o Tail(i) \o q = h \o i \o q
  <2>1. Append(h, Head(i)) \o Tail(i) = h \o i
    BY <1>2, Moved
  <2> QED
    BY <2>1
<1>3. ASSUME NEW x \in Nat PROVE h \o i \o Append(q, x) = Append(h \o i \o q, x)
  <2> DEFINE p == h \o i
  <2>1. p \in Seq(Nat)
    OBVIOUS
  <2> HIDE DEF p
  <2>2. p \o Append(q, x) = Append(p \o q, x)
    BY <2>1
  <2> QED
    BY <2>2 DEF p
<1> QED
  BY <1>1, <1>2, <1>3

(* The parts of a flow.                                                    *)
LEMMA FlowFacts ==
  ASSUME IoTypeOK, NEW s \in Server
  PROVE  /\ heard[s] \in Seq(Nat) /\ stdin[s] \in Seq(Nat) /\ queue[s] \in Seq(Nat)
         /\ Flow(s) \in Seq(Nat) /\ stdin[s] \o queue[s] \in Seq(Nat)
         /\ Flow(s) = heard[s] \o (stdin[s] \o queue[s])
         /\ ToSet(Flow(s)) = ToSet(heard[s]) \cup ToSet(stdin[s]) \cup ToSet(queue[s])
<1>1. heard[s] \in Seq(Nat) /\ stdin[s] \in Seq(Nat) /\ queue[s] \in Seq(Nat)
  BY IoFacts
<1> DEFINE h == heard[s]
           i == stdin[s]
           q == queue[s]
<1>2. h \in Seq(Nat) /\ i \in Seq(Nat) /\ q \in Seq(Nat) /\ 0 \in Nat
  BY <1>1
<1>3. Flow(s) = h \o i \o q
  BY DEF Flow
<1> HIDE DEF h, i, q
<1>4. h \o i \in Seq(Nat) /\ i \o q \in Seq(Nat) /\ h \o i \o q \in Seq(Nat)
      /\ h \o i \o q = h \o (i \o q)
  BY <1>2, Regrouped
<1>5. ToSet(h \o i) = ToSet(h) \cup ToSet(i)
      /\ ToSet(h \o i \o q) = ToSet(h \o i) \cup ToSet(q)
  <2>1. ToSet(h \o i) = ToSet(h) \cup ToSet(i)
    BY <1>2, Members, Zenon
  <2>2. ToSet(h \o i \o q) = ToSet(h \o i) \cup ToSet(q)
    <3>1. \A p \in Seq(Nat) : ToSet(p \o q) = ToSet(p) \cup ToSet(q)
      BY <1>2, Members, Zenon
    <3> QED
      BY <1>4, <3>1, Zenon
  <2> QED
    BY <2>1, <2>2
<1> QED
  BY <1>2, <1>3, <1>4, <1>5 DEF h, i, q

(* What an upstream reads next is a line of the script that is for it.     *)
LEMMA NextIsALine ==
  ASSUME IoTypeOK, LinesAreTaken, FlowsAreInOrder, NEW s \in Server, stdin[s] # <<>>
  PROVE  /\ Head(stdin[s]) \in Nat \ {0}
         /\ Answers[script[Head(stdin[s])]] \in Nat
<1>1. stdin[s] \in Seq(Nat) /\ ToSet(stdin[s]) \subseteq Handed(s)
  BY FlowFacts DEF FlowsAreInOrder, FlowIsInOrder, Begins
<1>2. Head(stdin[s]) \in ToSet(stdin[s])
  <2>1. Head(stdin[s]) = stdin[s][1] /\ 1 \in 1 .. Len(stdin[s])
    BY <1>1
  <2> QED
    BY <1>1, <2>1, SetOf
<1>3. Head(stdin[s]) \in Nat \ {0} /\ script[Head(stdin[s])] \in Line
  BY <1>1, <1>2, HandedFacts
<1> QED
  BY <1>3, StdioAssumption

-----------------------------------------------------------------------------
(* Steps that leave the lines alone, and do not start a pump.              *)
LEMMA FlowsKept ==
  ASSUME FlowsAreInOrder, UNCHANGED <<heard, stdin, queue, taken, hand, script>>,
         \A s \in Server : PumpRuns(s)' => PumpRuns(s)
  PROVE  FlowsAreInOrder'
<1> SUFFICES ASSUME NEW s \in Server PROVE FlowIsInOrder(s)'
  BY DEF FlowsAreInOrder
<1>1. Flow(s)' = Flow(s) /\ Handed(s)' = Handed(s)
  BY DEF Flow, Handed
<1>2. FlowIsInOrder(s) /\ (PumpRuns(s)' => PumpRuns(s))
  BY DEF FlowsAreInOrder
<1> QED
  BY <1>1, <1>2 DEF FlowIsInOrder, Begins, Increasing

(* Steps that move a line along a flow.                                    *)
LEMMA FlowsMoved ==
  ASSUME FlowsAreInOrder, UNCHANGED <<taken, hand, script, reader, writer>>,
         \A s \in Server : Flow(s)' = Flow(s)
  PROVE  FlowsAreInOrder'
<1> SUFFICES ASSUME NEW s \in Server PROVE FlowIsInOrder(s)'
  BY DEF FlowsAreInOrder
<1>1. Flow(s)' = Flow(s) /\ Handed(s)' = Handed(s) /\ PumpRuns(s)' = PumpRuns(s)
  BY DEF Handed, PumpRuns, AtWork
<1>2. FlowIsInOrder(s)
  BY DEF FlowsAreInOrder
<1> QED
  BY <1>1, <1>2 DEF FlowIsInOrder, Begins, Increasing

(* The reader takes a line: it is handed to nobody yet.                    *)
LEMMA TakeLineFlows ==
  ASSUME IoTypeOK, FlowsAreInOrder, TakeLine
  PROVE  FlowsAreInOrder'
<1>1. /\ hand = {} /\ taken' = taken + 1 /\ hand' = To[script[taken + 1]] /\ taken \in Nat
      /\ UNCHANGED <<heard, stdin, queue, script, reader, writer>>
  BY IoFacts DEF TakeLine, sessionVars, clientVars, upstreamVars
<1> SUFFICES ASSUME NEW s \in Server PROVE FlowIsInOrder(s)'
  BY DEF FlowsAreInOrder
<1>2. Flow(s)' = Flow(s) /\ PumpRuns(s)' = PumpRuns(s)
  BY <1>1 DEF Flow, PumpRuns
<1>3. Handed(s)' = Handed(s)
  <2>1. Handed(s)' = {k \in 1 .. taken + 1 :
                        s \in To[script[k]] /\ (k = taken + 1 => s \notin To[script[taken + 1]])}
    BY <1>1 DEF Handed
  <2>2. Handed(s) = {k \in 1 .. taken : s \in To[script[k]]}
    BY <1>1 DEF Handed
  <2>3. \A k \in 1 .. taken + 1 : k \in 1 .. taken \/ k = taken + 1
    BY <1>1
  <2>4. \A k \in 1 .. taken : k \in 1 .. taken + 1 /\ k # taken + 1
    BY <1>1
  <2> QED
    BY <2>1, <2>2, <2>3, <2>4
<1>4. FlowIsInOrder(s)
  BY DEF FlowsAreInOrder
<1> QED
  BY <1>2, <1>3, <1>4 DEF FlowIsInOrder, Begins, Increasing

(* The line taken last is handed to one more upstream, and no other is     *)
(* before it on the way.                                                   *)
LEMMA HandFlows ==
  ASSUME IoTypeOK, LinesAreTaken, FlowsAreInOrder, NEW r \in Server, Hand(r)
  PROVE  FlowsAreInOrder'
<1>1. /\ r \in hand /\ hand' = hand \ {r}
      /\ queue' = IF PumpRuns(r) THEN [queue EXCEPT ![r] = Append(@, taken)] ELSE queue
      /\ UNCHANGED <<heard, stdin, taken, script, reader, writer>>
  BY DEF Hand, sessionVars, clientVars, upstreamVars
<1>2. /\ taken \in Nat \ {0} /\ r \in To[script[taken]]
  BY <1>1, IoFacts DEF LinesAreTaken
<1> SUFFICES ASSUME NEW s \in Server PROVE FlowIsInOrder(s)'
  BY DEF FlowsAreInOrder
<1>3. PumpRuns(s)' = PumpRuns(s) /\ FlowIsInOrder(s)
  BY <1>1 DEF PumpRuns, FlowsAreInOrder
<1>4. CASE s # r
  <2>1. queue'[s] = queue[s]
    BY <1>1, <1>4, IoFacts
  <2>2. Flow(s)' = Flow(s)
    BY <1>1, <2>1 DEF Flow
  <2>3. Handed(s)' = Handed(s)
    BY <1>1, <1>4 DEF Handed
  <2> QED
    BY <1>3, <2>2, <2>3 DEF FlowIsInOrder, Begins, Increasing
<1>5. CASE s = r
  <2>1. Handed(s)' = Handed(s) \cup {taken}
    BY <1>1, <1>2, <1>5 DEF Handed
  <2>2. Handed(s) \subseteq Nat /\ \A h \in Handed(s) : h < taken
    <3>1. \A h \in Handed(s) : h \in 1 .. taken /\ h # taken
      BY <1>1, <1>5 DEF Handed
    <3> QED
      BY <1>2, <3>1
  <2>3. Flow(s) \in Seq(Nat) /\ Begins(Flow(s), Handed(s))
        /\ (PumpRuns(s) => ToSet(Flow(s)) = Handed(s))
    BY <1>3, FlowFacts DEF FlowIsInOrder
  <2>4. /\ Begins(Flow(s), Handed(s) \cup {taken})
        /\ ToSet(Flow(s)) = Handed(s) =>
             /\ Begins(Append(Flow(s), taken), Handed(s) \cup {taken})
             /\ ToSet(Append(Flow(s), taken)) = Handed(s) \cup {taken}
    BY <1>2, <2>2, <2>3, OneMoreBegins
  <2>5. CASE PumpRuns(r)
    <3>1. queue'[s] = Append(queue[s], taken)
      BY <1>1, <1>5, <2>5, IoFacts
    <3>2. Flow(s)' = Append(Flow(s), taken)
      <4>1. Flow(s)' = heard[s] \o stdin[s] \o Append(queue[s], taken)
        BY <1>1, <3>1 DEF Flow
      <4>2. heard[s] \in Seq(Nat) /\ stdin[s] \in Seq(Nat) /\ queue[s] \in Seq(Nat)
        BY FlowFacts
      <4>3. heard[s] \o stdin[s] \o Append(queue[s], taken)
              = Append(heard[s] \o stdin[s] \o queue[s], taken)
        BY <1>2, <4>2, FlowMoves
      <4> QED
        BY <4>1, <4>3 DEF Flow
    <3> QED
      BY <1>5, <2>1, <2>3, <2>4, <2>5, <3>2 DEF FlowIsInOrder, Begins, Increasing
  <2>6. CASE ~PumpRuns(r)
    <3>1. Flow(s)' = Flow(s)
      BY <1>1, <2>6 DEF Flow
    <3> QED
      BY <1>3, <1>5, <2>1, <2>4, <2>6, <3>1 DEF FlowIsInOrder, Begins, Increasing
  <2> QED
    BY <2>5, <2>6
<1> QED
  BY <1>4, <1>5

(* The pump moves the next line to the pipe.                               *)
LEMMA PumpFlows ==
  ASSUME IoTypeOK, FlowsAreInOrder, NEW r \in Server, Pump(r)
  PROVE  FlowsAreInOrder'
<1>1. /\ queue[r] # <<>>
      /\ stdin' = [stdin EXCEPT ![r] = Append(@, Head(queue[r]))]
      /\ queue' = [queue EXCEPT ![r] = Tail(@)]
      /\ UNCHANGED <<heard, taken, hand, script, reader, writer>>
  BY DEF Pump, sessionVars, clientVars
<1>2. ASSUME NEW s \in Server PROVE Flow(s)' = Flow(s)
  <2>1. CASE s # r
    <3>1. queue'[s] = queue[s] /\ stdin'[s] = stdin[s]
      BY <1>1, <2>1, IoFacts
    <3> QED
      BY <1>1, <3>1 DEF Flow
  <2>2. CASE s = r
    <3>1. queue'[s] = Tail(queue[s]) /\ stdin'[s] = Append(stdin[s], Head(queue[s]))
      BY <1>1, <2>2, IoFacts
    <3>2. heard[s] \in Seq(Nat) /\ stdin[s] \in Seq(Nat) /\ queue[s] \in Seq(Nat)
          /\ queue[s] # <<>>
      BY <1>1, <2>2, FlowFacts
    <3>3. heard[s] \o Append(stdin[s], Head(queue[s])) \o Tail(queue[s])
            = heard[s] \o stdin[s] \o queue[s]
      BY <3>2, FlowMoves
    <3>4. Flow(s)' = heard[s] \o Append(stdin[s], Head(queue[s])) \o Tail(queue[s])
      BY <1>1, <3>1 DEF Flow
    <3> QED
      BY <3>3, <3>4 DEF Flow
  <2> QED
    BY <2>1, <2>2
<1> QED
  BY <1>1, <1>2, FlowsMoved

(* The upstream reads the next line from the pipe.                         *)
LEMMA ReadFlows ==
  ASSUME IoTypeOK, FlowsAreInOrder, NEW r \in Server, UpstreamReads(r)
  PROVE  FlowsAreInOrder'
<1>1. /\ stdin[r] # <<>>
      /\ heard' = [heard EXCEPT ![r] = Append(@, Head(stdin[r]))]
      /\ stdin' = [stdin EXCEPT ![r] = Tail(@)]
      /\ UNCHANGED <<queue, taken, hand, script, reader, writer>>
  BY DEF UpstreamReads, sessionVars, clientVars, gateVars
<1>2. ASSUME NEW s \in Server PROVE Flow(s)' = Flow(s)
  <2>1. CASE s # r
    <3>1. heard'[s] = heard[s] /\ stdin'[s] = stdin[s]
      BY <1>1, <2>1, IoFacts
    <3> QED
      BY <1>1, <3>1 DEF Flow
  <2>2. CASE s = r
    <3>1. stdin'[s] = Tail(stdin[s]) /\ heard'[s] = Append(heard[s], Head(stdin[s]))
      BY <1>1, <2>2, IoFacts
    <3>2. heard[s] \in Seq(Nat) /\ stdin[s] \in Seq(Nat) /\ queue[s] \in Seq(Nat)
          /\ stdin[s] # <<>>
      BY <1>1, <2>2, FlowFacts
    <3>3. Append(heard[s], Head(stdin[s])) \o Tail(stdin[s]) \o queue[s]
            = heard[s] \o stdin[s] \o queue[s]
      BY <3>2, FlowMoves
    <3>4. Flow(s)' = Append(heard[s], Head(stdin[s])) \o Tail(stdin[s]) \o queue[s]
      BY <1>1, <3>1 DEF Flow
    <3> QED
      BY <3>3, <3>4 DEF Flow
  <2> QED
    BY <2>1, <2>2
<1> QED
  BY <1>1, <1>2, FlowsMoved

(* A pump ends: a read pump alone, a write pump with what is on its        *)
(* channel and, if the upstream has closed its input, in the pipe.         *)
LEMMA PumpGoes ==
  ASSUME NEW r \in Server, Ends(r)
  PROVE  /\ UNCHANGED <<stage, at, child, script, written, got, deaf, heard, todo, made, stdout,
                        hung, taken, hand, toClient, hold, out, drain, startVars>>
         /\ \/ /\ reader' = [reader EXCEPT ![main][r] = "ended"]
               /\ UNCHANGED <<writer, stdin, queue>>
            \/ /\ writer' = [writer EXCEPT ![main][r] = "ended"] /\ reader' = reader
               /\ queue' = [queue EXCEPT ![r] = <<>>]
               /\ stdin' = stdin \/ stdin' = [stdin EXCEPT ![r] = <<>>]
<1>1. CASE ReadPumpEnds(r)
  BY <1>1 DEF ReadPumpEnds, ReaderEnds, ReaderStops, ioVars, clientVars, upstreamVars, gateVars
<1>2. CASE WritePumpEnds(r)
  BY <1>2 DEF WritePumpEnds, WriterEnds, clientVars
<1>3. CASE WritePumpStops(r)
  BY <1>3 DEF WritePumpStops, WriterStops, clientVars, upstreamVars
<1> QED
  BY <1>1, <1>2, <1>3 DEF Ends

(* Nothing more comes to the upstream of a write pump that has ended.      *)
LEMMA EndsFlows ==
  ASSUME SessionTypeOK, IoTypeOK, FlowsAreInOrder, NEW r \in Server, Ends(r)
  PROVE  FlowsAreInOrder'
<1>1. CASE reader' = [reader EXCEPT ![main][r] = "ended"] /\ UNCHANGED <<writer, stdin, queue>>
  BY <1>1, PumpGoes, FlowsKept DEF PumpRuns
<1> SUFFICES ASSUME ~(reader' = [reader EXCEPT ![main][r] = "ended"]
                      /\ UNCHANGED <<writer, stdin, queue>>),
                    NEW s \in Server
             PROVE  FlowIsInOrder(s)'
  BY <1>1 DEF FlowsAreInOrder
<1>2. /\ writer' = [writer EXCEPT ![main][r] = "ended"]
      /\ queue' = [queue EXCEPT ![r] = <<>>]
      /\ stdin' = stdin \/ stdin' = [stdin EXCEPT ![r] = <<>>]
      /\ UNCHANGED <<heard, taken, hand, script>>
  BY PumpGoes
<1>3. FlowIsInOrder(s) /\ Handed(s)' = Handed(s)
  BY <1>2 DEF FlowsAreInOrder, Handed
<1>4. writer \in [Sess -> [Server -> Task]] /\ main \in Sess
  BY MainIs DEF SessionTypeOK
<1>5. CASE s # r
  <2>1. queue'[s] = queue[s] /\ stdin'[s] = stdin[s]
    BY <1>2, <1>5, IoFacts
  <2>2. Flow(s)' = Flow(s)
    BY <1>2, <2>1 DEF Flow
  <2>3. PumpRuns(s)' = PumpRuns(s)
    BY <1>2, <1>4, <1>5 DEF PumpRuns, AtWork
  <2> QED
    BY <1>3, <2>2, <2>3 DEF FlowIsInOrder, Begins, Increasing
<1>6. CASE s = r
  <2>1. queue'[s] = <<>> /\ stdin'[s] \in {stdin[s], <<>>}
    BY <1>2, <1>6, IoFacts
  <2>2. ~PumpRuns(s)'
    BY <1>2, <1>4, <1>6 DEF PumpRuns, AtWork
  <2>3. /\ heard[s] \in Seq(Nat) /\ stdin[s] \in Seq(Nat) /\ queue[s] \in Seq(Nat)
        /\ heard[s] \o stdin[s] \in Seq(Nat)
    BY FlowFacts, Regrouped
  <2>4. Flow(s)' = heard[s] \o stdin'[s]
    <3>1. Flow(s)' = heard[s] \o stdin'[s] \o <<>>
      BY <1>2, <2>1 DEF Flow
    <3>2. /\ heard[s] \o <<>> \o <<>> = heard[s] \o <<>>
          /\ heard[s] \o stdin[s] \o <<>> = heard[s] \o stdin[s]
      BY <2>3
    <3> QED
      BY <2>1, <3>1, <3>2
  <2>5. Begins(heard[s] \o stdin[s], Handed(s))
    BY <1>3, <2>3, BeginningBegins DEF FlowIsInOrder, Flow
  <2>6. Begins(heard[s], Handed(s)) /\ heard[s] \o <<>> = heard[s]
    BY <2>3, <2>5, BeginningBegins
  <2>7. Begins(Flow(s)', Handed(s))
    BY <2>1, <2>4, <2>5, <2>6
  <2> QED
    BY <1>3, <2>2, <2>7 DEF FlowIsInOrder, Begins, Increasing
<1> QED
  BY <1>5, <1>6

(* A pump starts when nothing is on its way.                               *)
LEMMA SpawnFlows ==
  ASSUME IoTypeOK, LinesAreTaken, FlowsAreInOrder,
         UNCHANGED <<heard, stdin, queue, taken, hand, script>>, taken = 0
  PROVE  FlowsAreInOrder'
<1> SUFFICES ASSUME NEW s \in Server PROVE FlowIsInOrder(s)'
  BY DEF FlowsAreInOrder
<1>1. Flow(s)' = Flow(s) /\ Handed(s)' = Handed(s) /\ FlowIsInOrder(s)
  BY DEF FlowsAreInOrder, Flow, Handed
<1>2. Handed(s) = {} /\ ToSet(Flow(s)) = {}
  <2>1. Handed(s) = {}
    BY DEF Handed
  <2> QED
    BY <1>1, <2>1 DEF FlowIsInOrder, Begins
<1> QED
  BY <1>1, <1>2 DEF FlowIsInOrder, Begins, Increasing

-----------------------------------------------------------------------------
(* The lines of the upstreams.                                             *)
LEMMA AnswersKept ==
  ASSUME AnswersAreInOrder, UNCHANGED <<made, stdout>>
  PROVE  AnswersAreInOrder'
BY DEF AnswersAreInOrder, Left

(* An upstream writes its next line.                                       *)
LEMMA WritesAnswers ==
  ASSUME IoTypeOK, AnswersAreInOrder, NEW r \in Server, UpstreamWrites(r)
  PROVE  AnswersAreInOrder' /\ \A s \in Server : Left(s)' = Left(s) /\ made[s] <= made'[s]
<1>1. /\ made' = [made EXCEPT ![r] = @ + 1]
      /\ stdout' = [stdout EXCEPT ![r] = Append(@, made[r] + 1)]
      /\ made \in [Server -> Nat] /\ stdout \in [Server -> Seq(Nat)]
  BY IoFacts DEF UpstreamWrites
<1> SUFFICES ASSUME NEW s \in Server
             PROVE  /\ Len(stdout'[s]) <= made'[s]
                    /\ \A i \in DOMAIN stdout'[s] : stdout'[s][i] = Left(s)' + i
                    /\ Left(s)' = Left(s) /\ made[s] <= made'[s]
  BY DEF AnswersAreInOrder
<1>2. /\ Len(stdout[s]) <= made[s]
      /\ \A i \in DOMAIN stdout[s] : stdout[s][i] = Left(s) + i
  BY DEF AnswersAreInOrder
<1>3. made[s] \in Nat /\ stdout[s] \in Seq(Nat)
  BY <1>1
<1>4. CASE s # r
  <2>1. made'[s] = made[s] /\ stdout'[s] = stdout[s]
    BY <1>1, <1>4
  <2> QED
    BY <1>2, <1>3, <2>1 DEF Left
<1>5. CASE s = r
  <2>1. made'[s] = made[s] + 1 /\ stdout'[s] = Append(stdout[s], made[s] + 1)
    BY <1>1, <1>5
  <2> DEFINE q == stdout[s]
             p == Append(q, made[s] + 1)
             l == made[s] - Len(q)
  <2>2. q \in Seq(Nat) /\ made[s] + 1 \in Nat
    BY <1>3
  <2>3. /\ p \in Seq(Nat) /\ Len(p) = Len(q) + 1 /\ Len(q) \in Nat
        /\ \A i \in 1 .. Len(q) : p[i] = q[i]
        /\ p[Len(q) + 1] = made[s] + 1 /\ DOMAIN p = 1 .. Len(p) /\ DOMAIN q = 1 .. Len(q)
    BY <2>2
  <2>4. stdout'[s] = p /\ \A i \in DOMAIN q : q[i] = l + i
    BY <1>2, <2>1 DEF Left
  <2> HIDE DEF p, q
  <2>5. l \in Int /\ l + (Len(q) + 1) = made[s] + 1
    BY <1>3, <2>3
  <2>6. Left(s)' = l /\ Left(s) = l
    <3>1. Left(s)' = made[s] + 1 - Len(p)
      <4>1. Left(s)' = made'[s] - Len(stdout'[s])
        BY DEF Left
      <4>2. made'[s] = made[s] + 1
        BY <2>1
      <4>3. Len(stdout'[s]) = Len(p)
        BY <2>4
      <4> QED
        BY <1>3, <2>3, <4>1, <4>2, <4>3, SMT DEF Left
    <3> QED
      BY <1>3, <2>3, <3>1 DEF Left, q
  <2>7. ASSUME NEW i \in DOMAIN p PROVE p[i] = l + i
    <3>1. i \in 1 .. Len(q) \/ i = Len(q) + 1
      BY <2>3
    <3> QED
      BY <2>3, <2>4, <2>5, <3>1
  <2>8. Len(p) <= made'[s] /\ made[s] <= made'[s]
    BY <1>2, <1>3, <2>1, <2>3 DEF q
  <2> QED
    BY <2>4, <2>6, <2>7, <2>8
<1> QED
  BY <1>4, <1>5

(* The gateway takes the next line, which is the next one.                 *)
LEMMA TakeAnswers ==
  ASSUME IoTypeOK, AnswersAreInOrder, NEW r \in Server, TakeAnswer(r)
  PROVE  /\ AnswersAreInOrder'
         /\ Head(stdout[r]) = Left(r) + 1 /\ Left(r) \in Nat /\ Left(r)' = Left(r) + 1
         /\ \A s \in Server : s # r => Left(s)' = Left(s)
<1>1. /\ made' = made /\ stdout[r] # <<>>
      /\ stdout' = [stdout EXCEPT ![r] = Tail(@)]
      /\ made \in [Server -> Nat] /\ stdout \in [Server -> Seq(Nat)]
  BY IoFacts DEF TakeAnswer
<1>2. ASSUME NEW s \in Server
      PROVE  /\ Len(stdout[s]) <= made[s] /\ made[s] \in Nat /\ stdout[s] \in Seq(Nat)
             /\ Len(stdout[s]) \in Nat
             /\ \A i \in DOMAIN stdout[s] : stdout[s][i] = Left(s) + i
             /\ Left(s) \in Nat /\ Left(s) = made[s] - Len(stdout[s])
  <2>1. /\ Len(stdout[s]) <= made[s] /\ made[s] \in Nat /\ stdout[s] \in Seq(Nat)
        /\ \A i \in DOMAIN stdout[s] : stdout[s][i] = Left(s) + i
    BY <1>1 DEF AnswersAreInOrder
  <2>2. Len(stdout[s]) \in Nat
    BY <2>1
  <2>3. Left(s) \in Nat
    BY <2>1, <2>2 DEF Left
  <2> QED
    BY <2>1, <2>2, <2>3 DEF Left
<1>3. ASSUME NEW s \in Server, s # r
      PROVE  /\ Len(stdout'[s]) <= made'[s] /\ Left(s)' = Left(s)
             /\ \A i \in DOMAIN stdout'[s] : stdout'[s][i] = Left(s)' + i
  <2>1. stdout'[s] = stdout[s] /\ made'[s] = made[s]
    BY <1>1, <1>3
  <2>2. Left(s)' = Left(s)
    BY <2>1 DEF Left
  <2> QED
    BY <1>2, <2>1, <2>2
<1>4. /\ Len(stdout'[r]) <= made'[r] /\ Left(r)' = Left(r) + 1 /\ Head(stdout[r]) = Left(r) + 1
      /\ \A i \in DOMAIN stdout'[r] : stdout'[r][i] = Left(r)' + i
  <2> DEFINE q == stdout[r]
             p == Tail(q)
  <2>1. q \in Seq(Nat) /\ q # <<>> /\ Len(q) <= made[r] /\ made[r] \in Nat
        /\ (\A i \in DOMAIN q : q[i] = Left(r) + i) /\ Left(r) = made[r] - Len(q)
    BY <1>1, <1>2
  <2>2. stdout'[r] = p /\ made'[r] = made[r]
    BY <1>1
  <2> HIDE DEF q
  <2>3. /\ Head(q) = q[1] /\ p \in Seq(Nat) /\ Len(p) = Len(q) - 1 /\ Len(q) \in Nat \ {0}
        /\ \A i \in 1 .. Len(q) - 1 : p[i] = q[i + 1]
        /\ DOMAIN p = 1 .. Len(q) - 1 /\ DOMAIN q = 1 .. Len(q)
    BY <2>1
  <2> HIDE DEF p
  <2>4. Left(r)' = Left(r) + 1
    <3>1. Left(r)' = made[r] - Len(p)
      BY <2>2 DEF Left
    <3> QED
      BY <2>1, <2>3, <3>1
  <2>5. Head(q) = Left(r) + 1
    <3>1. 1 \in DOMAIN q
      BY <2>3
    <3> QED
      BY <2>1, <2>3, <3>1
  <2>6. ASSUME NEW i \in DOMAIN p PROVE p[i] = Left(r)' + i
    <3>1. p[i] = Left(r) + (i + 1)
      <4>1. i \in 1 .. Len(q) - 1 /\ i + 1 \in DOMAIN q
        BY <2>3
      <4> QED
        BY <2>1, <2>3, <4>1
    <3> QED
      BY <1>2, <2>3, <2>4, <3>1
  <2>7. Len(p) <= made[r]
    BY <2>1, <2>3
  <2> QED
    BY <2>2, <2>4, <2>5, <2>6, <2>7 DEF q
<1>5. AnswersAreInOrder'
  BY <1>3, <1>4 DEF AnswersAreInOrder
<1> QED
  BY <1>2, <1>3, <1>4, <1>5

-----------------------------------------------------------------------------
(* The client's lines: two sequences of frames in a row.                   *)
LEMMA FrameMoves ==
  ASSUME NEW q \in Seq(Frame), NEW r \in Seq(Frame), NEW f \in Frame
  PROVE  /\ r # <<>> => /\ Append(q, Head(r)) \o Tail(r) = q \o r
                        /\ Head(r) \in Frame /\ Append(q, Head(r)) \in Seq(Frame)
                        /\ Tail(r) \in Seq(Frame)
         /\ q \o Append(r, f) = Append(q \o r, f)
         /\ q \o <<f>> = Append(q, f) /\ q \o <<>> = q
         /\ q \o r \in Seq(Frame) /\ Append(q, f) \in Seq(Frame)
<1> DEFINE S == Frame
<1>1. q \in Seq(S) /\ r \in Seq(S) /\ f \in S
  OBVIOUS
<1> HIDE DEF S
<1>2. r # <<>> => /\ Append(q, Head(r)) \o Tail(r) = q \o r
                  /\ Head(r) \in S /\ Append(q, Head(r)) \in Seq(S)
                  /\ Tail(r) \in Seq(S)
  BY <1>1, Moved
<1>3. q \o Append(r, f) = Append(q \o r, f)
  BY <1>1, Appended
<1>4. q \o <<f>> = Append(q, f)
  BY <1>1
<1>5. q \o <<>> = q
  BY <1>1
<1>6. q \o r \in Seq(S)
  BY <1>1
<1>7. Append(q, f) \in Seq(S)
  BY <1>1
<1> QED
  BY <1>2, <1>3, <1>4, <1>5, <1>6, <1>7 DEF S

(* The parts of what is on the way to the client.                          *)
LEMMA ClientFacts ==
  ASSUME IoTypeOK
  PROVE  /\ got \in Seq(Frame) /\ out \in Seq(Frame) /\ hold \in Seq(Frame)
         /\ toClient \in Seq(Frame)
         /\ got \o out \in Seq(Frame) /\ Issued \in Seq(Frame) /\ OnWay \in Seq(Frame)
         /\ Issued = (got \o out) \o hold /\ OnWay = Issued \o toClient
         /\ Torn \in Frame
<1>1. /\ got \in Seq(Frame) /\ out \in Seq(Frame) /\ hold \in Seq(Frame)
      /\ toClient \in Seq(Frame)
  BY IoFacts
<1>2. Torn \in Frame
  BY DEF Frame
<1>3. got \o out \in Seq(Frame)
  BY <1>1, <1>2, FrameMoves
<1>4. Issued \in Seq(Frame)
  BY <1>1, <1>2, <1>3, FrameMoves DEF Issued
<1>5. OnWay \in Seq(Frame)
  BY <1>1, <1>2, <1>4, FrameMoves DEF OnWay
<1> QED
  BY <1>1, <1>2, <1>3, <1>4, <1>5 DEF Issued, OnWay

(* Steps that leave what is on the way alone: the client may have read, an *)
(* upstream may have written more, and main may have come further.         *)
LEMMA ClientKept ==
  ASSUME IoTypeOK, ClientIsInOrder, UNCHANGED <<hold, toClient>>, got' \o out' = got \o out,
         made' \in [Server -> Nat], \A s \in Server : made[s] <= made'[s] /\ Left(s)' = Left(s),
         drain' \in {"no", "draining"} => drain \in {"no", "draining"},
         drain \in {"over", "exited"} => drain' \in {"over", "exited"}
  PROVE  ClientIsInOrder'
<1>1. Issued' = Issued /\ OnWay' = OnWay /\ (got \o out)' = got \o out
  BY DEF Issued, OnWay
<1>2. ASSUME NEW s \in Server PROVE 1 .. made[s] \subseteq 1 .. made'[s]
  <2>1. made[s] \in Nat /\ made'[s] \in Nat /\ made[s] <= made'[s]
    BY IoFacts
  <2> QED
    BY <2>1
<1>3. InTurn(Issued)' /\ \A s \in Server : (Numbers(s, Issued) \subseteq 1 .. made[s])'
  BY <1>1, <1>2 DEF ClientIsInOrder, InTurn, Numbers
<1>4. ASSUME drain' \in {"no", "draining"}
      PROVE  InTurn(OnWay)' /\ \A s \in Server : (Numbers(s, OnWay) = 1 .. Left(s))'
  <2>1. InTurn(OnWay) /\ \A s \in Server : Numbers(s, OnWay) = 1 .. Left(s)
    BY <1>4 DEF ClientIsInOrder
  <2>2. InTurn(OnWay)'
    BY <1>1, <2>1 DEF InTurn, Numbers
  <2>3. \A s \in Server : Numbers(s, OnWay)' = Numbers(s, OnWay)
    BY <1>1 DEF Numbers
  <2>4. \A s \in Server : (1 .. Left(s))' = 1 .. Left(s)
    OBVIOUS
  <2> QED
    BY <2>1, <2>2, <2>3, <2>4
<1>5. (Torn \notin ToSet(toClient) \cup ToSet(hold))'
  BY DEF ClientIsInOrder, ToSet
<1>6. ASSUME NEW i \in DOMAIN (got \o out)', (got \o out)'[i] = Torn
      PROVE  i = Len((got \o out)') /\ hold' = <<>> /\ drain' \in {"over", "exited"}
  BY <1>1, <1>6 DEF ClientIsInOrder
<1> QED
  BY <1>3, <1>4, <1>5, <1>6 DEF ClientIsInOrder

(* The write pump gives the next line to the thread.                       *)
LEMMA SendOutClient ==
  ASSUME IoTypeOK, AnswersAreInOrder, ClientIsInOrder, SendOut
  PROVE  ClientIsInOrder'
<1>1. /\ drain \in {"no", "draining"} /\ toClient # <<>> /\ hold = <<>>
      /\ hold' = <<Head(toClient)>> /\ toClient' = Tail(toClient)
      /\ UNCHANGED <<got, out, made, stdout, drain>>
  BY DEF SendOut, clientVars, upstreamVars
<1> DEFINE g == got \o out
           f == Head(toClient)
<1>2. g \in Seq(Frame) /\ toClient \in Seq(Frame) /\ Issued = g \o hold
      /\ OnWay = Issued \o toClient /\ Torn \in Frame
  BY ClientFacts
<1>3. /\ f \in Frame /\ Tail(toClient) \in Seq(Frame) /\ Append(g, f) \in Seq(Frame)
      /\ Append(g, f) \o Tail(toClient) = g \o toClient
  BY <1>1, <1>2, FrameMoves
<1>4. f \in ToSet(toClient) /\ ToSet(Tail(toClient)) \subseteq ToSet(toClient)
  <2>1. f = toClient[1] /\ 1 \in DOMAIN toClient
    BY <1>1, <1>2
  <2>2. \A i \in DOMAIN Tail(toClient) :
          Tail(toClient)[i] = toClient[i + 1] /\ i + 1 \in DOMAIN toClient
    BY <1>1, <1>2
  <2> QED
    BY <2>1, <2>2 DEF ToSet
<1>5. Issued = g /\ OnWay = g \o toClient
  BY <1>1, <1>2, FrameMoves
<1>6. Issued' = Append(g, f)
  <2>1. Issued' = g \o <<f>>
    BY <1>1 DEF Issued
  <2> HIDE DEF f, g
  <2> QED
    BY <1>2, <1>3, <2>1, FrameMoves
<1>7. OnWay' = OnWay
  <2>1. OnWay' = Issued' \o Tail(toClient)
    BY <1>1 DEF OnWay
  <2> QED
    BY <1>3, <1>5, <1>6, <2>1
<1>8. g' = g
  BY <1>1
<1> HIDE DEF g, f
<1>9. InTurn(OnWay) /\ \A s \in Server : Numbers(s, OnWay) = 1 .. Left(s)
  BY <1>1 DEF ClientIsInOrder
<1>10. InTurn(Append(g, f)) /\ \A s : Numbers(s, Append(g, f)) \subseteq Numbers(s, OnWay)
  BY <1>3, <1>5, <1>9, BeginningInTurn
<1>11. InTurn(Issued)' /\ \A s \in Server : (Numbers(s, Issued) \subseteq 1 .. made[s])'
  <2>1. InTurn(Issued)'
    BY <1>6, <1>10 DEF InTurn, Numbers
  <2>2. ASSUME NEW s \in Server PROVE Numbers(s, Issued)' \subseteq 1 .. made[s]
    <3>1. Numbers(s, Issued)' = Numbers(s, Append(g, f))
      BY <1>6 DEF Numbers
    <3>2. Left(s) <= made[s] /\ made[s] \in Nat /\ Left(s) \in Int
      BY IoFacts DEF AnswersAreInOrder, Left
    <3> QED
      BY <1>9, <1>10, <3>1, <3>2
  <2> QED
    BY <1>1, <2>1, <2>2
<1>12. InTurn(OnWay)' /\ \A s \in Server : (Numbers(s, OnWay) = 1 .. Left(s))'
  <2>1. InTurn(OnWay)'
    BY <1>7, <1>9 DEF InTurn, Numbers
  <2>2. \A s \in Server : Numbers(s, OnWay)' = Numbers(s, OnWay) /\ Left(s)' = Left(s)
    BY <1>1, <1>7 DEF Numbers, Left
  <2> QED
    BY <1>9, <2>1, <2>2
<1>13. (Torn \notin ToSet(toClient) \cup ToSet(hold))'
  <2>1. ToSet(<<f>>) = {f}
    BY DEF ToSet
  <2>2. Torn \notin ToSet(toClient)
    BY DEF ClientIsInOrder
  <2>3. hold' = <<f>>
    BY <1>1 DEF f
  <2>4. ToSet(hold)' = {f} /\ ToSet(toClient)' \subseteq ToSet(toClient)
    BY <1>1, <1>4, <2>1, <2>3 DEF ToSet
  <2> QED
    BY <1>4, <2>2, <2>4
<1>14. \A i \in DOMAIN (got \o out)' : (got \o out)'[i] # Torn
  <2>1. \A i \in DOMAIN (got \o out) : (got \o out)[i] # Torn
    BY <1>1 DEF ClientIsInOrder
  <2> QED
    BY <1>1, <2>1
<1> QED
  BY <1>11, <1>12, <1>13, <1>14 DEF ClientIsInOrder

(* The thread writes the line, whole or, once the pump is aborted, its     *)
(* beginning.                                                              *)
LEMMA FlushClient ==
  ASSUME IoTypeOK, ClientIsInOrder, Flush
  PROVE  ClientIsInOrder'
<1>1. PICK f \in {hold[1]} \cup (IF drain \in {"over", "exited"} THEN {Torn} ELSE {}) :
        out' = Append(out, f)
  BY DEF Flush
<1>2. hold # <<>> /\ hold' = <<>> /\ UNCHANGED <<got, toClient, made, stdout, drain>>
  BY DEF Flush, clientVars, upstreamVars
<1> DEFINE g == got \o out
<1>3. /\ got \in Seq(Frame) /\ out \in Seq(Frame) /\ g \in Seq(Frame) /\ Issued = g \o hold
      /\ toClient \in Seq(Frame) /\ OnWay = Issued \o toClient /\ Torn \in Frame
      /\ hold \in Seq(Frame)
  BY ClientFacts
<1>4. hold = <<hold[1]>> /\ hold[1] \in Frame /\ hold[1] \in ToSet(hold)
  <2>1. Len(hold) = 1 /\ hold \in Seq(Frame)
    <3>1. Len(hold) \in Nat /\ Len(hold) <= 1 /\ Len(hold) # 0
      BY <1>2, <1>3 DEF IoTypeOK
    <3>2. \A k \in Nat : k <= 1 /\ k # 0 => k = 1
      OBVIOUS
    <3> QED
      BY <1>3, <3>1, <3>2, Zenon
  <2>2. 1 \in DOMAIN hold
    BY <2>1
  <2> QED
    BY <2>1, <2>2 DEF ToSet
<1>5. f \in Frame /\ hold[1] # Torn
  BY <1>1, <1>3, <1>4 DEF ClientIsInOrder
<1>6. (got \o out)' = Append(g, f)
  <2>1. (got \o out)' = got \o Append(out, f)
    BY <1>1, <1>2
  <2> QED
    BY <1>3, <1>5, <2>1, FrameMoves
<1> HIDE DEF g
<1>7. Append(g, f) \in Seq(Frame) /\ Issued' = Append(g, f)
  <2>1. Issued' = Append(g, f) \o <<>>
    BY <1>2, <1>6 DEF Issued
  <2>2. Append(g, f) \in Seq(Frame)
    BY <1>3, <1>5, FrameMoves
  <2> QED
    BY <2>1, <2>2, FrameMoves, <1>5
<1>8. Issued = Append(g, hold[1])
  <2> DEFINE x == hold[1]
  <2>1. x \in Frame /\ hold = <<x>>
    BY <1>4
  <2> HIDE DEF x
  <2>2. g \o <<x>> = Append(g, x)
    BY <1>3, <2>1, FrameMoves
  <2>3. Issued = Append(g, x)
    BY <1>3, <2>1, <2>2, Zenon
  <2> QED
    BY <2>3 DEF x
<1>9. /\ Len(Append(g, f)) = Len(g) + 1 /\ Len(g) \in Nat
      /\ \A i \in 1 .. Len(g) : Append(g, f)[i] = g[i]
      /\ Append(g, f)[Len(g) + 1] = f
      /\ DOMAIN Append(g, f) = 1 .. Len(g) + 1 /\ DOMAIN g = 1 .. Len(g)
  BY <1>3, <1>5, Appended
<1>10. \A i \in 1 .. Len(g) : g[i] # Torn
  BY <1>2, <1>9 DEF ClientIsInOrder, g
<1>11. \A i \in DOMAIN (got \o out)' : (got \o out)'[i] = Torn =>
         i = Len((got \o out)') /\ hold' = <<>> /\ drain' \in {"over", "exited"}
  <2>1. f = Torn => drain \in {"over", "exited"}
    BY <1>1, <1>5
  <2>2. \A i \in 1 .. Len(g) + 1 : i \in 1 .. Len(g) \/ i = Len(g) + 1
    BY <1>9
  <2> QED
    BY <1>2, <1>6, <1>9, <1>10, <2>1, <2>2
<1>12. (Torn \notin ToSet(toClient) \cup ToSet(hold))'
  <2>1. ToSet(hold)' = {}
    BY <1>2 DEF ToSet
  <2> QED
    BY <1>2, <2>1 DEF ClientIsInOrder, ToSet
<1>13. InTurn(Issued) /\ \A s \in Server : Numbers(s, Issued) \subseteq 1 .. made[s]
  BY DEF ClientIsInOrder
<1>14. CASE f = hold[1]
  <2>1. Issued' = Issued /\ OnWay' = OnWay
    BY <1>2, <1>7, <1>8, <1>14 DEF OnWay
  <2>2. InTurn(Issued)' /\ \A s \in Server : (Numbers(s, Issued) \subseteq 1 .. made[s])'
    BY <1>2, <1>13, <2>1 DEF InTurn, Numbers
  <2>3. ASSUME drain' \in {"no", "draining"}
        PROVE  InTurn(OnWay)' /\ \A s \in Server : (Numbers(s, OnWay) = 1 .. Left(s))'
    <3>1. InTurn(OnWay) /\ \A s \in Server : Numbers(s, OnWay) = 1 .. Left(s)
      BY <1>2, <2>3 DEF ClientIsInOrder
    <3>2. InTurn(OnWay)'
      BY <2>1, <3>1 DEF InTurn, Numbers
    <3>3. \A s \in Server : Numbers(s, OnWay)' = Numbers(s, OnWay) /\ Left(s)' = Left(s)
      BY <1>2, <2>1 DEF Numbers, Left
    <3> QED
      BY <3>1, <3>2, <3>3
  <2> QED
    BY <1>11, <1>12, <2>2, <2>3 DEF ClientIsInOrder
<1>15. CASE f # hold[1]
  <2>1. f = Torn /\ drain' \in {"over", "exited"}
    BY <1>1, <1>2, <1>15
  <2>2. InTurn(g) /\ \A s : Numbers(s, g) \subseteq Numbers(s, Issued)
    BY <1>3, <1>13, BeginningInTurn
  <2>3. InTurn(Append(g, f))
    BY <1>3, <1>5, <2>1, <2>2, MoreInTurn
  <2>4. \A s : Numbers(s, Append(g, f)) = Numbers(s, g)
    <3> TAKE s
    <3>1. Numbers(s, Append(g, f)) =
            Numbers(s, g) \cup (IF f # Torn /\ f.from = s THEN {f.n} ELSE {})
      BY <1>3, <1>5, NumbersOfMore
    <3> QED
      BY <2>1, <3>1
  <2>5. InTurn(Issued)' /\ \A s \in Server : (Numbers(s, Issued) \subseteq 1 .. made[s])'
    <3>1. InTurn(Issued)'
      BY <1>7, <2>3 DEF InTurn, Numbers
    <3>2. \A s \in Server : Numbers(s, Issued)' = Numbers(s, Append(g, f))
      BY <1>7 DEF Numbers
    <3> QED
      BY <1>2, <1>13, <2>2, <2>4, <3>1, <3>2
  <2> QED
    BY <1>11, <1>12, <2>1, <2>5 DEF ClientIsInOrder
<1> QED
  BY <1>14, <1>15

(* The gateway puts an upstream's next line on the client's channel.       *)
LEMMA TakeAnswerClient ==
  ASSUME IoTypeOK, AnswersAreInOrder, ClientIsInOrder, NEW r \in Server, TakeAnswer(r)
  PROVE  ClientIsInOrder'
<1> DEFINE f == [from |-> r, n |-> Left(r) + 1]
<1>1. /\ toClient' = Append(toClient, f) /\ Left(r) \in Nat /\ Left(r)' = Left(r) + 1
      /\ \A s \in Server : s # r => Left(s)' = Left(s)
      /\ UNCHANGED <<got, out, hold, made, drain>>
  BY TakeAnswers DEF TakeAnswer, clientVars
<1>2. f \in Frame /\ f # Torn /\ f.from = r /\ f.n = Left(r) + 1
  <2>1. f \in [from : Server, n : Nat \ {0}]
    BY <1>1
  <2> QED
    BY <2>1, StdioAssumption DEF Frame
<1> HIDE DEF f
<1>3. Issued \in Seq(Frame) /\ toClient \in Seq(Frame) /\ OnWay = Issued \o toClient
      /\ OnWay \in Seq(Frame)
  BY ClientFacts
<1>4. Issued' = Issued /\ (got \o out)' = got \o out
  BY <1>1 DEF Issued
<1>5. OnWay' = Append(OnWay, f)
  <2>1. OnWay' = Issued \o Append(toClient, f)
    BY <1>1, <1>4 DEF OnWay
  <2> QED
    BY <1>2, <1>3, <2>1, FrameMoves
<1>6. InTurn(Issued)' /\ \A s \in Server : (Numbers(s, Issued) \subseteq 1 .. made[s])'
  <2>1. InTurn(Issued) /\ \A s \in Server : Numbers(s, Issued) \subseteq 1 .. made[s]
    BY DEF ClientIsInOrder
  <2>2. InTurn(Issued)'
    BY <1>4, <2>1 DEF InTurn, Numbers
  <2>3. \A s \in Server : Numbers(s, Issued)' = Numbers(s, Issued)
    BY <1>4 DEF Numbers
  <2> QED
    BY <1>1, <2>1, <2>2, <2>3
<1>7. ASSUME drain' \in {"no", "draining"}
      PROVE  InTurn(OnWay)' /\ \A s \in Server : (Numbers(s, OnWay) = 1 .. Left(s))'
  <2>1. InTurn(OnWay) /\ \A s \in Server : Numbers(s, OnWay) = 1 .. Left(s)
    BY <1>1, <1>7 DEF ClientIsInOrder
  <2>2. Numbers(f.from, OnWay) = 1 .. f.n - 1
    BY <1>1, <1>2, <2>1
  <2>3. InTurn(Append(OnWay, f))
    BY <1>2, <1>3, <2>1, <2>2, MoreInTurn
  <2>4. InTurn(OnWay)'
    BY <1>5, <2>3 DEF InTurn, Numbers
  <2>5. ASSUME NEW s \in Server PROVE Numbers(s, OnWay)' = 1 .. Left(s)'
    <3>1. Numbers(s, OnWay)' = Numbers(s, Append(OnWay, f))
      BY <1>5 DEF Numbers
    <3>2. Numbers(s, Append(OnWay, f)) =
            Numbers(s, OnWay) \cup (IF f # Torn /\ f.from = s THEN {f.n} ELSE {})
      BY <1>2, <1>3, NumbersOfMore
    <3>3. CASE s = r
      <4>1. Numbers(s, OnWay)' = 1 .. Left(r) \cup {Left(r) + 1}
        BY <1>2, <2>1, <3>1, <3>2, <3>3
      <4>2. 1 .. Left(r) \cup {Left(r) + 1} = 1 .. Left(r) + 1
        BY <1>1
      <4> QED
        BY <1>1, <3>3, <4>1, <4>2
    <3>4. CASE s # r
      BY <1>1, <1>2, <2>1, <3>1, <3>2, <3>4
    <3> QED
      BY <3>3, <3>4
  <2> QED
    BY <2>4, <2>5
<1>8. (Torn \notin ToSet(toClient) \cup ToSet(hold))'
  <2>1. ToSet(toClient)' = ToSet(toClient) \cup {f}
    <3>1. ToSet(Append(toClient, f)) = ToSet(toClient) \cup {f}
      BY <1>2, <1>3, MembersOfMore
    <3> QED
      BY <1>1, <3>1 DEF ToSet
  <2>2. ToSet(hold)' = ToSet(hold)
    BY <1>1 DEF ToSet
  <2> QED
    BY <1>2, <2>1, <2>2 DEF ClientIsInOrder
<1>9. \A i \in DOMAIN (got \o out)' : (got \o out)'[i] = Torn =>
        i = Len((got \o out)') /\ hold' = <<>> /\ drain' \in {"over", "exited"}
  BY <1>1, <1>4 DEF ClientIsInOrder
<1> QED
  BY <1>6, <1>7, <1>8, <1>9 DEF ClientIsInOrder

-----------------------------------------------------------------------------
(* The session's types are kept by its steps.                              *)
LEMMA SessionTypes ==
  ASSUME SessionTypeOK, NEW s \in Server,
         \/ Launch(main) \/ Launching(main) \/ ChildExits(main, s)
         \/ ReaderEnds(main, s) \/ ReaderStops(main, s)
         \/ WriterEnds(main, s) \/ WriterStops(main, s)
         \/ AbortPumps(main) \/ KillChild(main) \/ ShutDown(main)
  PROVE  SessionTypeOK'
<1> USE MainIs DEF SessionTypeOK
<1>1. NServers \in Nat \ {0} /\ Server = 0 .. NServers - 1
  BY SessionAssumption DEF Server
<1>2. at[main] \in 0 .. NServers /\ at \in [Sess -> 0 .. NServers]
  OBVIOUS
<1>3. \A c \in {"none", "running", "exited", "killed"}, i \in Server :
        [child EXCEPT ![main][i] = c] \in
          [Sess -> [Server -> {"none", "running", "exited", "killed"}]]
  OBVIOUS
<1>4. ASSUME NEW task \in [Sess -> [Server -> Task]], NEW i \in Server, NEW c \in Task
      PROVE  [task EXCEPT ![main][i] = c] \in [Sess -> [Server -> Task]]
  BY <1>4
<1>a. "running" \in Task /\ "ended" \in Task
  BY DEF Task
<1>5. \A a \in 0 .. NServers : [at EXCEPT ![main] = a] \in [Sess -> 0 .. NServers]
  OBVIOUS
<1>6. \A g \in {"new", "launching", "failed", "live", "killing", "down"} :
        [stage EXCEPT ![main] = g] \in
          [Sess -> {"new", "launching", "failed", "live", "killing", "down"}]
  OBVIOUS
<1>7. at[main] < NServers => at[main] \in Server /\ at[main] + 1 \in 0 .. NServers
  BY <1>1, <1>2
<1>8. CASE Launch(main)
  BY <1>6, <1>8 DEF Launch
<1>9. CASE SpawnChild(main)
  <2>1. SessionTypeOK' <=> child' \in [Sess -> [Server -> {"none", "running", "exited", "killed"}]]
                           /\ reader' \in [Sess -> [Server -> Task]]
                           /\ writer' \in [Sess -> [Server -> Task]]
                           /\ at' \in [Sess -> 0 .. NServers]
    BY <1>9 DEF SpawnChild
  <2>2. at[main] \in Server /\ at[main] + 1 \in 0 .. NServers
    BY <1>7, <1>9 DEF SpawnChild
  <2>3. child' = [child EXCEPT ![main][at[main]] = "running"]
        /\ reader' = [reader EXCEPT ![main][at[main]] = "running"]
        /\ writer' = [writer EXCEPT ![main][at[main]] = "running"]
        /\ at' = [at EXCEPT ![main] = at[main] + 1]
    BY <1>9 DEF SpawnChild
  <2>4. child' \in [Sess -> [Server -> {"none", "running", "exited", "killed"}]]
    BY <1>3, <2>2, <2>3
  <2>5. reader' \in [Sess -> [Server -> Task]] /\ writer' \in [Sess -> [Server -> Task]]
    BY <1>4, <1>a, <2>2, <2>3
  <2>6. at' \in [Sess -> 0 .. NServers]
    BY <1>5, <2>2, <2>3
  <2> QED
    BY <2>1, <2>4, <2>5, <2>6
<1>10. CASE SpawnFails(main) \/ Launched(main)
  BY <1>6, <1>10 DEF SpawnFails, Launched
<1>11. CASE ChildExits(main, s)
  BY <1>3, <1>11 DEF ChildExits
<1>12. CASE ReaderEnds(main, s) \/ ReaderStops(main, s)
  <2>1. reader' = [reader EXCEPT ![main][s] = "ended"]
    BY <1>12 DEF ReaderEnds, ReaderStops
  <2>2. reader' \in [Sess -> [Server -> Task]]
    BY <1>4, <1>a, <2>1
  <2> QED
    BY <1>12, <2>2 DEF ReaderEnds, ReaderStops
<1>b. CASE WriterEnds(main, s) \/ WriterStops(main, s)
  <2>1. writer' = [writer EXCEPT ![main][s] = "ended"]
    BY <1>b DEF WriterEnds, WriterStops
  <2>2. writer' \in [Sess -> [Server -> Task]]
    BY <1>4, <1>a, <2>1
  <2> QED
    BY <1>b, <2>2 DEF WriterEnds, WriterStops
<1>13. CASE AbortPumps(main)
  <2>1. /\ reader' = [reader EXCEPT ![main] = Asked(reader[main])]
        /\ writer' = [writer EXCEPT ![main] = Asked(writer[main])]
        /\ stage' = [stage EXCEPT ![main] = "killing"]
        /\ at' = [at EXCEPT ![main] = 0] /\ child' = child
    BY <1>13 DEF AbortPumps
  <2>2. 0 \in 0 .. NServers
    BY <1>1
  <2>3. at' \in [Sess -> 0 .. NServers]
    BY <1>5, <2>1, <2>2
  <2>4. stage' \in [Sess -> {"new", "launching", "failed", "live", "killing", "down"}]
    BY <1>6, <2>1
  <2>a. \A task \in [Server -> Task] : Asked(task) \in [Server -> Task]
    BY DEF Asked, Task
  <2>5. reader' \in [Sess -> [Server -> Task]] /\ writer' \in [Sess -> [Server -> Task]]
    BY <2>1, <2>a
  <2> QED
    BY <2>1, <2>3, <2>4, <2>5
<1>14. CASE KillChild(main)
  <2>1. at[main] \in Server /\ at[main] + 1 \in 0 .. NServers
    BY <1>7, <1>14 DEF KillChild
  <2>2. /\ child' = [child EXCEPT ![main][at[main]] =
                       IF child[main][at[main]] = "running" THEN "killed"
                       ELSE child[main][at[main]]]
        /\ at' = [at EXCEPT ![main] = at[main] + 1] /\ UNCHANGED <<stage, reader, writer>>
    BY <1>14 DEF KillChild
  <2>3. (IF child[main][at[main]] = "running" THEN "killed" ELSE child[main][at[main]])
          \in {"none", "running", "exited", "killed"}
    BY <2>1
  <2>4. child' \in [Sess -> [Server -> {"none", "running", "exited", "killed"}]]
    BY <1>3, <2>1, <2>2, <2>3
  <2>5. at' \in [Sess -> 0 .. NServers]
    BY <1>5, <2>1, <2>2
  <2> QED
    BY <2>2, <2>4, <2>5
<1>15. CASE ShutDown(main)
  BY <1>6, <1>15 DEF ShutDown
<1> QED
  BY <1>8, <1>9, <1>10, <1>11, <1>12, <1>b, <1>13, <1>14, <1>15 DEF Launching

-----------------------------------------------------------------------------
(* What the session's state means for main, in its own words.              *)
LEMMA MainFacts ==
  ASSUME SessionTypeOK
  PROVE  /\ main \in Sess
         /\ stage[main] \in {"new", "launching", "failed", "live", "killing", "down"}
         /\ at[main] \in 0 .. NServers /\ NServers \in Nat \ {0}
         /\ \A s \in Server : s \in 0 .. NServers - 1
BY MainIs, SessionAssumption DEF SessionTypeOK, Server

(* The session's own steps, while nothing of the traffic changes.          *)
LEMMA SessionSteps ==
  ASSUME GateInvariant, UNCHANGED ioVars, NEW s \in Server,
         \/ Launch(main) \/ Launching(main) \/ ChildExits(main, s)
         \/ drain = "over" /\ (AbortPumps(main) \/ KillChild(main) \/ ShutDown(main))
  PROVE  GateInvariant'
<1>1. /\ SessionTypeOK /\ IoTypeOK /\ LinesAreTaken /\ FlowsAreInOrder /\ AnswersAreInOrder
      /\ ClientIsInOrder /\ MainIsInOrder
      /\ UNCHANGED <<script, written, got, deaf, stdin, heard, todo, made, stdout, hung, taken,
                     hand, queue, toClient, hold, out, drain>>
  BY DEF GateInvariant, ioVars, clientVars, upstreamVars, gateVars
<1>2. SessionTypeOK'
  BY <1>1, SessionTypes
<1>3. IoTypeOK'
  BY <1>1 DEF IoTypeOK
<1>4. AnswersAreInOrder'
  BY <1>1, AnswersKept
<1>5. ClientIsInOrder'
  <2>1. made' \in [Server -> Nat] /\ \A i \in Server : made[i] <= made'[i] /\ Left(i)' = Left(i)
    BY <1>1, IoFacts DEF Left
  <2>2. got' \o out' = got \o out
    BY <1>1
  <2> QED
    BY <1>1, <2>1, <2>2, ClientKept
<1>6. main \in Sess /\ main' = main
      /\ stage \in [Sess -> {"new", "launching", "failed", "live", "killing", "down"}]
      /\ at[main] \in 0 .. NServers /\ NServers \in Nat \ {0}
      /\ at \in [Sess -> 0 .. NServers]
      /\ child \in [Sess -> [Server -> {"none", "running", "exited", "killed"}]]
      /\ reader \in [Sess -> [Server -> Task]] /\ writer \in [Sess -> [Server -> Task]]
  BY <1>1, MainFacts DEF SessionTypeOK, main
<1>7. InputHasEnded' = InputHasEnded
  BY <1>1 DEF InputHasEnded, IsBad
<1>8. stage'[main] \in {"new", "launching"} => stage[main] \in {"new", "launching"}
  BY <1>6 DEF Launch, Launching, SpawnChild, SpawnFails, Launched, ChildExits, AbortPumps,
              KillChild, ShutDown
<1>9. LinesAreTaken'
  BY <1>1, <1>6, <1>8 DEF LinesAreTaken
<1>10. CASE SpawnChild(main)
  <2>1. stage[main] = "launching" /\ stage' = stage
    BY <1>10 DEF SpawnChild
  <2>2. FlowsAreInOrder'
    BY <1>1, <2>1, SpawnFlows DEF LinesAreTaken
  <2>3. MainIsInOrder'
    BY <1>1, <1>6, <1>7, <2>1 DEF MainIsInOrder
  <2> QED
    BY <1>2, <1>3, <1>4, <1>5, <1>9, <2>2, <2>3 DEF GateInvariant
<1>11. ASSUME ~SpawnChild(main) PROVE GateInvariant'
  <2>1. \A i \in Server : PumpRuns(i)' => PumpRuns(i)
    <3>1. writer' = writer \/ writer' = [writer EXCEPT ![main] = Asked(writer[main])]
      BY <1>11 DEF Launch, Launching, SpawnFails, Launched, ChildExits, AbortPumps,
                   KillChild, ShutDown
    <3> QED
      BY <1>6, <3>1 DEF PumpRuns, AtWork, Asked
  <2>2. FlowsAreInOrder'
    BY <1>1, <2>1, FlowsKept
  <2>3. MainIsInOrder'
    <3>1. CASE Launch(main) \/ SpawnFails(main) \/ Launched(main)
      <4>1. stage[main] \in {"new", "launching"}
            /\ stage'[main] \in {"launching", "failed", "live"}
        BY <1>6, <3>1 DEF Launch, SpawnFails, Launched
      <4>2. drain = "no"
        BY <1>1, <4>1 DEF MainIsInOrder
      <4> QED
        BY <1>1, <1>6, <4>1, <4>2 DEF MainIsInOrder
    <3>2. CASE ChildExits(main, s)
      <4>1. /\ child' = [child EXCEPT ![main][s] = "exited"]
            /\ UNCHANGED <<stage, at, reader, writer>>
        BY <3>2 DEF ChildExits
      <4>2. \A i \in Server : child[main][i] # "running" => child'[main][i] # "running"
        BY <1>6, <4>1
      <4> QED
        BY <1>1, <1>6, <1>7, <4>1, <4>2 DEF MainIsInOrder
    <3>3. CASE drain = "over" /\ AbortPumps(main)
      <4>1. stage'[main] = "killing" /\ at'[main] = 0 /\ stage[main] = "live"
            /\ reader'[main] = Asked(reader[main]) /\ writer'[main] = Asked(writer[main])
        BY <1>6, <3>3 DEF AbortPumps
      <4>2. \A i \in Server : /\ reader'[main][i] # "running" /\ writer'[main][i] # "running"
                              /\ ~(i < 0)
        BY <1>1, <1>6, <4>1, MainFacts DEF Asked
      <4> QED
        BY <1>1, <1>6, <1>7, <3>3, <4>1, <4>2 DEF MainIsInOrder
    <3>4. CASE drain = "over" /\ KillChild(main)
      <4>1. /\ stage[main] = "killing" /\ at[main] \in Server /\ UNCHANGED <<stage, reader, writer>>
            /\ child' = [child EXCEPT ![main][at[main]] =
                           IF child[main][at[main]] = "running" THEN "killed"
                           ELSE child[main][at[main]]]
            /\ at'[main] = at[main] + 1
        BY <1>6, <3>4 DEF KillChild, Server
      <4>2. child'[main][at[main]] # "running"
        BY <1>6, <4>1
      <4>3. \A i \in Server : i # at[main] => child'[main][i] = child[main][i]
        BY <1>6, <4>1
      <4>4. ASSUME NEW i \in Server, i < at'[main] PROVE child'[main][i] # "running"
        <5>1. i \in Int /\ at[main] \in Int
          BY <1>1, <1>6, MainFacts
        <5>2. i < at[main] \/ i = at[main]
          BY <4>1, <4>4, <5>1
        <5> QED
          BY <1>1, <4>1, <4>2, <4>3, <5>2 DEF MainIsInOrder
      <4> QED
        BY <1>1, <1>6, <1>7, <3>4, <4>1, <4>4 DEF MainIsInOrder
    <3>5. CASE drain = "over" /\ ShutDown(main)
      <4>1. stage[main] = "killing" /\ at[main] = NServers /\ stage'[main] = "down"
            /\ UNCHANGED <<at, child, reader, writer>>
        BY <1>6, <3>5 DEF ShutDown
      <4>2. \A i \in Server : i < NServers
        BY <1>1, <1>6, MainFacts
      <4> QED
        BY <1>1, <1>6, <1>7, <3>5, <4>1, <4>2 DEF MainIsInOrder
    <3> QED
      BY <1>11, <3>1, <3>2, <3>3, <3>4, <3>5 DEF Launching
  <2> QED
    BY <1>2, <1>3, <1>4, <1>5, <1>9, <2>2, <2>3 DEF GateInvariant
<1> QED
  BY <1>10, <1>11

-----------------------------------------------------------------------------
(* The session's state is as it was.                                       *)
LEMMA SessionKept ==
  ASSUME SessionTypeOK, UNCHANGED sessionVars
  PROVE  SessionTypeOK' /\ UNCHANGED <<stage, at, child, reader, writer>>
         /\ \A s \in Server : PumpRuns(s)' = PumpRuns(s)
BY DEF SessionTypeOK, sessionVars, PumpRuns

(* Steps that leave the input alone.                                       *)
LEMMA LinesKept ==
  ASSUME LinesAreTaken, UNCHANGED <<taken, written, script, hand, sessionVars>>
  PROVE  LinesAreTaken'
BY DEF LinesAreTaken, sessionVars, main

(* Steps that leave main alone.                                            *)
LEMMA MainKept ==
  ASSUME MainIsInOrder, UNCHANGED <<taken, written, script, hand, drain, sessionVars>>
  PROVE  MainIsInOrder'
<1>1. InputHasEnded' = InputHasEnded
  BY DEF InputHasEnded, IsBad
<1> QED
  BY <1>1 DEF MainIsInOrder, sessionVars, main

(* The client's side of the steps that leave it alone.                     *)
LEMMA ClientAlone ==
  ASSUME IoTypeOK, ClientIsInOrder, UNCHANGED <<got, out, hold, toClient, made, stdout>>,
         drain' \in {"no", "draining"} => drain \in {"no", "draining"},
         drain \in {"over", "exited"} => drain' \in {"over", "exited"}
  PROVE  ClientIsInOrder'
<1>1. made' \in [Server -> Nat] /\ \A s \in Server : made[s] <= made'[s] /\ Left(s)' = Left(s)
  BY IoFacts DEF Left
<1>2. got' \o out' = got \o out
  OBVIOUS
<1> QED
  BY <1>1, <1>2, ClientKept

(* The client writes a line, or closes its end.                            *)
LEMMA ClientWrites ==
  ASSUME GateInvariant, Write \/ CloseInput
  PROVE  GateInvariant'
<1>1. /\ SessionTypeOK /\ IoTypeOK /\ LinesAreTaken /\ FlowsAreInOrder /\ AnswersAreInOrder
      /\ ClientIsInOrder /\ MainIsInOrder
  BY DEF GateInvariant
<1>2. /\ UNCHANGED <<script, got, deaf, stdin, heard, todo, made, stdout, hung, taken,
                     hand, queue, toClient, hold, out, drain, sessionVars>>
      /\ stage[main] = "live" /\ written.open
      /\ \/ written.n < Len(script) /\ written' = [written EXCEPT !.n = @ + 1]
         \/ written' = [written EXCEPT !.open = FALSE]
  BY DEF Write, CloseInput, upstreamVars, gateVars
<1>3. SessionTypeOK' /\ UNCHANGED <<stage, at, child, reader, writer>>
      /\ \A s \in Server : PumpRuns(s)' = PumpRuns(s)
  BY <1>1, <1>2, SessionKept
<1>4. /\ written \in [n : Nat, open : BOOLEAN] /\ taken \in Nat /\ script \in Seq(Line)
      /\ Len(script) \in Nat
  BY <1>1, IoFacts
<1>5. /\ written' \in [n : Nat, open : BOOLEAN]
      /\ written.n <= written'.n /\ written'.n <= Len(script)
      /\ written'.n # written.n => written'.n = written.n + 1
  <2>1. written.n <= Len(script) /\ written.n \in Nat
    BY <1>1, <1>4 DEF LinesAreTaken
  <2>2. CASE written.n < Len(script) /\ written' = [written EXCEPT !.n = @ + 1]
    <3>1. written' \in [n : Nat, open : BOOLEAN] /\ written'.n = written.n + 1
      BY <1>4, <2>2
    <3> QED
      BY <1>4, <2>1, <2>2, <3>1
  <2>3. CASE written' = [written EXCEPT !.open = FALSE]
    <3>1. written' \in [n : Nat, open : BOOLEAN] /\ written'.n = written.n
      BY <1>4, <2>3
    <3> QED
      BY <2>1, <3>1
  <2> QED
    BY <1>2, <2>2, <2>3
<1>6. IoTypeOK'
  BY <1>1, <1>2, <1>5 DEF IoTypeOK
<1>7. LinesAreTaken'
  <2>1. taken <= written'.n
    <3>1. taken <= written.n /\ written.n \in Nat /\ written'.n \in Nat
      BY <1>1, <1>4, <1>5 DEF LinesAreTaken
    <3> QED
      BY <1>4, <1>5, <3>1
  <2> QED
    BY <1>1, <1>2, <1>3, <1>5, <2>1 DEF LinesAreTaken, main
<1>8. FlowsAreInOrder'
  BY <1>1, <1>2, <1>3, FlowsKept
<1>9. AnswersAreInOrder'
  BY <1>1, <1>2, AnswersKept
<1>10. ClientIsInOrder'
  BY <1>1, <1>2, ClientAlone
<1>11. MainIsInOrder'
  <2>1. ASSUME InputHasEnded PROVE InputHasEnded'
    <3>1. hand = {} /\ taken < written.n /\ IsBad(taken + 1)
      BY <1>2, <2>1 DEF InputHasEnded
    <3>2. taken < written'.n
      <4>1. written.n \in Nat /\ written'.n \in Nat
        BY <1>4, <1>5
      <4> QED
        BY <1>4, <1>5, <3>1, <4>1
    <3> QED
      BY <1>2, <3>1, <3>2 DEF InputHasEnded, IsBad
  <2> QED
    BY <1>1, <1>2, <1>3, <2>1 DEF MainIsInOrder, main
<1> QED
  BY <1>3, <1>6, <1>7, <1>8, <1>9, <1>10, <1>11 DEF GateInvariant

(* The client reads a line, or reads no more.                              *)
LEMMA ClientReads ==
  ASSUME GateInvariant, Read \/ GoDeaf
  PROVE  GateInvariant'
<1>1. /\ SessionTypeOK /\ IoTypeOK /\ LinesAreTaken /\ FlowsAreInOrder /\ AnswersAreInOrder
      /\ ClientIsInOrder /\ MainIsInOrder
  BY DEF GateInvariant
<1>2. /\ UNCHANGED <<script, written, stdin, heard, todo, made, stdout, hung, taken,
                     hand, queue, toClient, hold, drain, sessionVars>>
      /\ \/ out # <<>> /\ got' = Append(got, Head(out)) /\ out' = Tail(out) /\ deaf' = deaf
         \/ UNCHANGED <<got, out>> /\ deaf' = TRUE
  BY DEF Read, GoDeaf, upstreamVars, gateVars
<1>3. SessionTypeOK' /\ \A s \in Server : PumpRuns(s)' = PumpRuns(s)
  BY <1>1, <1>2, SessionKept
<1>4. got \in Seq(Frame) /\ out \in Seq(Frame) /\ Torn \in Frame /\ Len(out) <= Pipe
      /\ Pipe \in Nat
  BY <1>1, ClientFacts, StdioAssumption DEF IoTypeOK
<1>5. got' \in Seq(Frame) /\ out' \in Seq(Frame) /\ Len(out') <= Pipe /\ deaf' \in BOOLEAN
      /\ got' \o out' = got \o out
  <2>1. CASE out # <<>> /\ got' = Append(got, Head(out)) /\ out' = Tail(out) /\ deaf' = deaf
    <3>1. got' \in Seq(Frame) /\ out' \in Seq(Frame) /\ got' \o out' = got \o out
      BY <1>4, <2>1, FrameMoves
    <3>2. Len(out') = Len(out) - 1 /\ Len(out) \in Nat
      BY <1>4, <2>1
    <3> QED
      BY <1>1, <1>4, <2>1, <3>1, <3>2 DEF IoTypeOK
  <2>2. CASE UNCHANGED <<got, out>> /\ deaf' = TRUE
    BY <1>4, <2>2
  <2> QED
    BY <1>2, <2>1, <2>2
<1>6. IoTypeOK'
  BY <1>1, <1>2, <1>5 DEF IoTypeOK
<1>7. LinesAreTaken' /\ MainIsInOrder'
  BY <1>1, <1>2, LinesKept, MainKept
<1>8. FlowsAreInOrder'
  BY <1>1, <1>2, <1>3, FlowsKept
<1>9. AnswersAreInOrder'
  BY <1>1, <1>2, AnswersKept
<1>10. ClientIsInOrder'
  <2>1. made' \in [Server -> Nat] /\ \A s \in Server : made[s] <= made'[s] /\ Left(s)' = Left(s)
    BY <1>1, <1>2, IoFacts DEF Left
  <2> QED
    BY <1>1, <1>2, <1>5, <2>1, ClientKept
<1> QED
  BY <1>3, <1>6, <1>7, <1>8, <1>9, <1>10 DEF GateInvariant

(* The reader takes a line.                                                *)
LEMMA LineTaken ==
  ASSUME GateInvariant, TakeLine
  PROVE  GateInvariant'
<1>1. /\ SessionTypeOK /\ IoTypeOK /\ LinesAreTaken /\ FlowsAreInOrder /\ AnswersAreInOrder
      /\ ClientIsInOrder /\ MainIsInOrder
  BY DEF GateInvariant
<1>2. /\ UNCHANGED <<script, written, got, deaf, stdin, heard, todo, made, stdout, hung,
                     queue, toClient, hold, out, drain, sessionVars>>
      /\ stage[main] = "live" /\ drain = "no" /\ hand = {} /\ taken < written.n
      /\ taken' = taken + 1 /\ hand' = To[script[taken + 1]]
  BY DEF TakeLine, IsUp, clientVars, upstreamVars
<1>3. SessionTypeOK' /\ UNCHANGED <<stage, at, child, reader, writer>>
      /\ \A s \in Server : PumpRuns(s)' = PumpRuns(s)
  BY <1>1, <1>2, SessionKept
<1>4. written.n \in Nat /\ taken \in Nat /\ script \in Seq(Line) /\ written.n <= Len(script)
  BY <1>1, IoFacts DEF LinesAreTaken
<1>5. taken' \in Nat \ {0} /\ taken' <= written.n /\ hand' \subseteq Server
  <2>1. taken + 1 \in 1 .. Len(script)
    BY <1>2, <1>4
  <2>2. script[taken + 1] \in Line
    BY <1>4, <2>1
  <2> QED
    BY <1>2, <1>4, <2>2, StdioAssumption
<1>6. IoTypeOK'
  BY <1>1, <1>2, <1>5 DEF IoTypeOK
<1>7. LinesAreTaken'
  BY <1>1, <1>2, <1>3, <1>5 DEF LinesAreTaken, main
<1>8. FlowsAreInOrder'
  BY <1>1, TakeLineFlows
<1>9. AnswersAreInOrder'
  BY <1>1, <1>2, AnswersKept
<1>10. ClientIsInOrder'
  BY <1>1, <1>2, ClientAlone
<1>11. MainIsInOrder'
  BY <1>1, <1>2, <1>3 DEF MainIsInOrder, main
<1> QED
  BY <1>3, <1>6, <1>7, <1>8, <1>9, <1>10, <1>11 DEF GateInvariant

(* A line is put on an upstream's channel.                                 *)
LEMMA LineHanded ==
  ASSUME GateInvariant, NEW s \in Server, Hand(s)
  PROVE  GateInvariant'
<1>1. /\ SessionTypeOK /\ IoTypeOK /\ LinesAreTaken /\ FlowsAreInOrder /\ AnswersAreInOrder
      /\ ClientIsInOrder /\ MainIsInOrder
  BY DEF GateInvariant
<1>2. /\ UNCHANGED <<script, written, got, deaf, stdin, heard, todo, made, stdout, hung, taken,
                     toClient, hold, out, drain, sessionVars>>
      /\ s \in hand /\ hand' = hand \ {s}
      /\ queue' = IF PumpRuns(s) THEN [queue EXCEPT ![s] = Append(@, taken)] ELSE queue
  BY DEF Hand, clientVars, upstreamVars
<1>3. SessionTypeOK' /\ UNCHANGED <<stage, at, child, reader, writer>>
      /\ \A i \in Server : PumpRuns(i)' = PumpRuns(i)
  BY <1>1, <1>2, SessionKept
<1>4. queue' \in [Server -> Seq(Nat)]
  <2>1. queue \in [Server -> Seq(Nat)] /\ taken \in Nat
    BY <1>1, IoFacts
  <2>2. queue[s] \in Seq(Nat)
    BY <2>1
  <2>3. Append(queue[s], taken) \in Seq(Nat)
    BY <2>1, <2>2
  <2> QED
    BY <1>2, <2>1, <2>3
<1>5. IoTypeOK'
  BY <1>1, <1>2, <1>4 DEF IoTypeOK
<1>6. LinesAreTaken'
  BY <1>1, <1>2, <1>3 DEF LinesAreTaken, main
<1>7. FlowsAreInOrder'
  BY <1>1, HandFlows
<1>8. AnswersAreInOrder'
  BY <1>1, <1>2, AnswersKept
<1>9. ClientIsInOrder'
  BY <1>1, <1>2, ClientAlone
<1>10. MainIsInOrder'
  <2>1. ~InputHasEnded
    BY <1>2 DEF InputHasEnded
  <2> QED
    BY <1>1, <1>2, <1>3, <2>1 DEF MainIsInOrder, main
<1> QED
  BY <1>3, <1>5, <1>6, <1>7, <1>8, <1>9, <1>10 DEF GateInvariant

(* main goes on: the input ends, the 500 ms are over, the process exits.   *)
LEMMA MainGoesOn ==
  ASSUME GateInvariant, InputEnds \/ DrainEnds \/ Exit \/ ExitFailed
  PROVE  GateInvariant'
<1>1. /\ SessionTypeOK /\ IoTypeOK /\ LinesAreTaken /\ FlowsAreInOrder /\ AnswersAreInOrder
      /\ ClientIsInOrder /\ MainIsInOrder
  BY DEF GateInvariant
<1>2. /\ UNCHANGED <<script, written, got, deaf, stdin, heard, todo, made, stdout, hung, taken,
                     hand, queue, toClient, hold, out, sessionVars>>
      /\ \/ /\ stage[main] = "live" /\ drain = "no" /\ hand = {}
            /\ IF taken < written.n THEN IsBad(taken + 1) ELSE ~written.open
            /\ drain' = "draining"
         \/ drain = "draining" /\ drain' = "over"
         \/ stage[main] = "down" /\ drain = "over" /\ drain' = "exited"
         \/ stage[main] = "failed" /\ drain' = "exited"
  BY DEF InputEnds, IsUp, DrainEnds, Exit, ExitFailed, clientVars, upstreamVars
<1>3. SessionTypeOK' /\ UNCHANGED <<stage, at, child, reader, writer>>
      /\ \A s \in Server : PumpRuns(s)' = PumpRuns(s)
  BY <1>1, <1>2, SessionKept
<1>4. IoTypeOK'
  BY <1>1, <1>2 DEF IoTypeOK
<1>5. LinesAreTaken'
  BY <1>1, <1>2, LinesKept
<1>6. FlowsAreInOrder'
  BY <1>1, <1>2, <1>3, FlowsKept
<1>7. AnswersAreInOrder'
  BY <1>1, <1>2, AnswersKept
<1>8. ClientIsInOrder'
  BY <1>1, <1>2, ClientAlone
<1>9. InputHasEnded' = InputHasEnded
  BY <1>2 DEF InputHasEnded, IsBad
<1>10. MainIsInOrder'
  <2>1. CASE /\ stage[main] = "live" /\ drain = "no" /\ hand = {}
             /\ IF taken < written.n THEN IsBad(taken + 1) ELSE ~written.open
             /\ drain' = "draining"
    <3>1. taken <= written.n /\ taken \in Nat /\ written.n \in Nat
      BY <1>1, IoFacts DEF LinesAreTaken
    <3>2. InputHasEnded
      BY <2>1, <3>1 DEF InputHasEnded
    <3> QED
      BY <1>1, <1>3, <1>9, <2>1, <3>2 DEF MainIsInOrder, main
  <2>2. CASE drain = "draining" /\ drain' = "over"
    BY <1>1, <1>3, <1>9, <2>2 DEF MainIsInOrder, main
  <2>3. CASE stage[main] = "down" /\ drain = "over" /\ drain' = "exited"
    BY <1>1, <1>3, <1>9, <2>3 DEF MainIsInOrder, main
  <2>4. CASE stage[main] = "failed" /\ drain' = "exited"
    BY <1>1, <1>3, <1>9, <2>4 DEF MainIsInOrder, main
  <2> QED
    BY <1>2, <2>1, <2>2, <2>3, <2>4
<1> QED
  BY <1>3, <1>4, <1>5, <1>6, <1>7, <1>8, <1>10 DEF GateInvariant

(* A line goes into an upstream's pipe.                                    *)
LEMMA LinePumped ==
  ASSUME GateInvariant, NEW s \in Server, Pump(s)
  PROVE  GateInvariant'
<1>1. /\ SessionTypeOK /\ IoTypeOK /\ LinesAreTaken /\ FlowsAreInOrder /\ AnswersAreInOrder
      /\ ClientIsInOrder /\ MainIsInOrder
  BY DEF GateInvariant
<1>2. /\ UNCHANGED <<script, written, got, deaf, heard, todo, made, stdout, hung, taken, hand,
                     toClient, hold, out, drain, sessionVars>>
      /\ queue[s] # <<>> /\ Len(stdin[s]) < Pipe
      /\ stdin' = [stdin EXCEPT ![s] = Append(@, Head(queue[s]))]
      /\ queue' = [queue EXCEPT ![s] = Tail(@)]
  BY DEF Pump, clientVars
<1>3. SessionTypeOK'
  BY <1>1, <1>2, SessionKept
<1>4. /\ queue' \in [Server -> Seq(Nat)] /\ stdin' \in [Server -> Seq(Nat)]
      /\ \A i \in Server : Len(stdin'[i]) <= Pipe
  <2>1. queue \in [Server -> Seq(Nat)] /\ stdin \in [Server -> Seq(Nat)] /\ Pipe \in Nat
        /\ \A i \in Server : Len(stdin[i]) <= Pipe
    BY <1>1, IoFacts, StdioAssumption DEF IoTypeOK
  <2>2. queue[s] \in Seq(Nat) /\ stdin[s] \in Seq(Nat)
    BY <2>1
  <2>3. Head(queue[s]) \in Nat /\ Tail(queue[s]) \in Seq(Nat)
    BY <1>2, <2>2
  <2>4. /\ Append(stdin[s], Head(queue[s])) \in Seq(Nat)
        /\ Len(Append(stdin[s], Head(queue[s]))) = Len(stdin[s]) + 1 /\ Len(stdin[s]) \in Nat
    BY <2>2, <2>3
  <2>5. Len(Append(stdin[s], Head(queue[s]))) <= Pipe
    BY <1>2, <2>1, <2>4
  <2> QED
    BY <1>2, <2>1, <2>3, <2>4, <2>5
<1>5. IoTypeOK'
  BY <1>1, <1>2, <1>4 DEF IoTypeOK
<1>6. LinesAreTaken' /\ MainIsInOrder'
  BY <1>1, <1>2, LinesKept, MainKept
<1>7. FlowsAreInOrder'
  BY <1>1, PumpFlows
<1>8. AnswersAreInOrder'
  BY <1>1, <1>2, AnswersKept
<1>9. ClientIsInOrder'
  BY <1>1, <1>2, ClientAlone
<1> QED
  BY <1>3, <1>5, <1>6, <1>7, <1>8, <1>9 DEF GateInvariant

(* An upstream reads a line.                                               *)
LEMMA LineRead ==
  ASSUME GateInvariant, NEW s \in Server, UpstreamReads(s)
  PROVE  GateInvariant'
<1>1. /\ SessionTypeOK /\ IoTypeOK /\ LinesAreTaken /\ FlowsAreInOrder /\ AnswersAreInOrder
      /\ ClientIsInOrder /\ MainIsInOrder
  BY DEF GateInvariant
<1>2. /\ UNCHANGED <<script, written, got, deaf, made, stdout, hung, taken, hand, queue,
                     toClient, hold, out, drain, sessionVars>>
      /\ stdin[s] # <<>>
      /\ heard' = [heard EXCEPT ![s] = Append(@, Head(stdin[s]))]
      /\ stdin' = [stdin EXCEPT ![s] = Tail(@)]
      /\ todo' = [todo EXCEPT ![s] = Answers[script[Head(stdin[s])]]]
  BY DEF UpstreamReads, clientVars, gateVars
<1>3. SessionTypeOK'
  BY <1>1, <1>2, SessionKept
<1>4. /\ heard' \in [Server -> Seq(Nat)] /\ stdin' \in [Server -> Seq(Nat)]
      /\ \A i \in Server : Len(stdin'[i]) <= Pipe
  <2>1. heard \in [Server -> Seq(Nat)] /\ stdin \in [Server -> Seq(Nat)] /\ Pipe \in Nat
        /\ \A i \in Server : Len(stdin[i]) <= Pipe
    BY <1>1, IoFacts, StdioAssumption DEF IoTypeOK
  <2>2. heard[s] \in Seq(Nat) /\ stdin[s] \in Seq(Nat)
    BY <2>1
  <2>3. Head(stdin[s]) \in Nat /\ Tail(stdin[s]) \in Seq(Nat)
        /\ Len(Tail(stdin[s])) = Len(stdin[s]) - 1 /\ Len(stdin[s]) \in Nat
    BY <1>2, <2>2
  <2>4. Append(heard[s], Head(stdin[s])) \in Seq(Nat)
    BY <2>2, <2>3
  <2>5. Len(Tail(stdin[s])) <= Pipe
    BY <2>1, <2>3
  <2> QED
    BY <1>2, <2>1, <2>3, <2>4, <2>5
<1>5. todo' \in [Server -> Nat]
  <2>1. Answers[script[Head(stdin[s])]] \in Nat
    BY <1>1, <1>2, NextIsALine
  <2> QED
    BY <1>1, <1>2, <2>1, IoFacts
<1>6. IoTypeOK'
  BY <1>1, <1>2, <1>4, <1>5 DEF IoTypeOK
<1>7. LinesAreTaken' /\ MainIsInOrder'
  BY <1>1, <1>2, LinesKept, MainKept
<1>8. FlowsAreInOrder'
  BY <1>1, ReadFlows
<1>9. AnswersAreInOrder'
  BY <1>1, <1>2, AnswersKept
<1>10. ClientIsInOrder'
  BY <1>1, <1>2, ClientAlone
<1> QED
  BY <1>3, <1>6, <1>7, <1>8, <1>9, <1>10 DEF GateInvariant

(* An upstream writes a line, or cannot, or hangs.                         *)
LEMMA LineWritten ==
  ASSUME GateInvariant, NEW s \in Server, UpstreamWrites(s) \/ UpstreamWriteFails(s) \/ Hang(s)
  PROVE  GateInvariant'
<1>1. /\ SessionTypeOK /\ IoTypeOK /\ LinesAreTaken /\ FlowsAreInOrder /\ AnswersAreInOrder
      /\ ClientIsInOrder /\ MainIsInOrder
  BY DEF GateInvariant
<1>2. UNCHANGED <<script, written, got, deaf, stdin, heard, taken, hand, queue, toClient, hold,
                  out, drain, sessionVars>>
  BY DEF UpstreamWrites, UpstreamWriteFails, Hang, clientVars, gateVars
<1>3. SessionTypeOK' /\ \A i \in Server : PumpRuns(i)' = PumpRuns(i)
  BY <1>1, <1>2, SessionKept
<1>4. LinesAreTaken' /\ MainIsInOrder'
  BY <1>1, <1>2, LinesKept, MainKept
<1>5. FlowsAreInOrder'
  BY <1>1, <1>2, <1>3, FlowsKept
<1>6. CASE UpstreamWrites(s)
  <2>1. /\ hung' = hung /\ todo[s] > 0 /\ Len(stdout[s]) < Pipe
        /\ made' = [made EXCEPT ![s] = @ + 1]
        /\ stdout' = [stdout EXCEPT ![s] = Append(@, made[s] + 1)]
        /\ todo' = [todo EXCEPT ![s] = @ - 1]
    BY <1>6 DEF UpstreamWrites
  <2>2. /\ made \in [Server -> Nat] /\ todo \in [Server -> Nat] /\ stdout \in [Server -> Seq(Nat)]
        /\ Pipe \in Nat /\ \A i \in Server : Len(stdout[i]) <= Pipe
    BY <1>1, IoFacts, StdioAssumption DEF IoTypeOK
  <2>3. made[s] + 1 \in Nat /\ todo[s] - 1 \in Nat /\ stdout[s] \in Seq(Nat)
    BY <2>1, <2>2
  <2>4. /\ Append(stdout[s], made[s] + 1) \in Seq(Nat)
        /\ Len(Append(stdout[s], made[s] + 1)) = Len(stdout[s]) + 1 /\ Len(stdout[s]) \in Nat
    BY <2>3
  <2>5. Len(Append(stdout[s], made[s] + 1)) <= Pipe
    BY <2>1, <2>2, <2>4
  <2>6. /\ made' \in [Server -> Nat] /\ todo' \in [Server -> Nat]
        /\ stdout' \in [Server -> Seq(Nat)] /\ \A i \in Server : Len(stdout'[i]) <= Pipe
    BY <2>1, <2>2, <2>3, <2>4, <2>5
  <2>7. IoTypeOK'
    BY <1>1, <1>2, <2>1, <2>6 DEF IoTypeOK
  <2>8. AnswersAreInOrder' /\ \A i \in Server : Left(i)' = Left(i) /\ made[i] <= made'[i]
    BY <1>1, <1>6, WritesAnswers
  <2>9. got' \o out' = got \o out
    BY <1>2
  <2>10. ClientIsInOrder'
    BY <1>1, <1>2, <2>6, <2>8, <2>9, ClientKept
  <2> QED
    BY <1>3, <1>4, <1>5, <2>7, <2>8, <2>10 DEF GateInvariant
<1>7. CASE Hang(s)
  <2>1. UNCHANGED <<made, stdout, todo>> /\ s \in CanHang /\ hung' = hung \cup {s}
    BY <1>7 DEF Hang
  <2>2. IoTypeOK'
    BY <1>1, <1>2, <2>1 DEF IoTypeOK
  <2>3. AnswersAreInOrder'
    BY <1>1, <2>1, AnswersKept
  <2>4. ClientIsInOrder'
    BY <1>1, <1>2, <2>1, ClientAlone
  <2> QED
    BY <1>3, <1>4, <1>5, <2>2, <2>3, <2>4 DEF GateInvariant
<1>8. CASE UpstreamWriteFails(s)
  <2>1. UNCHANGED <<made, stdout, hung>> /\ todo[s] > 0 /\ todo' = [todo EXCEPT ![s] = @ - 1]
    BY <1>8 DEF UpstreamWriteFails
  <2>2. todo' \in [Server -> Nat]
    BY <1>1, <2>1, IoFacts
  <2>3. IoTypeOK'
    BY <1>1, <1>2, <2>1, <2>2 DEF IoTypeOK
  <2>4. AnswersAreInOrder' /\ ClientIsInOrder'
    BY <1>1, <1>2, <2>1, AnswersKept, ClientAlone
  <2> QED
    BY <1>3, <1>4, <1>5, <2>3, <2>4 DEF GateInvariant
<1> QED
  BY <1>6, <1>7, <1>8

(* The gateway takes an upstream's line.                                   *)
LEMMA AnswerTaken ==
  ASSUME GateInvariant, NEW s \in Server, TakeAnswer(s)
  PROVE  GateInvariant'
<1>1. /\ SessionTypeOK /\ IoTypeOK /\ LinesAreTaken /\ FlowsAreInOrder /\ AnswersAreInOrder
      /\ ClientIsInOrder /\ MainIsInOrder
  BY DEF GateInvariant
<1>2. /\ UNCHANGED <<script, written, got, deaf, stdin, heard, todo, made, hung, taken, hand,
                     queue, hold, out, drain, sessionVars>>
      /\ stdout[s] # <<>>
      /\ toClient' = Append(toClient, [from |-> s, n |-> Head(stdout[s])])
      /\ stdout' = [stdout EXCEPT ![s] = Tail(@)]
  BY DEF TakeAnswer, clientVars
<1>3. SessionTypeOK' /\ \A i \in Server : PumpRuns(i)' = PumpRuns(i)
  BY <1>1, <1>2, SessionKept
<1>4. AnswersAreInOrder' /\ Head(stdout[s]) \in Nat \ {0}
  <2>1. AnswersAreInOrder' /\ Head(stdout[s]) = Left(s) + 1 /\ Left(s) \in Nat
    BY <1>1, TakeAnswers
  <2> QED
    BY <2>1
<1>5. toClient' \in Seq(Frame)
  <2> DEFINE f == [from |-> s, n |-> Head(stdout[s])]
  <2>1. f \in Frame
    BY <1>4 DEF Frame
  <2> HIDE DEF f
  <2>2. toClient \in Seq(Frame)
    BY <1>1, IoFacts
  <2>3. Append(toClient, f) \in Seq(Frame)
    BY <2>1, <2>2, FrameMoves
  <2> QED
    BY <1>2, <2>3 DEF f
<1>6. stdout' \in [Server -> Seq(Nat)] /\ \A i \in Server : Len(stdout'[i]) <= Pipe
  <2>1. stdout \in [Server -> Seq(Nat)] /\ Pipe \in Nat
        /\ \A i \in Server : Len(stdout[i]) <= Pipe
    BY <1>1, IoFacts, StdioAssumption DEF IoTypeOK
  <2>2. stdout[s] \in Seq(Nat)
    BY <2>1
  <2>3. Tail(stdout[s]) \in Seq(Nat)
        /\ Len(Tail(stdout[s])) = Len(stdout[s]) - 1 /\ Len(stdout[s]) \in Nat
    BY <1>2, <2>2
  <2>4. Len(Tail(stdout[s])) <= Pipe
    BY <2>1, <2>3
  <2> QED
    BY <1>2, <2>1, <2>3, <2>4
<1>7. IoTypeOK'
  BY <1>1, <1>2, <1>5, <1>6 DEF IoTypeOK
<1>8. LinesAreTaken' /\ MainIsInOrder'
  BY <1>1, <1>2, LinesKept, MainKept
<1>9. FlowsAreInOrder'
  BY <1>1, <1>2, <1>3, FlowsKept
<1>10. ClientIsInOrder'
  BY <1>1, TakeAnswerClient
<1> QED
  BY <1>3, <1>4, <1>7, <1>8, <1>9, <1>10 DEF GateInvariant

(* A pump ends.                                                            *)
LEMMA PumpsEnded ==
  ASSUME GateInvariant, NEW s \in Server, Ends(s)
  PROVE  GateInvariant'
<1>1. /\ SessionTypeOK /\ IoTypeOK /\ LinesAreTaken /\ FlowsAreInOrder /\ AnswersAreInOrder
      /\ ClientIsInOrder /\ MainIsInOrder
  BY DEF GateInvariant
<1>2. /\ UNCHANGED <<stage, at, child, script, written, got, deaf, heard, todo, made, stdout,
                     hung, taken, hand, toClient, hold, out, drain>>
      /\ \/ /\ reader' = [reader EXCEPT ![main][s] = "ended"]
            /\ UNCHANGED <<writer, stdin, queue>>
         \/ /\ writer' = [writer EXCEPT ![main][s] = "ended"] /\ reader' = reader
            /\ queue' = [queue EXCEPT ![s] = <<>>]
            /\ stdin' = stdin \/ stdin' = [stdin EXCEPT ![s] = <<>>]
  BY PumpGoes
<1>3. SessionTypeOK'
  BY <1>1, SessionTypes DEF Ends, ReadPumpEnds, WritePumpEnds, WritePumpStops
<1>4. IoTypeOK'
  <2>1. /\ queue \in [Server -> Seq(Nat)] /\ stdin \in [Server -> Seq(Nat)]
        /\ <<>> \in Seq(Nat) /\ Len(<<>>) = 0
        /\ Pipe \in Nat /\ \A i \in Server : Len(stdin[i]) <= Pipe
    BY <1>1, IoFacts, StdioAssumption DEF IoTypeOK
  <2>2. queue' \in [Server -> Seq(Nat)]
    BY <1>2, <2>1
  <2>3. stdin' \in [Server -> Seq(Nat)]
    BY <1>2, <2>1
  <2>4. \A i \in Server : stdin'[i] = stdin[i] \/ stdin'[i] = <<>>
    BY <1>2, <2>1
  <2>5. \A i \in Server : Len(stdin'[i]) <= Pipe
    BY <2>1, <2>4
  <2> QED
    BY <1>1, <1>2, <2>2, <2>3, <2>5 DEF IoTypeOK
<1>5. LinesAreTaken'
  BY <1>1, <1>2 DEF LinesAreTaken, main
<1>6. FlowsAreInOrder'
  BY <1>1, EndsFlows
<1>7. AnswersAreInOrder'
  BY <1>1, <1>2, AnswersKept
<1>8. ClientIsInOrder'
  BY <1>1, <1>2, ClientAlone
<1>9. MainIsInOrder'
  <2>1. InputHasEnded' = InputHasEnded
    BY <1>2 DEF InputHasEnded, IsBad
  <2>2. reader \in [Sess -> [Server -> Task]] /\ writer \in [Sess -> [Server -> Task]]
        /\ main \in Sess
    BY <1>1, MainIs DEF SessionTypeOK
  <2>3. \A i \in Server :
          /\ reader[main][i] # "running" => reader'[main][i] # "running"
          /\ writer[main][i] # "running" => writer'[main][i] # "running"
    BY <1>2, <2>2
  <2> QED
    BY <1>1, <1>2, <2>1, <2>3 DEF MainIsInOrder, main
<1> QED
  BY <1>3, <1>4, <1>5, <1>6, <1>7, <1>8, <1>9 DEF GateInvariant

(* The client's write pump, and the thread that writes for it.             *)
LEMMA LineSent ==
  ASSUME GateInvariant, SendOut \/ Flush
  PROVE  GateInvariant'
<1>1. /\ SessionTypeOK /\ IoTypeOK /\ LinesAreTaken /\ FlowsAreInOrder /\ AnswersAreInOrder
      /\ ClientIsInOrder /\ MainIsInOrder
  BY DEF GateInvariant
<1>2. UNCHANGED <<script, written, got, deaf, stdin, heard, todo, made, stdout, hung, taken,
                  hand, queue, drain, sessionVars>>
  BY DEF SendOut, Flush, clientVars, upstreamVars
<1>3. SessionTypeOK' /\ \A i \in Server : PumpRuns(i)' = PumpRuns(i)
  BY <1>1, <1>2, SessionKept
<1>4. ClientIsInOrder'
  BY <1>1, SendOutClient, FlushClient
<1>5. /\ toClient' \in Seq(Frame) /\ hold' \in Seq(Frame) /\ Len(hold') <= 1
      /\ out' \in Seq(Frame) /\ Len(out') <= Pipe
  <2>1. /\ toClient \in Seq(Frame) /\ hold \in Seq(Frame) /\ out \in Seq(Frame) /\ Torn \in Frame
        /\ Len(out) <= Pipe /\ Pipe \in Nat
    BY <1>1, ClientFacts, StdioAssumption DEF IoTypeOK
  <2>2. CASE SendOut
    <3>1. toClient # <<>> /\ hold' = <<Head(toClient)>> /\ toClient' = Tail(toClient)
          /\ out' = out
      BY <2>2 DEF SendOut
    <3>2. Head(toClient) \in Frame /\ Tail(toClient) \in Seq(Frame)
      BY <2>1, <3>1, FrameMoves
    <3>3. \A f \in Frame : <<f>> \in Seq(Frame) /\ Len(<<f>>) = 1
      OBVIOUS
    <3> QED
      BY <2>1, <3>1, <3>2, <3>3
  <2>3. CASE Flush
    <3>1. PICK f \in {hold[1]} \cup (IF drain \in {"over", "exited"} THEN {Torn} ELSE {}) :
            out' = Append(out, f)
      BY <2>3 DEF Flush
    <3>2. hold # <<>> /\ hold' = <<>> /\ toClient' = toClient /\ Len(out) < Pipe
      BY <2>3 DEF Flush
    <3>3. f \in Frame
      <4>1. hold[1] \in Frame
        BY <2>1, <3>2
      <4> QED
        BY <2>1, <3>1, <4>1
    <3>4. Append(out, f) \in Seq(Frame) /\ Len(Append(out, f)) = Len(out) + 1 /\ Len(out) \in Nat
      BY <2>1, <3>3
    <3>5. <<>> \in Seq(Frame) /\ Len(<<>>) = 0
      OBVIOUS
    <3> QED
      BY <2>1, <3>1, <3>2, <3>4, <3>5
  <2> QED
    BY <2>2, <2>3
<1>6. got' \in Seq(Frame)
  BY <1>1, <1>2, IoFacts
<1>7. IoTypeOK'
  BY <1>1, <1>2, <1>5, <1>6 DEF IoTypeOK
<1>8. LinesAreTaken' /\ MainIsInOrder'
  BY <1>1, <1>2, LinesKept, MainKept
<1>9. FlowsAreInOrder'
  BY <1>1, <1>2, <1>3, FlowsKept
<1>10. AnswersAreInOrder'
  BY <1>1, <1>2, AnswersKept
<1> QED
  BY <1>3, <1>4, <1>7, <1>8, <1>9, <1>10 DEF GateInvariant

-----------------------------------------------------------------------------
(* Steps of the start leave the gateway alone, and the other way round.    *)
LEMMA GateKept ==
  ASSUME GateInvariant, UNCHANGED <<sessionVars, ioVars>>
  PROVE  GateInvariant'
<1>1. /\ SessionTypeOK /\ IoTypeOK /\ LinesAreTaken /\ FlowsAreInOrder /\ AnswersAreInOrder
      /\ ClientIsInOrder /\ MainIsInOrder
  BY DEF GateInvariant
<1>2. UNCHANGED <<script, written, got, deaf, stdin, heard, todo, made, stdout, hung, taken,
                  hand, queue, toClient, hold, out, drain, sessionVars>>
  BY DEF ioVars, clientVars, upstreamVars, gateVars
<1>3. SessionTypeOK' /\ \A i \in Server : PumpRuns(i)' = PumpRuns(i)
  BY <1>1, <1>2, SessionKept
<1>4. IoTypeOK'
  BY <1>1, <1>2 DEF IoTypeOK
<1>5. LinesAreTaken' /\ MainIsInOrder'
  BY <1>1, <1>2, LinesKept, MainKept
<1>6. FlowsAreInOrder'
  BY <1>1, <1>2, <1>3, FlowsKept
<1>7. AnswersAreInOrder' /\ ClientIsInOrder'
  BY <1>1, <1>2, AnswersKept, ClientAlone
<1> QED
  BY <1>3, <1>4, <1>5, <1>6, <1>7 DEF GateInvariant

(* The command line is read by no other action.                             *)
LEMMA StartKept ==
  ASSUME StartInvariant, UNCHANGED startVars
  PROVE  StartInvariant'
<1>1. Marks' = Marks /\ Place' = Place /\ IsRead' = IsRead
      /\ \A i : IsValue(i)' = IsValue(i)
  BY DEF startVars, Marks, Place, IsRead, IsValue, WantsValue
<1>2. StartTypeOK' /\ LineIsReadInOrder'
  BY <1>1 DEF StartInvariant, StartTypeOK, LineIsReadInOrder, startVars
<1>3. MarkIsAhead' = MarkIsAhead
  <2>1. \A i : i = Place => (IsValue(i)' = IsValue(i))
    BY <1>1
  <2> QED
    BY <1>1, <2>1 DEF MarkIsAhead, startVars, IsValue, WantsValue
<1>4. CommandIsBehind' = CommandIsBehind
  BY <1>1 DEF CommandIsBehind, startVars
<1>5. CommandIsInOrder' /\ ToldFirst'
  BY <1>1, <1>3, <1>4 DEF StartInvariant, CommandIsInOrder, ToldFirst, startVars
<1>6. SpecsAreValid'
  BY DEF StartInvariant, SpecsAreValid, startVars, Valid, IsIdentifier
<1> QED
  BY <1>2, <1>5, <1>6 DEF StartInvariant

(* main goes on to serve SSE, or launches the upstreams and forgets its    *)
(* command line.                                                           *)
LEMMA StartEnds ==
  ASSUME StartInvariant, Listen \/ BeginLaunch
  PROVE  StartInvariant'
<1>1. StartTypeOK'
  <2>1. StartTypeOK
    BY DEF StartInvariant
  <2>2. CASE Listen
    BY <2>1, <2>2 DEF Listen, StartTypeOK
  <2>3. CASE BeginLaunch
    <3>1. "launched" \in {"parse", "resolve", "ready", "told", "failed", "launched", "listening"}
          /\ "none" \in Tiers /\ FALSE \in BOOLEAN
      BY DEF Tiers
    <3>2. <<>> \in Seq(Token) /\ <<>> \in Seq(Seq(Char))
      OBVIOUS
    <3>3. NoCli \in CliType
      <4>1. NotGiven \in Tiers \cup {NotGiven} /\ NotGiven \in Text \cup {NotGiven}
        OBVIOUS
      <4> QED
        BY <3>2, <4>1, Zenon DEF NoCli, CliType
    <3> QED
      BY <2>3, <3>1, <3>2, <3>3 DEF BeginLaunch, StartTypeOK, CliType
  <2> QED
    BY <2>2, <2>3
<1>2. start' \in {"listening", "failed", "launched"}
  BY DEF Listen, BeginLaunch
<1>3. CommandIsInOrder' /\ ToldFirst' /\ SpecsAreValid'
  BY <1>2 DEF CommandIsInOrder, IsRead, ToldFirst, SpecsAreValid
<1>4. LineIsReadInOrder'
  <2>1. CASE Listen
    BY <1>2, <2>1 DEF Listen, StartInvariant, LineIsReadInOrder, Place
  <2>2. CASE BeginLaunch
    <3>1. asked' = <<>> /\ argv' = <<>>
      BY <2>2 DEF BeginLaunch
    <3>2. DOMAIN argv' = {} /\ Len(argv') <= Len(asked')
      BY <3>1
    <3> QED
      BY <3>1, <3>2 DEF LineIsReadInOrder
  <2> QED
    BY <2>1, <2>2
<1> QED
  BY <1>1, <1>3, <1>4 DEF StartInvariant

-----------------------------------------------------------------------------
(* Nothing is on the way when the gateway starts.                          *)
LEMMA NothingIsOnItsWay ==
  ASSUME Init
  PROVE  GateInvariant
<1>1. /\ stage[main] = "new" /\ \A s \in Server : writer[main][s] = "none"
      /\ SessionTypeOK
  <2>1. 0 \in 0 .. NServers
    BY SessionAssumption
  <2> QED
    BY <2>1, MainIs DEF Init, SessionInit, SessionTypeOK, Task
<1>2. <<>> \in Seq(Nat) /\ <<>> \in Seq(Frame) /\ Len(<<>>) = 0 /\ DOMAIN <<>> = {}
      /\ <<>> \o <<>> = <<>>
  OBVIOUS
<1>3. IoTypeOK
  <2>1. /\ script \in Scripts /\ written \in [n : Nat, open : BOOLEAN] /\ taken \in Nat
        /\ hand \subseteq Server /\ hung \subseteq CanHang /\ deaf \in BOOLEAN
        /\ drain \in {"no", "draining", "over", "exited"}
    BY DEF Init
  <2>2. {queue, stdin, heard} \subseteq [Server -> Seq(Nat)] /\ stdout \in [Server -> Seq(Nat)]
    BY <1>2 DEF Init
  <2>3. {todo, made} \subseteq [Server -> Nat]
    BY DEF Init
  <2>4. {toClient, hold, out, got} \subseteq Seq(Frame)
    BY <1>2 DEF Init
  <2>5. \A s \in Server : Len(stdin[s]) <= Pipe /\ Len(stdout[s]) <= Pipe
    BY <1>2, StdioAssumption DEF Init
  <2>6. Len(hold) <= 1 /\ Len(out) <= Pipe
    BY <1>2, StdioAssumption DEF Init
  <2> QED
    BY <2>1, <2>2, <2>3, <2>4, <2>5, <2>6 DEF IoTypeOK
<1>4. LinesAreTaken
  <2>1. Len(script) \in Nat
    BY <1>3, IoFacts
  <2> QED
    BY <2>1 DEF Init, LinesAreTaken
<1>5. FlowsAreInOrder
  <2> SUFFICES ASSUME NEW s \in Server PROVE FlowIsInOrder(s)
    BY DEF FlowsAreInOrder
  <2>1. Flow(s) = <<>>
    BY <1>2 DEF Init, Flow
  <2>2. Handed(s) = {}
    BY DEF Init, Handed
  <2>3. ToSet(<<>>) = {}
    BY <1>2 DEF ToSet
  <2>4. ~PumpRuns(s)
    BY <1>1 DEF PumpRuns, AtWork
  <2> QED
    BY <1>2, <2>1, <2>2, <2>3, <2>4 DEF FlowIsInOrder, Begins, Increasing
<1>6. AnswersAreInOrder
  BY <1>2 DEF Init, AnswersAreInOrder
<1>7. ClientIsInOrder
  <2>1. Issued = <<>> /\ OnWay = <<>> /\ got \o out = <<>> /\ toClient = <<>> /\ hold = <<>>
    BY <1>2 DEF Init, Issued, OnWay
  <2>2. InTurn(<<>>) /\ \A s \in Server : Numbers(s, <<>>) = {}
    BY <1>2 DEF InTurn, Numbers
  <2>3. \A s \in Server : made[s] = 0 /\ Left(s) = 0
    BY <1>2 DEF Init, Left
  <2>4. ToSet(<<>>) = {}
    BY <1>2 DEF ToSet
  <2>5. 1 .. 0 = {}
    OBVIOUS
  <2> QED
    BY <1>2, <2>1, <2>2, <2>3, <2>4, <2>5 DEF ClientIsInOrder
<1>8. MainIsInOrder
  BY <1>1 DEF Init, MainIsInOrder
<1> QED
  BY <1>1, <1>3, <1>4, <1>5, <1>6, <1>7, <1>8 DEF GateInvariant

(* There is an upstream.                                                   *)
LEMMA SomeServer == 0 \in Server
  BY SessionAssumption DEF Server

(* Every step keeps the invariant.                                         *)
LEMMA StdioStep ==
  ASSUME StdioInvariant, [Next]_allVars
  PROVE  StdioInvariant'
<1>1. StartInvariant /\ GateInvariant
  BY DEF StdioInvariant
<1>2. CASE Parse \/ Listen \/ BeginLaunch
  <2>1. CASE Parse
    BY <1>1, <2>1, StartStep, GateKept DEF Parse, StdioInvariant
  <2>2. CASE Listen
    <3>1. UNCHANGED <<sessionVars, ioVars>>
      BY <2>2 DEF Listen
    <3> QED
      BY <1>1, <2>2, <3>1, StartEnds, GateKept DEF StdioInvariant
  <2>3. CASE BeginLaunch
    <3>1. Launch(main) /\ UNCHANGED ioVars
      BY <2>3 DEF BeginLaunch
    <3>2. GateInvariant'
      BY <1>1, <3>1, SomeServer, SessionSteps
    <3> QED
      BY <1>1, <2>3, <3>2, StartEnds DEF StdioInvariant
  <2> QED
    BY <1>2, <2>1, <2>2, <2>3
<1>3. CASE Spawn \/ EndSession \/ \E s \in Server : Exits(s)
  <2>1. UNCHANGED <<startVars, ioVars>>
    BY <1>3 DEF Spawn, EndSession, Exits
  <2>2. ASSUME Spawn PROVE GateInvariant'
    BY <1>1, <2>1, <2>2, SomeServer, SessionSteps DEF Spawn
  <2>3. ASSUME EndSession PROVE GateInvariant'
    BY <1>1, <2>1, <2>3, SomeServer, SessionSteps DEF EndSession
  <2>4. ASSUME NEW s \in Server, Exits(s) PROVE GateInvariant'
    BY <1>1, <2>1, <2>4, SessionSteps DEF Exits
  <2> QED
    BY <1>1, <1>3, <2>1, <2>2, <2>3, <2>4, StartKept DEF StdioInvariant
<1>4. CASE \/ ExitFailed \/ Write \/ CloseInput \/ Read \/ GoDeaf \/ TakeLine \/ InputEnds
           \/ SendOut \/ Flush \/ DrainEnds \/ Exit
  <2>1. UNCHANGED startVars
    BY <1>4 DEF ExitFailed, Write, CloseInput, Read, GoDeaf, TakeLine, InputEnds, SendOut,
                Flush, DrainEnds, Exit
  <2>2. GateInvariant'
    BY <1>1, <1>4, ClientWrites, ClientReads, LineTaken, MainGoesOn, LineSent
  <2> QED
    BY <1>1, <2>1, <2>2, StartKept DEF StdioInvariant
<1>5. ASSUME NEW s \in Server, Gate(s) \/ Upstream(s) \/ Hang(s) PROVE StdioInvariant'
  <2>1. UNCHANGED startVars
    BY <1>5, PumpGoes DEF Gate, Upstream, Hand, Pump, TakeAnswer, UpstreamReads, UpstreamWrites,
                          UpstreamWriteFails, Hang
  <2>2. GateInvariant'
    BY <1>1, <1>5, LineHanded, LinePumped, AnswerTaken, PumpsEnded, LineRead, LineWritten
       DEF Gate, Upstream
  <2> QED
    BY <1>1, <2>1, <2>2, StartKept DEF StdioInvariant
<1>6. CASE UNCHANGED allVars
  <2>1. UNCHANGED <<sessionVars, startVars, ioVars>>
    BY <1>6 DEF allVars
  <2> QED
    BY <1>1, <2>1, StartKept, GateKept DEF StdioInvariant
<1> QED
  BY <1>2, <1>3, <1>4, <1>5, <1>6 DEF Next

-----------------------------------------------------------------------------
(* What the invariant means for what upstreams and client hear.            *)
LEMMA InvariantGivesHeard ==
  ASSUME StdioInvariant
  PROVE  UpstreamHearsInOrder
<1> SUFFICES ASSUME NEW s \in Server
             PROVE  /\ Enumerates(heard[s], {k \in Handed(s) : \E h \in ToSet(heard[s]) : k <= h})
                    /\ child[main][s] = "running" /\ PumpRuns(s) =>
                         Enumerates(heard[s] \o stdin[s] \o queue[s], Handed(s))
  BY DEF UpstreamHearsInOrder
<1>1. IoTypeOK /\ Begins(Flow(s), Handed(s)) /\ (PumpRuns(s) => ToSet(Flow(s)) = Handed(s))
  BY DEF StdioInvariant, GateInvariant, FlowsAreInOrder, FlowIsInOrder
<1>2. Begins(heard[s], Handed(s))
  <2>1. heard[s] \in Seq(Nat) /\ stdin[s] \o queue[s] \in Seq(Nat)
        /\ Flow(s) = heard[s] \o (stdin[s] \o queue[s])
    BY <1>1, FlowFacts
  <2>2. Begins(heard[s] \o (stdin[s] \o queue[s]), Handed(s))
    BY <1>1, <2>1, Zenon
  <2> QED
    BY <2>1, <2>2, BeginningBegins, Zenon
<1>3. ToSet(heard[s]) \subseteq Nat
  <2>1. heard[s] \in Seq(Nat)
    BY <1>1, FlowFacts
  <2> QED
    BY <2>1, SetOf
<1>4. Enumerates(heard[s], {k \in Handed(s) : \E h \in ToSet(heard[s]) : k <= h})
  BY <1>2, <1>3 DEF Begins, Enumerates
<1>5. PumpRuns(s) => Enumerates(heard[s] \o stdin[s] \o queue[s], Handed(s))
  BY <1>1 DEF Begins, Enumerates, Flow
<1> QED
  BY <1>4, <1>5

(* What it means for what the client hears.                                *)
LEMMA InvariantGivesClientHears ==
  ASSUME StdioInvariant
  PROVE  ClientHearsInOrder
<1>1. IoTypeOK /\ AnswersAreInOrder /\ ClientIsInOrder
  BY DEF StdioInvariant, GateInvariant
<1>2. InTurn(got \o out) /\ \A s \in Server : Numbers(s, got \o out) \subseteq 1 .. made[s]
  <2>1. got \o out \in Seq(Frame) /\ hold \in Seq(Frame) /\ Issued = (got \o out) \o hold
    BY <1>1, ClientFacts
  <2>2. InTurn((got \o out) \o hold)
        /\ \A s \in Server : Numbers(s, (got \o out) \o hold) \subseteq 1 .. made[s]
    BY <1>1, <2>1, Zenon DEF ClientIsInOrder
  <2>3. InTurn(got \o out) /\ \A s : Numbers(s, got \o out) \subseteq Numbers(s, (got \o out) \o hold)
    BY <2>1, <2>2, BeginningInTurn, Zenon
  <2> QED
    BY <2>2, <2>3, Zenon
<1>3. drain \in {"no", "draining"} =>
        InTurn(OnWay) /\ \A s \in Server : Numbers(s, OnWay) = 1 .. made[s] - Len(stdout[s])
  BY <1>1 DEF ClientIsInOrder, Left
<1>4. \A s \in Server : \A i \in DOMAIN stdout[s] : stdout[s][i] = made[s] - Len(stdout[s]) + i
  BY <1>1 DEF AnswersAreInOrder, Left
<1>5. \A i \in DOMAIN (got \o out) :
        (got \o out)[i] = Torn => i = Len(got \o out) /\ drain \in {"over", "exited"}
  BY <1>1 DEF ClientIsInOrder
<1> QED
  BY <1>2, <1>3, <1>4, <1>5, Zenon DEF ClientHearsInOrder

(* What it means for the drain and the exit.                               *)
LEMMA InvariantGivesNothingLeft ==
  ASSUME StdioInvariant
  PROVE  NothingIsLeftBehind
<1>1. MainIsInOrder
  BY DEF StdioInvariant, GateInvariant
<1> QED
  BY <1>1 DEF MainIsInOrder, InputHasEnded, NothingIsLeftBehind

(* What it means for types.                                                *)
LEMMA InvariantGivesTypes ==
  ASSUME StdioInvariant
  PROVE  TypeOK
BY DEF StdioInvariant, StartInvariant, GateInvariant, TypeOK

-----------------------------------------------------------------------------
(* The invariant holds throughout.                                         *)
THEOREM StdioInvariance == Spec => []StdioInvariant
<1>1. Init => StdioInvariant
  BY StartBegins, NothingIsOnItsWay DEF Init, StdioInvariant
<1>2. StdioInvariant /\ [Next]_allVars => StdioInvariant'
  BY StdioStep
<1> QED
  BY <1>1, <1>2, PTL DEF Spec

(* Session, command line and lines keep their types: the pipes hold no     *)
(* more than they can, and an answer has its number (session.rs, main.rs,  *)
(* proxy.rs).                                                              *)
THEOREM StdioTypeCorrect == Spec => []TypeOK
  BY StdioInvariance, InvariantGivesTypes, PTL

(* Each upstream hears what the client has for it, in the client's order   *)
(* and without a gap, and nothing is lost on the way while it runs         *)
(* (proxy.rs, the pumps).                                                  *)
THEOREM UpstreamsHearInOrder == Spec => []UpstreamHearsInOrder
  BY StdioInvariance, InvariantGivesHeard, PTL

(* The client hears each upstream's lines in their order, whole and        *)
(* without a gap, and all of them as long as main has not aborted its      *)
(* write pump (main.rs, proxy.rs).                                         *)
THEOREM TheClientHearsInOrder == Spec => []ClientHearsInOrder
  BY StdioInvariance, InvariantGivesClientHears, PTL

(* main ends when all input is on its way, and leaves no upstream of the   *)
(* session running (main.rs, Session::shutdown).                           *)
THEOREM NothingLeftBehind == Spec => []NothingIsLeftBehind
  BY StdioInvariance, InvariantGivesNothingLeft, PTL

(* An upstream's command is what follows the "--", as it stands            *)
(* (parse_args).                                                           *)
THEOREM VerbatimCommand == Spec => []CommandIsVerbatim
<1>1. StdioInvariant => CommandIsVerbatim
  BY InvariantGivesVerbatim DEF StdioInvariant
<1> QED
  BY <1>1, StdioInvariance, PTL

(* Names that GatewayConfig::validate admits keep the tools of different   *)
(* upstreams apart, unless they contain the separator or end with half of  *)
(* it (config.rs, router.rs).                                              *)
THEOREM ApartPrefixes == Spec => []PrefixesAreApart
<1>1. StdioInvariant => PrefixesAreApart
  BY InvariantGivesApart DEF StdioInvariant
<1> QED
  BY <1>1, StdioInvariance, PTL
-----------------------------------------------------------------------------
(* Stdio implements Relay.  The session's stage only goes forth, and its   *)
(* own steps are the only ones that move it.                               *)
LEMMA StageSteps ==
  ASSUME StdioInvariant, [Next]_allVars
  PROVE  \/ UNCHANGED sessionVars
         \/ /\ Launch(main) \/ Launching(main) \/ AbortPumps(main) \/ KillChild(main) \/ ShutDown(main)
               \/ \E s \in Server : ChildExits(main, s)
            /\ UNCHANGED ioVars
         \/ \E s \in Server : Ends(s)
<1>1. CASE Parse \/ Listen
  BY <1>1 DEF Parse, Listen
<1>2. CASE BeginLaunch \/ Spawn \/ EndSession
  BY <1>2 DEF BeginLaunch, Spawn, EndSession
<1>3. CASE ExitFailed \/ Write \/ CloseInput \/ Read \/ GoDeaf \/ TakeLine \/ InputEnds \/ SendOut
           \/ Flush \/ DrainEnds \/ Exit
  BY <1>3 DEF ExitFailed, Write, CloseInput, Read, GoDeaf, TakeLine, InputEnds, SendOut, Flush,
              DrainEnds, Exit
<1>4. ASSUME NEW s \in Server, Gate(s) \/ Upstream(s) \/ Hang(s) \/ Exits(s)
      PROVE  \/ UNCHANGED sessionVars \/ Ends(s)
             \/ ChildExits(main, s) /\ UNCHANGED ioVars
  BY <1>4 DEF Gate, Upstream, Hand, Pump, TakeAnswer, UpstreamReads, UpstreamWrites,
                 UpstreamWriteFails, Hang, Exits
<1>5. CASE UNCHANGED allVars
  BY <1>5 DEF allVars
<1> QED
  BY <1>1, <1>2, <1>3, <1>4, <1>5 DEF Next

(* The session's state, conjunct by conjunct.                              *)
LEMMA SessionFacts ==
  ASSUME StdioInvariant
  PROVE  /\ main \in Sess /\ IoTypeOK /\ NServers \in Nat \ {0}
         /\ stage \in [Sess -> {"new", "launching", "failed", "live", "killing", "down"}]
         /\ at \in [Sess -> 0 .. NServers]
         /\ child \in [Sess -> [Server -> {"none", "running", "exited", "killed"}]]
         /\ reader \in [Sess -> [Server -> Task]] /\ writer \in [Sess -> [Server -> Task]]
         /\ \A s \in Server : s \in 0 .. NServers - 1
         /\ MainIsInOrder /\ LinesAreTaken /\ FlowsAreInOrder
<1>1. SessionTypeOK /\ IoTypeOK /\ MainIsInOrder /\ LinesAreTaken /\ FlowsAreInOrder
  BY DEF StdioInvariant, GateInvariant
<1> QED
  BY <1>1, MainFacts DEF SessionTypeOK

(* launch starts the upstreams in turn.                                    *)
LEMMA LaunchedKept ==
  ASSUME StdioInvariant, LaunchedInTurn, [Next]_allVars
  PROVE  LaunchedInTurn'
<1>1. main \in Sess /\ main' = main /\ NServers \in Nat \ {0}
      /\ stage \in [Sess -> {"new", "launching", "failed", "live", "killing", "down"}]
      /\ at \in [Sess -> 0 .. NServers]
      /\ child \in [Sess -> [Server -> {"none", "running", "exited", "killed"}]]
      /\ \A s \in Server : s \in 0 .. NServers - 1
  BY SessionFacts DEF main
<1>2. CASE UNCHANGED <<stage, at, child>>
  BY <1>1, <1>2 DEF LaunchedInTurn
<1>3. CASE Launch(main)
  <2>1. stage[main] = "new" /\ stage'[main] = "launching" /\ UNCHANGED <<at, child>>
    BY <1>1, <1>3 DEF Launch
  <2> QED
    BY <1>1, <2>1 DEF LaunchedInTurn
<1>4. CASE SpawnChild(main)
  <2>1. stage[main] = "launching" /\ stage' = stage /\ at[main] \in Server /\ at'[main] = at[main] + 1
    BY <1>1, <1>4 DEF SpawnChild, Server
  <2>2. \A s \in Server : child'[main][s] = IF s = at[main] THEN "running" ELSE child[main][s]
    BY <1>1, <1>4, <2>1 DEF SpawnChild
  <2>3. \A s \in Server : child[main][s] = "none" <=> s >= at[main]
    BY <2>1 DEF LaunchedInTurn
  <2>4. \A s \in Server : child'[main][s] = "none" <=> s >= at[main] + 1
    BY <1>1, <2>1, <2>2, <2>3
  <2> QED
    BY <1>1, <2>1, <2>4 DEF LaunchedInTurn
<1>5. CASE SpawnFails(main) \/ Launched(main)
  <2>1. stage[main] = "launching" /\ stage'[main] \in {"failed", "live"} /\ UNCHANGED <<at, child>>
        /\ (stage'[main] = "live" => at[main] = NServers)
    BY <1>1, <1>5 DEF SpawnFails, Launched
  <2>2. stage'[main] = "live" => \A s \in Server : child[main][s] # "none"
    BY <1>1, <2>1 DEF LaunchedInTurn
  <2> QED
    BY <1>1, <2>1, <2>2 DEF LaunchedInTurn
<1>6. CASE AbortPumps(main) \/ ShutDown(main)
  <2>1. stage[main] \in {"live", "killing"} /\ stage'[main] \in {"killing", "down"} /\ child' = child
    BY <1>1, <1>6 DEF AbortPumps, ShutDown
  <2> QED
    BY <1>1, <2>1 DEF LaunchedInTurn
<1>7. ASSUME UNCHANGED stage, NEW r \in Server, NEW c \in {"exited", "killed"},
             child[main][r] = "running", child' = [child EXCEPT ![main][r] = c],
             stage[main] = "killing" \/ at' = at
      PROVE  LaunchedInTurn'
  <2>1. \A s \in Server : child'[main][s] = IF s = r THEN c ELSE child[main][s]
    BY <1>1, <1>7
  <2>2. \A s \in Server : child'[main][s] = "none" <=> child[main][s] = "none"
    BY <1>7, <2>1
  <2> QED
    BY <1>1, <1>7, <2>2 DEF LaunchedInTurn
<1>8. CASE KillChild(main)
  <2>1. stage[main] = "killing" /\ stage' = stage /\ at[main] \in Server
    BY <1>1, <1>8 DEF KillChild, Server
  <2>2. CASE child[main][at[main]] = "running"
    <3>1. child' = [child EXCEPT ![main][at[main]] = "killed"]
      BY <1>1, <1>8, <2>1, <2>2 DEF KillChild
    <3> QED
      BY <1>7, <2>1, <2>2, <3>1
  <2>3. CASE child[main][at[main]] # "running"
    <3>1. child' = child
      BY <1>1, <1>8, <2>1, <2>3 DEF KillChild
    <3> QED
      BY <1>1, <2>1, <3>1 DEF LaunchedInTurn
  <2> QED
    BY <2>2, <2>3
<1>9. ASSUME NEW r \in Server, ChildExits(main, r) PROVE LaunchedInTurn'
  BY <1>7, <1>9 DEF ChildExits
<1>10. ASSUME NEW r \in Server, Ends(r) PROVE LaunchedInTurn'
  BY <1>2, <1>10, PumpGoes
<1>11. UNCHANGED sessionVars => UNCHANGED <<stage, at, child>>
  BY DEF sessionVars
<1> QED
  BY <1>2, <1>3, <1>4, <1>5, <1>6, <1>8, <1>9, <1>10, <1>11, StageSteps DEF Launching

(* No line comes in before the session is live.                            *)
LEMMA QuietKept ==
  ASSUME StdioInvariant, QuietUntilLive, [Next]_allVars
  PROVE  QuietUntilLive'
<1> DEFINE Early == stage[main] \in {"new", "launching", "failed"}
<1>1. main \in Sess /\ main' = main
      /\ stage \in [Sess -> {"new", "launching", "failed", "live", "killing", "down"}]
      /\ queue \in [Server -> Seq(Nat)] /\ stdin \in [Server -> Seq(Nat)]
  BY SessionFacts, IoFacts DEF main
<1>2. Early' => Early
  <2>1. UNCHANGED stage => (Early' => Early)
    BY <1>1
  <2>2. Launch(main) \/ Launching(main) \/ AbortPumps(main) \/ KillChild(main) \/ ShutDown(main)
          => (Early' => Early)
    BY <1>1 DEF Launch, Launching, SpawnChild, SpawnFails, Launched, AbortPumps, KillChild, ShutDown
  <2> QED
    BY <2>1, <2>2, StageSteps, PumpGoes DEF sessionVars, ChildExits
<1>3. SUFFICES ASSUME Early PROVE QuietUntilLive'
  BY <1>2 DEF QuietUntilLive
<1>4. /\ hand = {} /\ toClient = <<>> /\ hold = <<>> /\ out = <<>>
      /\ \A s \in Server : queue[s] = <<>> /\ stdin[s] = <<>> /\ stdout[s] = <<>> /\ todo[s] = 0
  BY <1>3 DEF QuietUntilLive
<1>5. CASE UNCHANGED <<hand, queue, stdin, stdout, todo, toClient, hold, out>>
  BY <1>4, <1>5 DEF QuietUntilLive
<1>6. CASE Parse \/ Listen \/ BeginLaunch \/ Spawn \/ EndSession
  BY <1>5, <1>6 DEF Parse, Listen, BeginLaunch, Spawn, EndSession, ioVars, upstreamVars, gateVars
<1>7. CASE ExitFailed \/ GoDeaf \/ DrainEnds \/ Exit
  BY <1>5, <1>7 DEF ExitFailed, GoDeaf, DrainEnds, Exit, upstreamVars, gateVars
<1>8. ~(Write \/ CloseInput \/ Read \/ TakeLine \/ InputEnds \/ SendOut \/ Flush)
  BY <1>3, <1>4 DEF Write, CloseInput, Read, TakeLine, InputEnds, SendOut, Flush, IsUp
<1>9. ASSUME NEW s \in Server, Gate(s) \/ Upstream(s) \/ Hang(s) \/ Exits(s) PROVE QuietUntilLive'
  <2>1. ~(Hand(s) \/ Pump(s) \/ TakeAnswer(s) \/ Upstream(s))
    BY <1>4 DEF Hand, Pump, TakeAnswer, Upstream, UpstreamReads, UpstreamWrites,
                UpstreamWriteFails
  <2>2. CASE Ends(s)
    <3>1. queue' = queue /\ stdin' = stdin
      BY <1>1, <1>4, <2>2, PumpGoes
    <3> QED
      BY <1>5, <2>2, <3>1, PumpGoes
  <2>3. CASE Hang(s)
    BY <1>5, <2>3 DEF Hang, gateVars
  <2>4. CASE Exits(s)
    BY <1>5, <2>4 DEF Exits, ioVars, upstreamVars, gateVars
  <2> QED
    BY <1>9, <2>1, <2>2, <2>3, <2>4 DEF Gate
<1>10. CASE UNCHANGED allVars
  BY <1>5, <1>10 DEF allVars, ioVars, upstreamVars, gateVars
<1> QED
  BY <1>6, <1>7, <1>8, <1>9, <1>10 DEF Next

-----------------------------------------------------------------------------
(* Steps behind what Relay speaks of.                                      *)
LEMMA RelaySame ==
  ASSUME UNCHANGED <<child, script, taken, heard, made, got>>, written'.n = written.n,
         Phase' = Phase
  PROVE  UNCHANGED R!vars
<1>1. main' = main /\ \A s \in Server : UpOf(s)' = UpOf(s)
  BY DEF UpOf, main
<1> QED
  BY <1>1 DEF R!vars

(* The stage and main decide the phase.                                    *)
LEMMA PhaseSame ==
  ASSUME UNCHANGED <<stage, drain>>
  PROVE  Phase' = Phase
BY DEF Phase, main

(* One upstream changes.                                                   *)
LEMMA UpChanges ==
  ASSUME NEW s \in Server, NEW c, child \in [Sess -> [Server -> {"none", "running", "exited", "killed"}]],
         main \in Sess, child' = [child EXCEPT ![main][s] = c]
  PROVE  /\ \A t \in Server : t # s => UpOf(t)' = UpOf(t)
         /\ c = "running" => UpOf(s)' = "up"
         /\ c \in {"exited", "killed"} => UpOf(s)' = "down"
<1>1. main' = main /\ \A t \in Server : child'[main][t] = IF t = s THEN c ELSE child[main][t]
  BY DEF main
<1> QED
  BY <1>1 DEF UpOf

(* A child is started, or ends.                                            *)
LEMMA ChildMaps ==
  ASSUME StdioInvariant, UNCHANGED ioVars, NEW s \in Server, NEW c,
         child' = [child EXCEPT ![main][s] = c], UNCHANGED stage
  PROVE  /\ c = "running" /\ child[main][s] = "none" /\ stage[main] = "launching" => R!Start(s)
         /\ c \in {"exited", "killed"} /\ child[main][s] = "running" => R!Die(s)
<1>1. /\ child \in [Sess -> [Server -> {"none", "running", "exited", "killed"}]] /\ main \in Sess
      /\ UNCHANGED <<script, written, taken, heard, made, got, drain>>
  BY SessionFacts DEF ioVars, clientVars, upstreamVars, gateVars
<1>2. Phase' = Phase
  BY <1>1, PhaseSame
<1>3. /\ \A t \in Server : t # s => UpOf(t)' = UpOf(t)
      /\ c = "running" => UpOf(s)' = "up"
      /\ c \in {"exited", "killed"} => UpOf(s)' = "down"
  BY <1>1, UpChanges
<1>4. ASSUME c = "running", child[main][s] = "none", stage[main] = "launching" PROVE R!Start(s)
  <2>1. Phase = "new" /\ UpOf(s) = "no"
    BY <1>4 DEF Phase, UpOf
  <2> QED
    BY <1>1, <1>2, <1>3, <1>4, <2>1 DEF R!Start
<1>5. ASSUME c \in {"exited", "killed"}, child[main][s] = "running" PROVE R!Die(s)
  <2>1. UpOf(s) = "up"
    BY <1>5 DEF UpOf
  <2> QED
    BY <1>1, <1>2, <1>3, <1>5, <2>1 DEF R!Die
<1> QED
  BY <1>4, <1>5

(* The session's own steps.                                                *)
LEMMA SessionMaps ==
  ASSUME StdioInvariant, LaunchedInTurn, UNCHANGED ioVars,
         \/ Launch(main) \/ Launching(main)
         \/ AbortPumps(main) \/ KillChild(main) \/ ShutDown(main)
         \/ \E s \in Server : ChildExits(main, s)
  PROVE  R!Next \/ UNCHANGED R!vars
<1>1. /\ main \in Sess /\ main' = main /\ NServers \in Nat \ {0}
      /\ stage \in [Sess -> {"new", "launching", "failed", "live", "killing", "down"}]
      /\ at \in [Sess -> 0 .. NServers]
      /\ child \in [Sess -> [Server -> {"none", "running", "exited", "killed"}]]
      /\ MainIsInOrder
      /\ UNCHANGED <<script, written, taken, heard, made, got, drain>>
  BY SessionFacts DEF ioVars, clientVars, upstreamVars, gateVars, main
<1>2. CASE Launch(main)
  <2>1. child' = child /\ Phase' = Phase
    BY <1>1, <1>2 DEF Launch, Phase
  <2> QED
    BY <1>1, <2>1, RelaySame
<1>3. CASE SpawnChild(main)
  <2>1. stage[main] = "launching" /\ stage' = stage /\ at[main] \in Server
        /\ child' = [child EXCEPT ![main][at[main]] = "running"]
    BY <1>1, <1>3 DEF SpawnChild, Server
  <2>2. child[main][at[main]] = "none"
    BY <1>1, <2>1 DEF LaunchedInTurn
  <2>3. R!Start(at[main])
    BY <2>1, <2>2, ChildMaps
  <2> QED
    BY <2>1, <2>3 DEF R!Next
<1>4. CASE SpawnFails(main)
  <2>1. child' = child /\ Phase = "new" /\ Phase' = "failed"
    BY <1>1, <1>4 DEF SpawnFails, Phase
  <2>2. \A s \in Server : UpOf(s)' = UpOf(s)
    BY <1>1, <2>1 DEF UpOf
  <2>3. R!Fail
    BY <1>1, <2>1, <2>2 DEF R!Fail
  <2> QED
    BY <2>3 DEF R!Next
<1>5. CASE Launched(main)
  <2>1. stage[main] = "launching" /\ stage'[main] = "live" /\ child' = child /\ at[main] = NServers
    BY <1>1, <1>5 DEF Launched
  <2>2. drain = "no"
    BY <1>1, <2>1 DEF MainIsInOrder
  <2>3. Phase = "new" /\ Phase' = "serving"
    BY <1>1, <2>1, <2>2 DEF Phase
  <2>4. \A s \in Server : UpOf(s)' = UpOf(s) /\ UpOf(s) # "no"
    <3>1. \A s \in Server : ~(s >= at[main])
      BY <2>1, SessionFacts
    <3>2. \A s \in Server : child[main][s] # "none"
      BY <2>1, <3>1 DEF LaunchedInTurn
    <3> QED
      BY <1>1, <2>1, <3>2 DEF UpOf
  <2>5. R!Serve
    BY <1>1, <2>1, <2>3, <2>4 DEF R!Serve
  <2> QED
    BY <2>5 DEF R!Next
<1>6. CASE AbortPumps(main) \/ ShutDown(main)
  <2>1. child' = child /\ stage[main] \in {"live", "killing"} /\ stage'[main] \in {"killing", "down"}
    BY <1>1, <1>6 DEF AbortPumps, ShutDown
  <2>2. Phase' = Phase
    BY <1>1, <2>1 DEF Phase
  <2> QED
    BY <1>1, <2>1, <2>2, RelaySame
<1>7. CASE KillChild(main)
  <2>1. stage' = stage /\ at[main] \in Server
    BY <1>1, <1>7 DEF KillChild, Server
  <2>2. CASE child[main][at[main]] = "running"
    <3>1. child' = [child EXCEPT ![main][at[main]] = "killed"]
      BY <1>1, <1>7, <2>1, <2>2 DEF KillChild
    <3>2. R!Die(at[main])
      BY <2>1, <2>2, <3>1, ChildMaps
    <3> QED
      BY <2>1, <3>2 DEF R!Next
  <2>3. CASE child[main][at[main]] # "running"
    <3>1. child' = child
      BY <1>1, <1>7, <2>1, <2>3 DEF KillChild
    <3> QED
      BY <1>1, <2>1, <3>1, PhaseSame, RelaySame
  <2> QED
    BY <2>2, <2>3
<1>8. ASSUME NEW s \in Server, ChildExits(main, s) PROVE R!Next
  <2>1. R!Die(s)
    BY <1>8, ChildMaps DEF ChildExits
  <2> QED
    BY <2>1 DEF R!Next
<1> QED
  BY <1>2, <1>3, <1>4, <1>5, <1>6, <1>7, <1>8 DEF Launching

(* What an upstream hears is the next line that is for it.                 *)
LEMMA HearMaps ==
  ASSUME StdioInvariant, NEW s \in Server, UpstreamReads(s)
  PROVE  R!Hear(s)
<1> DEFINE k == Head(stdin[s])
           q == Append(heard[s], k)
<1>1. /\ IoTypeOK /\ LinesAreTaken /\ FlowsAreInOrder /\ main' = main
      /\ stdin[s] # <<>> /\ child[main][s] = "running"
      /\ heard' = [heard EXCEPT ![s] = Append(@, Head(stdin[s]))]
      /\ UNCHANGED <<stage, child, script, written, taken, made, got, drain>>
  BY SessionFacts DEF UpstreamReads, Lives, sessionVars, clientVars, gateVars, main
<1>2. /\ heard \in [Server -> Seq(Nat)] /\ heard[s] \in Seq(Nat) /\ stdin[s] \in Seq(Nat)
      /\ queue[s] \in Seq(Nat) /\ taken \in Nat
  BY <1>1, FlowFacts, IoFacts
<1>3. k \in Nat /\ Tail(stdin[s]) \in Seq(Nat) /\ q \in Seq(Nat)
  BY <1>1, <1>2, Moved
<1>4. Begins(q, Handed(s))
  <2> DEFINE t == Tail(stdin[s])
             r == t \o queue[s]
  <2>1. r \in Seq(Nat) /\ q \o r = Flow(s)
    <3>1. heard[s] \o stdin[s] \o queue[s] = Flow(s)
      BY DEF Flow
    <3>2. stdin[s] # <<>> => q \o t \o queue[s] = heard[s] \o stdin[s] \o queue[s]
      <4> DEFINE h == heard[s]
                 i == stdin[s]
                 w == queue[s]
      <4>1. h \in Seq(Nat) /\ i \in Seq(Nat) /\ w \in Seq(Nat)
        BY <1>2
      <4> HIDE DEF h, i, w
      <4>2. i # <<>> => Append(h, Head(i)) \o Tail(i) \o w = h \o i \o w
        BY <4>1, FlowMoves
      <4> QED
        BY <4>2, Zenon DEF h, i, w
    <3>3. t \in Seq(Nat) /\ queue[s] \in Seq(Nat) /\ q \in Seq(Nat)
      BY <1>2, <1>3
    <3> HIDE DEF q, t
    <3>4. q \o t \o queue[s] = q \o (t \o queue[s])
      BY <3>3, RegroupedNumbers
    <3>5. t \o queue[s] \in Seq(Nat)
      BY <3>3
    <3> QED
      BY <1>1, <3>1, <3>2, <3>4, <3>5, Zenon
  <2>2. Begins(Flow(s), Handed(s))
    BY <1>1 DEF FlowsAreInOrder, FlowIsInOrder
  <2> HIDE DEF q, r
  <2>3. Begins(q \o r, Handed(s))
    BY <2>1, <2>2, Zenon
  <2> QED
    BY <1>3, <2>1, <2>3, BeginningBegins
<1>5. /\ Len(q) = Len(heard[s]) + 1 /\ Len(heard[s]) \in Nat /\ q[Len(heard[s]) + 1] = k
      /\ \A i \in 1 .. Len(heard[s]) : q[i] = heard[s][i]
      /\ DOMAIN q = 1 .. Len(heard[s]) + 1 /\ DOMAIN heard[s] = 1 .. Len(heard[s])
      /\ \A i \in 1 .. Len(heard[s]) : heard[s][i] \in Nat
  BY <1>2, <1>3, Appended
<1>6. ToSet(q) = ToSet(heard[s]) \cup {k}
  BY <1>2, <1>3, MembersOfMore
<1> HIDE DEF q, k
<1>7. \A h \in ToSet(heard[s]) : h \in Nat /\ h < k
  <2>1. \A i \in 1 .. Len(heard[s]) : heard[s][i] < k
    BY <1>4, <1>5 DEF Begins, Increasing
  <2> QED
    BY <1>5, <2>1 DEF ToSet
<1>8. Handed(s) \subseteq 1 .. taken /\ k \in Handed(s) /\ s \in To[script[k]]
      /\ \A j \in Handed(s) : s \in To[script[j]]
  BY <1>1, <1>4, <1>6, HandedFacts DEF Begins
<1>9. {heard[s][i] : i \in DOMAIN heard[s]} = {j \in 1 .. k - 1 : s \in To[script[j]]}
  <2>1. ToSet(heard[s]) = {heard[s][i] : i \in DOMAIN heard[s]}
    BY DEF ToSet
  <2>2. ASSUME NEW j \in ToSet(heard[s]) PROVE j \in 1 .. k - 1 /\ s \in To[script[j]]
    <3>1. j \in Handed(s)
      BY <1>4, <1>6, <2>2 DEF Begins
    <3> QED
      BY <1>2, <1>3, <1>7, <1>8, <2>2, <3>1
  <2>3. ASSUME NEW j \in 1 .. k - 1, s \in To[script[j]] PROVE j \in ToSet(heard[s])
    <3>1. j \in 1 .. taken /\ j # taken /\ j <= k /\ j # k
      BY <1>2, <1>3, <1>8, <2>3
    <3>2. j \in Handed(s)
      BY <2>3, <3>1 DEF Handed
    <3>3. j \in ToSet(q)
      BY <1>4, <1>6, <3>1, <3>2 DEF Begins
    <3> QED
      BY <1>6, <3>1, <3>3
  <2> QED
    BY <2>1, <2>2, <2>3
<1>10. Phase' = Phase /\ UpOf(s) = "up" /\ \A t \in Server : UpOf(t)' = UpOf(t)
  BY <1>1, PhaseSame DEF UpOf
<1>11. k \in 1 .. taken /\ heard' = [heard EXCEPT ![s] = Append(@, k)]
  BY <1>1, <1>8 DEF k
<1> QED
  BY <1>1, <1>8, <1>9, <1>10, <1>11 DEF R!Hear, R!FollowsAll

(* What the client reads is what its upstream wrote after what was read.   *)
LEMMA TellMaps ==
  ASSUME StdioInvariant, QuietUntilLive, Read
  PROVE  R!Cut \/ \E s \in Server : R!Tell(s)
<1> DEFINE f == Head(out)
           q == Append(got, f)
           r == Tail(out)
<1>1. /\ IoTypeOK /\ main' = main /\ out # <<>> /\ got' = Append(got, f)
      /\ UNCHANGED <<stage, child, script, written, taken, heard, made, drain>>
  BY SessionFacts DEF Read, sessionVars, upstreamVars, main
<1>2. /\ got \in Seq(Frame) /\ out \in Seq(Frame) /\ made \in [Server -> Nat]
  BY <1>1, ClientFacts, IoFacts
<1>3. /\ f \in Frame /\ q \in Seq(Frame) /\ r \in Seq(Frame) /\ q \o r = got \o out
  BY <1>1, <1>2, ClientFacts, FrameMoves
<1>4. /\ Len(q) = Len(got) + 1 /\ Len(got) \in Nat /\ q[Len(got) + 1] = f
      /\ \A i \in 1 .. Len(got) : q[i] = got[i]
      /\ DOMAIN q = 1 .. Len(got) + 1 /\ DOMAIN got = 1 .. Len(got)
  BY <1>2, <1>3, Appended
<1>5. SubSeq(q, 1, Len(got)) = got
  BY <1>2, <1>3, BeforeLast
<1>6. /\ \A s : Numbers(s, q) = Numbers(s, got) \cup (IF f # Torn /\ f.from = s THEN {f.n} ELSE {})
  BY <1>2, <1>3, NumbersOfMore
<1> HIDE DEF q, f, r
<1>7. ClientHearsInOrder
  BY InvariantGivesClientHears
<1>8. InTurn(q) /\ \A s \in Server : Numbers(s, q) \subseteq 1 .. made[s]
  <2>1. InTurn(q \o r) /\ \A s \in Server : Numbers(s, q \o r) \subseteq 1 .. made[s]
    BY <1>3, <1>7, Zenon DEF ClientHearsInOrder
  <2> QED
    BY <1>3, <2>1, BeginningInTurn
<1>9. \A i \in DOMAIN (q \o r) : (q \o r)[i] = Torn => i = Len(q \o r) /\ drain \in {"over", "exited"}
  BY <1>3, <1>7, Zenon DEF ClientHearsInOrder
<1>10. /\ Len(q \o r) >= Len(q) /\ DOMAIN (q \o r) = 1 .. Len(q \o r) /\ Len(q \o r) \in Nat
       /\ \A i \in 1 .. Len(q) : (q \o r)[i] = q[i]
  BY <1>3, Joined
<1>11. \A i \in DOMAIN got : got[i] # Torn
  BY <1>4, <1>9, <1>10
<1>12. f = Torn => drain \in {"over", "exited"}
  BY <1>4, <1>9, <1>10
<1>13. /\ Phase' = Phase /\ \A t \in Server : UpOf(t)' = UpOf(t)
       /\ Phase \notin {"new", "failed"} /\ (f = Torn => Phase \in {"closing", "ended"})
  <2>1. stage[main] \notin {"new", "launching", "failed"}
    BY <1>1 DEF QuietUntilLive
  <2>2. Phase \notin {"new", "failed"} /\ (f = Torn => Phase \in {"closing", "ended"})
    BY <1>12, <2>1 DEF Phase
  <2> QED
    BY <1>1, <2>2, PhaseSame DEF UpOf
<1>14. CASE f = Torn
  BY <1>1, <1>11, <1>13, <1>14 DEF R!Cut, R!IsWhole
<1>15. CASE f # Torn
  <2>1. f \in [from : Server, n : Nat \ {0}]
    BY <1>3, <1>15 DEF Frame
  <2>2. f.from \in Server /\ f.n \in Nat \ {0} /\ f = [from |-> f.from, n |-> f.n]
    BY <2>1
  <2>3. Numbers(f.from, got) = 1 .. f.n - 1
    <3>1. Len(got) + 1 \in DOMAIN q /\ q[Len(got) + 1] = f /\ Len(got) + 1 - 1 = Len(got)
      BY <1>4
    <3>2. \A i \in DOMAIN q : q[i] # Torn => Numbers(q[i].from, SubSeq(q, 1, i - 1)) = 1 .. q[i].n - 1
      BY <1>8 DEF InTurn
    <3>3. Numbers(f.from, SubSeq(q, 1, Len(got))) = 1 .. f.n - 1
      BY <1>15, <3>1, <3>2
    <3> QED
      BY <1>5, <3>3
  <2>4. f.n \in 1 .. made[f.from]
    BY <1>6, <1>8, <1>15, <2>2
  <2>5. R!ToldOf(f.from) = Numbers(f.from, got)
    BY DEF R!ToldOf, Numbers
  <2>6. R!Tell(f.from)
    BY <1>1, <1>11, <1>13, <2>2, <2>3, <2>4, <2>5 DEF R!Tell, R!IsWhole
  <2> QED
    BY <2>2, <2>6
<1> QED
  BY <1>14, <1>15

(* main: it reads the client's lines, closes and exits.                    *)
LEMMA MainMaps ==
  ASSUME StdioInvariant, LaunchedInTurn,
         Write \/ TakeLine \/ InputEnds \/ DrainEnds \/ Exit \/ ExitFailed
  PROVE  R!Next \/ UNCHANGED R!vars
<1>1. /\ main \in Sess /\ main' = main /\ IoTypeOK /\ MainIsInOrder /\ LinesAreTaken
      /\ child \in [Sess -> [Server -> {"none", "running", "exited", "killed"}]]
      /\ taken \in Nat /\ written \in [n : Nat, open : BOOLEAN] /\ taken <= written.n
  BY SessionFacts, IoFacts DEF main, LinesAreTaken
<1>2. UNCHANGED <<stage, child, script, heard, made, got>>
  BY DEF Write, TakeLine, InputEnds, DrainEnds, Exit, ExitFailed, sessionVars, upstreamVars, clientVars
<1>3. \A s \in Server : UpOf(s)' = UpOf(s)
  BY <1>1, <1>2 DEF UpOf
<1>4. CASE Write
  <2>1. stage[main] = "live" /\ written.n < Len(script) /\ written'.n = written.n + 1
        /\ UNCHANGED <<taken, drain>>
    BY <1>1, <1>4 DEF Write, gateVars
  <2>2. Phase' = Phase /\ Phase \in {"serving", "closing"}
    BY <1>1, <1>2, <2>1, PhaseSame DEF Phase, MainIsInOrder
  <2>3. R!Offer
    BY <1>2, <1>3, <2>1, <2>2 DEF R!Offer
  <2> QED
    BY <2>3 DEF R!Next
<1>5. CASE TakeLine
  <2>1. stage[main] = "live" /\ drain = "no" /\ taken < written.n /\ script[taken + 1] \notin Overlong
        /\ taken' = taken + 1 /\ UNCHANGED <<written, drain>>
    BY <1>5 DEF TakeLine, IsUp, IsBad, clientVars
  <2>2. Phase' = Phase /\ Phase = "serving"
    BY <1>1, <1>2, <2>1, PhaseSame DEF Phase
  <2>3. R!Take
    BY <1>2, <1>3, <2>1, <2>2 DEF R!Take
  <2> QED
    BY <2>3 DEF R!Next
<1>6. CASE InputEnds
  <2>1. stage[main] = "live" /\ drain = "no" /\ drain' = "draining" /\ UNCHANGED <<written, taken>>
        /\ (taken < written.n => script[taken + 1] \in Overlong)
    BY <1>6 DEF InputEnds, IsUp, IsBad, clientVars
  <2>2. Phase = "serving" /\ Phase' = "closing"
    BY <1>1, <1>2, <2>1 DEF Phase
  <2>3. R!Close
    BY <1>2, <1>3, <2>1, <2>2 DEF R!Close
  <2> QED
    BY <2>3 DEF R!Next
<1>7. CASE DrainEnds
  <2>1. drain = "draining" /\ drain' = "over" /\ UNCHANGED <<written, taken>>
    BY <1>7 DEF DrainEnds, clientVars
  <2>2. Phase' = Phase
    BY <1>1, <1>2, <2>1 DEF Phase
  <2> QED
    BY <1>2, <2>1, <2>2, RelaySame
<1>8. CASE Exit
  <2>1. stage[main] = "down" /\ drain = "over" /\ drain' = "exited" /\ UNCHANGED <<written, taken>>
    BY <1>8 DEF Exit, clientVars
  <2>2. Phase = "closing" /\ Phase' = "ended"
    BY <1>1, <1>2, <2>1 DEF Phase
  <2>3. \A s \in Server : UpOf(s) = "down"
    BY <1>1, <2>1 DEF UpOf, MainIsInOrder, LaunchedInTurn
  <2>4. R!End
    BY <1>2, <1>3, <2>1, <2>2, <2>3 DEF R!End
  <2> QED
    BY <2>4 DEF R!Next
<1>9. CASE ExitFailed
  <2>1. stage[main] = "failed" /\ UNCHANGED <<written, taken>>
    BY <1>9 DEF ExitFailed, clientVars
  <2>2. Phase' = Phase
    BY <1>1, <1>2, <2>1 DEF Phase
  <2> QED
    BY <1>2, <2>1, <2>2, RelaySame
<1> QED
  BY <1>4, <1>5, <1>6, <1>7, <1>8, <1>9

(* Steps on the way: of the pumps, of the stdout thread, of the client.    *)
LEMMA WayMaps ==
  ASSUME StdioInvariant, NEW s \in Server,
         \/ Parse \/ Listen \/ CloseInput \/ GoDeaf \/ SendOut \/ Flush
         \/ Hand(s) \/ Pump(s) \/ TakeAnswer(s) \/ Ends(s) \/ Hang(s)
         \/ UpstreamWriteFails(s) \/ UNCHANGED allVars
  PROVE  UNCHANGED R!vars
<1>1. written \in [n : Nat, open : BOOLEAN]
  BY SessionFacts, IoFacts
<1>2. CASE Parse \/ Listen \/ UNCHANGED allVars
  BY <1>2, PhaseSame, RelaySame
     DEF Parse, Listen, allVars, ioVars, sessionVars, clientVars, upstreamVars, gateVars
<1>3. CASE CloseInput
  <2>1. written'.n = written.n
    BY <1>1, <1>3 DEF CloseInput
  <2> QED
    BY <1>3, <2>1, PhaseSame, RelaySame DEF CloseInput, sessionVars, upstreamVars, gateVars
<1>4. CASE GoDeaf
  BY <1>4, PhaseSame, RelaySame DEF GoDeaf, sessionVars, upstreamVars, gateVars
<1>5. CASE SendOut \/ Flush \/ Hand(s)
  BY <1>5, PhaseSame, RelaySame DEF SendOut, Flush, Hand, sessionVars, clientVars, upstreamVars
<1>6. CASE Pump(s) \/ TakeAnswer(s)
  BY <1>6, PhaseSame, RelaySame DEF Pump, TakeAnswer, sessionVars, clientVars
<1>7. CASE Ends(s)
  BY <1>7, PhaseSame, RelaySame, PumpGoes
<1>8. CASE Hang(s) \/ UpstreamWriteFails(s)
  BY <1>8, PhaseSame, RelaySame DEF Hang, UpstreamWriteFails, sessionVars, clientVars, gateVars
<1> QED
  BY <1>2, <1>3, <1>4, <1>5, <1>6, <1>7, <1>8

(* An upstream writes a line.                                              *)
LEMMA SayMaps ==
  ASSUME StdioInvariant, NEW s \in Server, UpstreamWrites(s)
  PROVE  R!Say(s)
<1>1. /\ main' = main /\ child[main][s] = "running" /\ made' = [made EXCEPT ![s] = @ + 1]
      /\ UNCHANGED <<stage, child, script, written, taken, heard, got, drain>>
  BY DEF UpstreamWrites, Lives, sessionVars, clientVars, gateVars, main
<1>2. Phase' = Phase /\ UpOf(s) = "up" /\ \A t \in Server : UpOf(t)' = UpOf(t)
  BY <1>1, PhaseSame DEF UpOf
<1> QED
  BY <1>1, <1>2 DEF R!Say

(* Every step is a step of Relay, or behind it.                            *)
LEMMA NextRelay ==
  ASSUME StdioInvariant, QuietUntilLive, LaunchedInTurn, [Next]_allVars
  PROVE  [R!Next]_(R!vars)
<1>1. CASE BeginLaunch \/ Spawn \/ EndSession
  <2>1. UNCHANGED ioVars
    BY <1>1 DEF BeginLaunch, Spawn, EndSession
  <2>2. Launch(main) \/ Launching(main) \/ AbortPumps(main) \/ KillChild(main) \/ ShutDown(main)
    BY <1>1 DEF BeginLaunch, Spawn, EndSession
  <2> QED
    BY <2>1, <2>2, SessionMaps
<1>2. CASE Write \/ TakeLine \/ InputEnds \/ DrainEnds \/ Exit \/ ExitFailed
  BY <1>2, MainMaps
<1>3. CASE Read
  BY <1>3, TellMaps DEF R!Next
<1>4. CASE Parse \/ Listen \/ CloseInput \/ GoDeaf \/ SendOut \/ Flush \/ UNCHANGED allVars
  BY <1>4, SomeServer, WayMaps
<1>5. ASSUME NEW s \in Server, Gate(s) \/ Upstream(s) \/ Hang(s) \/ Exits(s) PROVE [R!Next]_(R!vars)
  <2>1. CASE Gate(s) \/ Hang(s)
    BY <2>1, WayMaps DEF Gate
  <2>2. CASE Upstream(s)
    BY <2>2, HearMaps, SayMaps, WayMaps DEF Upstream, R!Next
  <2>3. CASE Exits(s)
    <3>1. ChildExits(main, s) /\ UNCHANGED ioVars
      BY <2>3 DEF Exits
    <3> QED
      BY <3>1, SessionMaps
  <2> QED
    BY <1>5, <2>1, <2>2, <2>3
<1> QED
  BY <1>1, <1>2, <1>3, <1>4, <1>5 DEF Next

(* At the start nothing has been started, said or heard.                   *)
LEMMA InitRelay == Init => R!Init /\ QuietUntilLive /\ LaunchedInTurn
<1> SUFFICES ASSUME Init PROVE R!Init /\ QuietUntilLive /\ LaunchedInTurn
  OBVIOUS
<1>1. /\ main \in Sess /\ stage[main] = "new" /\ at[main] = 0 /\ NServers \in Nat \ {0}
      /\ \A s \in Server : child[main][s] = "none" /\ s >= 0
  BY MainIs, SessionAssumption DEF Init, SessionInit, Server
<1>2. Phase = "new" /\ \A s \in Server : UpOf(s) = "no"
  BY <1>1 DEF Phase, UpOf
<1>3. R!Init
  BY <1>2 DEF Init, R!Init
<1>4. QuietUntilLive
  BY DEF Init, QuietUntilLive
<1>5. LaunchedInTurn
  BY <1>1 DEF LaunchedInTurn
<1> QED
  BY <1>3, <1>4, <1>5

(* Stdio keeps what Relay promises, for any number of upstreams and lines  *)
(* and pipes of any capacity: whoever is on either side cannot tell the    *)
(* tasks, channels and pipes from lines that pass in order (main.rs,       *)
(* proxy.rs, session.rs).                                                  *)
THEOREM StdioRefinement == Spec => ImplementsRelay
<1>1. Init => QuietUntilLive /\ LaunchedInTurn /\ R!Init
  BY InitRelay
<1>2. /\ StdioInvariant /\ QuietUntilLive /\ LaunchedInTurn /\ [Next]_allVars
      => QuietUntilLive' /\ LaunchedInTurn'
  BY QuietKept, LaunchedKept
<1>3. /\ StdioInvariant /\ QuietUntilLive /\ LaunchedInTurn /\ [Next]_allVars
      => [R!Next]_(R!vars)
  BY NextRelay
<1> QED
  BY <1>1, <1>2, <1>3, StdioInvariance, PTL DEF Spec, ImplementsRelay, R!Spec
=============================================================================
