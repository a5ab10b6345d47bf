---------------------------- MODULE StartupProofs ----------------------------
(***************************************************************************)
(* Proofs about Startup, for command lines of any length, any file and any *)
(* names.                                                                  *)
(***************************************************************************)
EXTENDS StartupInv, FiniteSetTheorems, TLAPS

(* A set of natural numbers has a least element: the sets of its elements  *)
(* up to each of them are finite, so one of these includes no other.       *)
LEMMA Least ==
  ASSUME NEW S, S \subseteq Nat, S # {}
  PROVE  \E m \in S : \A k \in S : m <= k
<1> DEFINE UpTo(k) == {s \in S : s <= k}
           T == {UpTo(k) : k \in S}
<1>1. \A k \in S : UpTo(k) \in FiniteSubsetsOf(Nat)
  <2> TAKE k \in S
  <2>1. UpTo(k) \in SUBSET Nat /\ k \in Nat /\ \A s \in UpTo(k) : s <= k
    OBVIOUS
  <2>2. IsFiniteSet(UpTo(k))
    BY <2>1, FS_BoundedSetOfNaturals
  <2> QED
    BY <2>1, <2>2 DEF FiniteSubsetsOf
<1>2. T \subseteq FiniteSubsetsOf(Nat) /\ T # {}
  BY <1>1
<1>3. PICK X \in T : \A Y \in T : ~(<<Y, X>> \in StrictSubsetOrdering(Nat))
  <2> HIDE DEF T
  <2> QED
    BY <1>2, FS_StrictSubsetOrderingWellFounded, WFMin
<1>4. PICK m \in S : X = UpTo(m)
  OBVIOUS
<1>5. ASSUME NEW k \in S, k < m PROVE FALSE
  <2>1. k \in Nat /\ m \in Nat
    OBVIOUS
  <2>2. UpTo(k) \subseteq UpTo(m)
    <3> SUFFICES ASSUME NEW s \in S, s <= k PROVE s <= m
      OBVIOUS
    <3> QED
      BY <1>5, <2>1
  <2>3. m \in UpTo(m) /\ m \notin UpTo(k)
    BY <1>5, <2>1
  <2>4. UpTo(k) \in SUBSET Nat /\ UpTo(m) \in SUBSET Nat
    OBVIOUS
  <2> HIDE DEF UpTo
  <2>5. UpTo(k) # UpTo(m)
    BY <2>3
  <2>6. <<UpTo(k), UpTo(m)>> \in StrictSubsetOrdering(Nat)
    BY <2>2, <2>4, <2>5 DEF StrictSubsetOrdering
  <2> QED
    BY <1>3, <1>4, <2>6
<1>6. \A k \in S : m <= k
  <2> TAKE k \in S
  <2>1. k \in Nat /\ m \in Nat
    OBVIOUS
  <2> QED
    BY <1>5, <2>1
<1> QED
  BY <1>6

(* A token is a value where the one before wants it and is none itself:    *)
(* the runs of tokens that want one are read in pairs.                     *)
LEMMA ValuesAlternate ==
  ASSUME NEW i \in Nat \ {0} PROVE IsValue(i + 1) <=> (WantsValue(i) /\ ~IsValue(i))
<1>1. ASSUME IsValue(i + 1) PROVE WantsValue(i) /\ ~IsValue(i)
  <2>1. PICK k \in 1 .. i :
          /\ k % 2 = 1 /\ \A j \in i + 1 - k .. i : WantsValue(j)
          /\ i + 1 - k = 1 \/ ~WantsValue(i - k)
    <3>1. i + 1 - 1 = i /\ \A k \in Int : i + 1 - k - 1 = i - k
      OBVIOUS
    <3> QED
      BY <1>1, <3>1 DEF IsValue
  <2>2. WantsValue(i)
    BY <2>1
  <2>3. ASSUME IsValue(i) PROVE FALSE
    <3>1. PICK h \in 1 .. i - 1 :
            /\ h % 2 = 1 /\ \A j \in i - h .. i - 1 : WantsValue(j)
            /\ i - h = 1 \/ ~WantsValue(i - h - 1)
      BY <2>3 DEF IsValue
    <3>2. CASE h = k - 1
      BY <2>1, <3>1, <3>2
    <3>3. CASE h > k - 1
      <4>1. i - k \in i - h .. i - 1 /\ i + 1 - k # 1
        BY <3>3
      <4> QED
        BY <2>1, <3>1, <4>1
    <3>4. CASE h < k - 1
      <4>1. i - h - 1 \in i + 1 - k .. i /\ i - h # 1
        BY <3>4
      <4> QED
        BY <2>1, <3>1, <4>1
    <3> QED
      BY <3>2, <3>3, <3>4
  <2> QED
    BY <2>2, <2>3
<1>2. ASSUME WantsValue(i), ~IsValue(i) PROVE IsValue(i + 1)
  <2> DEFINE S == {l \in 1 .. i : \A j \in l .. i : WantsValue(j)}
  <2>1. S \subseteq Nat /\ i \in S
    BY <1>2
  <2>2. PICK l \in S : \A k \in S : l <= k
    <3> HIDE DEF S
    <3> QED
      BY <2>1, Least
  <2>3. l \in 1 .. i /\ \A j \in l .. i : WantsValue(j)
    OBVIOUS
  <2>4. l = 1 \/ ~WantsValue(l - 1)
    <3> SUFFICES ASSUME l # 1, WantsValue(l - 1) PROVE FALSE
      OBVIOUS
    <3>1. l - 1 \in 1 .. i /\ \A j \in l - 1 .. i : WantsValue(j)
      BY <2>3
    <3>2. l - 1 \in S
      BY <3>1
    <3> QED
      BY <2>2, <2>3, <3>2
  <2> HIDE DEF S
  <2> DEFINE k == i + 1 - l
  <2>5. k \in 1 .. i /\ l = i + 1 - k
    BY <2>3
  <2>6. CASE k % 2 = 1
    <3>1. \A j \in i + 1 - k .. i + 1 - 1 : WantsValue(j)
      BY <2>3
    <3>2. i + 1 - k = 1 \/ ~WantsValue(i + 1 - k - 1)
      BY <2>3, <2>4
    <3>3. k \in 1 .. i + 1 - 1
      BY <2>5
    <3> QED
      BY <2>6, <3>1, <3>2, <3>3 DEF IsValue
  <2>7. CASE k % 2 # 1
    <3>1. k - 1 \in 1 .. i - 1 /\ (k - 1) % 2 = 1
      BY <2>5, <2>7
    <3>2. \A j \in i - (k - 1) .. i - 1 : WantsValue(j)
      BY <2>3
    <3>3. i - (k - 1) = 1 \/ ~WantsValue(i - (k - 1) - 1)
      BY <2>3, <2>4
    <3>4. IsValue(i)
      BY <3>1, <3>2, <3>3 DEF IsValue
    <3> QED
      BY <1>2, <3>4
  <2> QED
    BY <2>6, <2>7
<1> QED
  BY <1>1, <1>2

(* The first token is nobody's value.                                      *)
LEMMA FirstIsNoValue == ~IsValue(1)
  BY DEF IsValue

-----------------------------------------------------------------------------
(* The command line is a sequence of tokens, and the rest of it its end.   *)
LEMMA LineFacts ==
  ASSUME StartTypeOK, LineIsReadInOrder
  PROVE  /\ asked \in Seq(Token) /\ argv \in Seq(Token)
         /\ Place \in 1 .. Len(asked) + 1
         /\ argv = <<>> <=> Place = Len(asked) + 1
         /\ argv # <<>> => Place \in DOMAIN asked /\ argv[1] = asked[Place]
<1>1. asked \in Seq(Token) /\ argv \in Seq(Token)
  <2>1. asked \in CommandLines \cup {<<>>} /\ argv \in Seq(Token)
    BY DEF StartTypeOK
  <2>2. CommandLines \subseteq Seq(Token)
    BY StartupAssumption
  <2>3. <<>> \in Seq(Token)
    OBVIOUS
  <2> QED
    BY <2>1, <2>2, <2>3, Zenon
<1>2. Len(argv) <= Len(asked) /\ \A i \in DOMAIN argv : argv[i] = asked[Place - 1 + i]
  BY DEF LineIsReadInOrder
<1>3. Len(asked) \in Nat /\ Len(argv) \in Nat /\ DOMAIN argv = 1 .. Len(argv)
      /\ DOMAIN asked = 1 .. Len(asked) /\ (argv = <<>> <=> Len(argv) = 0)
  BY <1>1
<1>4. Place = Len(asked) - Len(argv) + 1 /\ Place - 1 + 1 = Place
  BY <1>3 DEF Place
<1>5. argv # <<>> => argv[1] = asked[Place]
  BY <1>2, <1>3, <1>4
<1> QED
  BY <1>1, <1>2, <1>3, <1>4, <1>5

(* One more token is read.                                                 *)
LEMMA ReadOne ==
  ASSUME StartTypeOK, LineIsReadInOrder, argv # <<>>, argv' = Tail(argv), UNCHANGED asked,
         start' = "parse"
  PROVE  LineIsReadInOrder' /\ Place' = Place + 1 /\ argv' \in Seq(Token)
<1>1. asked \in Seq(Token) /\ argv \in Seq(Token)
  BY LineFacts
<1>2. /\ Len(argv') = Len(argv) - 1 /\ Len(argv) \in Nat /\ Len(asked) \in Nat
      /\ argv' \in Seq(Token)
      /\ \A i \in DOMAIN argv' : argv'[i] = argv[i + 1] /\ i + 1 \in DOMAIN argv /\ i \in Nat
  BY <1>1
<1>3. Place' = Place + 1 /\ Place \in Int
  BY <1>2 DEF Place
<1>4. \A i \in DOMAIN argv' : argv'[i] = asked[Place' - 1 + i]
  <2> TAKE i \in DOMAIN argv'
  <2>1. argv'[i] = asked[Place - 1 + (i + 1)]
    BY <1>2 DEF LineIsReadInOrder
  <2>2. Place - 1 + (i + 1) = Place' - 1 + i
    BY <1>2, <1>3
  <2> QED
    BY <2>1, <2>2
<1>5. Len(argv') <= Len(asked)
  BY <1>2 DEF LineIsReadInOrder
<1> QED
  BY <1>2, <1>3, <1>4, <1>5 DEF LineIsReadInOrder

(* An option and its value, which is the next token, are read.             *)
LEMMA ReadTwo ==
  ASSUME StartTypeOK, LineIsReadInOrder, argv # <<>>, Len(argv) > 1,
         argv' = Tail(Tail(argv)), UNCHANGED asked, start' = "parse"
  PROVE  LineIsReadInOrder' /\ Place' = Place + 2 /\ argv' \in Seq(Token)
<1>1. asked \in Seq(Token) /\ argv \in Seq(Token)
  BY LineFacts
<1>2. /\ Len(argv') = Len(argv) - 2 /\ Len(argv) \in Nat /\ Len(asked) \in Nat
      /\ argv' \in Seq(Token)
      /\ \A i \in DOMAIN argv' : argv'[i] = argv[i + 2] /\ i + 2 \in DOMAIN argv /\ i \in Nat
  <2>1. /\ Tail(argv) \in Seq(Token) /\ Len(Tail(argv)) = Len(argv) - 1 /\ Len(argv) \in Nat
        /\ \A i \in 1 .. Len(argv) - 1 : Tail(argv)[i] = argv[i + 1]
    BY <1>1
  <2>2. Tail(argv) # <<>>
    <3>1. Len(Tail(argv)) # 0 /\ Len(<<>>) = 0
      BY <2>1
    <3> QED
      BY <3>1, Zenon
  <2>3. /\ argv' \in Seq(Token) /\ Len(argv') = Len(argv) - 2
        /\ \A i \in 1 .. Len(argv) - 2 : argv'[i] = Tail(argv)[i + 1]
    BY <2>1, <2>2
  <2>4. DOMAIN argv' = 1 .. Len(argv) - 2 /\ DOMAIN argv = 1 .. Len(argv)
    BY <1>1, <2>3
  <2>5. \A i \in 1 .. Len(argv) - 2 : i + 1 \in 1 .. Len(argv) - 1 /\ i + 1 + 1 = i + 2
    BY <2>1
  <2> QED
    BY <1>1, <2>1, <2>3, <2>4, <2>5
<1>3. Place' = Place + 2 /\ Place \in Int
  <2>1. /\ Len(argv') = Len(argv) - 2 /\ Len(argv) \in Nat /\ Len(asked) \in Nat
        /\ Place' = Len(asked) - Len(argv') + 1 /\ Place = Len(asked) - Len(argv) + 1
    BY <1>2, Zenon DEF Place
  <2> QED
    BY <2>1
<1>4. \A i \in DOMAIN argv' : argv'[i] = asked[Place' - 1 + i]
  <2> TAKE i \in DOMAIN argv'
  <2>1. argv'[i] = asked[Place - 1 + (i + 2)]
    BY <1>2 DEF LineIsReadInOrder
  <2>2. Place - 1 + (i + 2) = Place' - 1 + i
    BY <1>2, <1>3
  <2> QED
    BY <2>1, <2>2
<1>5. Len(argv') <= Len(asked)
  BY <1>2 DEF LineIsReadInOrder
<1> QED
  BY <1>2, <1>3, <1>4, <1>5 DEF LineIsReadInOrder

(* The next token is the mark, or no mark can be there.                    *)
LEMMA MarksPassed ==
  ASSUME StartTypeOK, LineIsReadInOrder, MarkIsAhead, argv # <<>>, UNCHANGED asked
  PROVE  /\ argv[1].opt = "--" => Place \in Marks
         /\ argv[1].opt # "--" => \A i \in Marks : Place + 1 <= i
         /\ WantsValue(Place) <=> (argv[1].opt \in Valued /\ argv[1].val = NotGiven)
         /\ IsValue(Place + 1) <=> WantsValue(Place)
         /\ IsValue(Place + 2) <=> (WantsValue(Place + 1) /\ ~IsValue(Place + 1))
<1>1. /\ asked \in Seq(Token) /\ Place \in 1 .. Len(asked) + 1
      /\ Place \in DOMAIN asked /\ argv[1] = asked[Place]
  BY LineFacts
<1>2. Place \in Nat \ {0} /\ Place + 1 \in Nat \ {0} /\ Place + 1 + 1 = Place + 2
  BY <1>1
<1>3. argv[1].opt = "--" => Place \in Marks
  BY <1>1 DEF MarkIsAhead, Marks
<1>4. ASSUME argv[1].opt # "--", NEW i \in Marks PROVE Place + 1 <= i
  <2>1. i # Place /\ Place <= i /\ i \in Nat
    BY <1>1, <1>4 DEF Marks, MarkIsAhead
  <2> QED
    BY <1>2, <2>1
<1>5. WantsValue(Place) <=> (argv[1].opt \in Valued /\ argv[1].val = NotGiven)
  BY <1>1 DEF WantsValue
<1>6. IsValue(Place + 1) <=> WantsValue(Place)
  BY <1>2, ValuesAlternate DEF MarkIsAhead
<1>7. IsValue(Place + 2) <=> (WantsValue(Place + 1) /\ ~IsValue(Place + 1))
  <2>1. IsValue(Place + 1 + 1) <=> (WantsValue(Place + 1) /\ ~IsValue(Place + 1))
    BY <1>2, ValuesAlternate
  <2> QED
    BY <1>2, <2>1
<1> QED
  BY <1>3, <1>4, <1>5, <1>6, <1>7

(* The marks are the command line's.                                       *)
LEMMA SameMarks ==
  ASSUME UNCHANGED asked
  PROVE  Marks' = Marks /\ \A i : (IsValue(i)' <=> IsValue(i)) /\ (WantsValue(i)' <=> WantsValue(i))
<1>1. \A i : (IsValue(i)' <=> IsValue(i)) /\ (WantsValue(i)' <=> WantsValue(i))
  BY DEF IsValue, WantsValue
<1> QED
  BY <1>1 DEF Marks

(* An option without a value, or with its value, is read.                  *)
LEMMA OptionRead ==
  ASSUME StartTypeOK, LineIsReadInOrder, MarkIsAhead, argv # <<>>, UNCHANGED <<asked, dashes>>,
         ~dashes, start' = "parse", cli'.command = cli.command,
         argv[1].opt \in Valued \cup {"--verbose"},
         \/ argv' = Tail(argv) /\ ~WantsValue(Place)
         \/ argv' = Tail(Tail(argv)) /\ Len(argv) > 1 /\ WantsValue(Place)
  PROVE  LineIsReadInOrder' /\ CommandIsInOrder' /\ argv' \in Seq(Token)
<1>1. /\ \A i \in Marks : Place + 1 <= i
      /\ IsValue(Place + 1) <=> WantsValue(Place)
      /\ IsValue(Place + 2) <=> (WantsValue(Place + 1) /\ ~IsValue(Place + 1))
  BY MarksPassed DEF Valued
<1>2. Marks' = Marks /\ \A i : IsValue(i)' <=> IsValue(i)
  BY SameMarks
<1>3. Place \in Nat
  BY LineFacts
<1>4. CASE argv' = Tail(argv) /\ ~WantsValue(Place)
  <2>1. LineIsReadInOrder' /\ Place' = Place + 1 /\ argv' \in Seq(Token)
    BY <1>4, ReadOne
  <2>2. ~IsValue(Place)'
    <3>1. \A i : i = Place' => ~IsValue(i)'
      BY <1>1, <1>2, <1>4, <2>1
    <3> QED
      BY <1>1, <1>2, <1>4, <2>1, <3>1 DEF IsValue, WantsValue
  <2>3. MarkIsAhead'
    BY <1>1, <1>2, <2>1, <2>2 DEF MarkIsAhead
  <2> QED
    BY <2>1, <2>3 DEF CommandIsInOrder
<1>5. CASE argv' = Tail(Tail(argv)) /\ Len(argv) > 1 /\ WantsValue(Place)
  <2>1. LineIsReadInOrder' /\ Place' = Place + 2 /\ argv' \in Seq(Token)
    BY <1>5, ReadTwo
  <2>2. \A i \in Marks : Place + 2 <= i
    <3> TAKE i \in Marks
    <3>1. i \in Nat /\ Place + 1 <= i /\ ~IsValue(i)
      BY <1>1, LineFacts DEF Marks
    <3>2. i # Place + 1
      BY <1>1, <1>5, <3>1
    <3> QED
      BY <1>3, <3>1, <3>2
  <2>3. ~IsValue(Place)'
    BY <1>1, <1>2, <1>5, <2>1 DEF IsValue, WantsValue
  <2>4. MarkIsAhead'
    BY <1>2, <2>1, <2>2, <2>3 DEF MarkIsAhead
  <2> QED
    BY <2>1, <2>4 DEF CommandIsInOrder
<1> QED
  BY <1>4, <1>5

-----------------------------------------------------------------------------
(* struct Cli.                                                             *)
CliType == [compression : Tiers \cup {NotGiven}, config : Text \cup {NotGiven},
            listen : Text \cup {NotGiven}, command : Seq(Token)]

(* The gateway starts with nothing of its command line read.               *)
LEMMA StartBegins ==
  ASSUME StartInit
  PROVE  StartInvariant
<1>1. asked \in Seq(Token) /\ argv = asked /\ start = "parse" /\ ~dashes /\ cli = NoCli
      /\ specs = <<>> /\ tier = "none" /\ file \in Disk /\ asked \in CommandLines
  BY StartupAssumption DEF StartInit
<1>2. StartTypeOK
  <2>1. <<>> \in Seq(Token) /\ <<>> \in Seq(Seq(Char))
    OBVIOUS
  <2>2. NoCli \in CliType
    <3>1. NotGiven \in Tiers \cup {NotGiven} /\ NotGiven \in Text \cup {NotGiven}
      OBVIOUS
    <3> QED
      BY <2>1, <3>1, Zenon DEF NoCli, CliType
  <2>3. "parse" \in {"parse", "resolve", "ready", "told", "failed", "launched", "listening"}
        /\ "none" \in Tiers /\ FALSE \in BOOLEAN
    BY DEF Tiers
  <2> QED
    BY <1>1, <2>1, <2>2, <2>3 DEF StartTypeOK, StartInit, CliType
<1>3. Len(asked) \in Nat /\ Place = 1 /\ DOMAIN asked = 1 .. Len(asked)
  BY <1>1 DEF Place
<1>4. LineIsReadInOrder
  <2>1. \A i \in DOMAIN argv : argv[i] = asked[Place - 1 + i]
    BY <1>1, <1>3
  <2> QED
    BY <1>1, <1>3, <2>1 DEF LineIsReadInOrder
<1>5. MarkIsAhead
  <2>1. cli.command = <<>>
    BY <1>1 DEF NoCli
  <2>2. \A i \in Marks : Place <= i
    BY <1>3 DEF Marks
  <2>3. ~IsValue(Place)
    BY <1>3, FirstIsNoValue
  <2> QED
    BY <2>1, <2>2, <2>3 DEF MarkIsAhead
<1> QED
  BY <1>1, <1>2, <1>4, <1>5 DEF StartInvariant, CommandIsInOrder, ToldFirst, SpecsAreValid

(* A piece of a sequence and what comes next are a longer piece.           *)
LEMMA LongerPiece ==
  ASSUME NEW S, NEW s \in Seq(S), NEW a \in Nat \ {0}, NEW b \in Nat, a <= b, b <= Len(s)
  PROVE  Append(SubSeq(s, a, b - 1), s[b]) = SubSeq(s, a, b)
<1> DEFINE p == SubSeq(s, a, b - 1)
           q == SubSeq(s, a, b)
<1>1. /\ p \in Seq(S) /\ Len(p) = b - a /\ \A i \in 1 .. b - a : p[i] = s[a + i - 1]
      /\ q \in Seq(S) /\ Len(q) = b - a + 1 /\ \A i \in 1 .. b - a + 1 : q[i] = s[a + i - 1]
  OBVIOUS
<1>2. s[b] \in S
  OBVIOUS
<1> HIDE DEF p, q
<1>3. /\ Append(p, s[b]) \in Seq(S) /\ Len(Append(p, s[b])) = b - a + 1
      /\ \A i \in 1 .. b - a : Append(p, s[b])[i] = p[i]
      /\ Append(p, s[b])[b - a + 1] = s[b]
  BY <1>1, <1>2
<1>4. a + (b - a + 1) - 1 = b
  OBVIOUS
<1>5. \A i \in 1 .. b - a + 1 : Append(p, s[b])[i] = q[i]
  <2> TAKE i \in 1 .. b - a + 1
  <2>1. CASE i = b - a + 1
    BY <1>1, <1>3, <1>4, <2>1
  <2>2. CASE i # b - a + 1
    <3>1. i \in 1 .. b - a
      BY <2>2
    <3> QED
      BY <1>1, <1>3, <3>1
  <2> QED
    BY <2>1, <2>2
<1>6. Append(p, s[b]) = q
  BY <1>1, <1>3, <1>5
<1> QED
  BY <1>6 DEF p, q

(* A token after "--" is one more of the command.                          *)
LEMMA CommandTaken ==
  ASSUME StartInvariant, TakeCommand
  PROVE  StartInvariant'
<1>1. StartTypeOK /\ LineIsReadInOrder /\ dashes /\ argv # <<>> /\ argv' = Tail(argv)
      /\ start = "parse" /\ start' = "parse" /\ asked' = asked /\ dashes'
      /\ UNCHANGED <<file, tier, specs>>
  BY DEF StartInvariant, TakeCommand
<1>2. LineIsReadInOrder' /\ Place' = Place + 1 /\ argv' \in Seq(Token)
  BY <1>1, ReadOne
<1>3. asked \in Seq(Token) /\ Place \in 1 .. Len(asked) /\ argv[1] = asked[Place]
      /\ argv[1] \in Token /\ Len(asked) \in Nat
  BY <1>1, LineFacts
<1>4. PICK r \in Marks : /\ \A i \in Marks : r <= i
                         /\ r < Place
                         /\ cli.command = SubSeq(asked, r + 1, Place - 1)
  BY <1>1 DEF StartInvariant, CommandIsInOrder, IsRead, CommandIsBehind
<1>5. r \in 1 .. Len(asked)
  BY <1>3 DEF Marks
<1>6. cli' \in CliType /\ cli'.command = Append(cli.command, argv[1])
  <2>1. \A c \in Seq(Token) : [cli EXCEPT !.command = c] \in CliType
                              /\ [cli EXCEPT !.command = c].command = c
    BY <1>1 DEF StartTypeOK, CliType
  <2>2. Append(cli.command, argv[1]) \in Seq(Token)
    <3>1. cli.command \in Seq(Token) /\ argv[1] \in Token
      BY <1>1, <1>3 DEF StartTypeOK
    <3> QED
      BY <3>1
  <2> QED
    BY <2>1, <2>2 DEF TakeCommand
<1>7. StartTypeOK'
  BY <1>1, <1>2, <1>6 DEF StartTypeOK, CliType
<1>8. cli'.command = SubSeq(asked, r + 1, Place)
  <2>1. r + 1 \in Nat \ {0} /\ r + 1 <= Place /\ Place \in Nat
    BY <1>3, <1>4, <1>5
  <2> QED
    BY <1>3, <1>4, <1>6, <2>1, LongerPiece, SMTT(20)
<1>9. Marks' = Marks
  BY <1>1, SameMarks
<1>10. r < Place' /\ Place' - 1 = Place
  BY <1>2, <1>3, <1>4, <1>5
<1>11. CommandIsBehind'
  BY <1>1, <1>4, <1>8, <1>9, <1>10 DEF CommandIsBehind
<1> QED
  BY <1>1, <1>2, <1>7, <1>11 DEF StartInvariant, CommandIsInOrder, ToldFirst, SpecsAreValid

(* The first "--" that is nobody's value is the mark.                      *)
LEMMA DashesTaken ==
  ASSUME StartInvariant, TakeDashes
  PROVE  StartInvariant'
<1>1. StartTypeOK /\ LineIsReadInOrder /\ ~dashes /\ argv # <<>> /\ argv' = Tail(argv)
      /\ start = "parse" /\ start' = "parse" /\ asked' = asked /\ dashes'
      /\ UNCHANGED <<file, tier, specs, cli>> /\ argv[1].opt = "--"
  BY DEF StartInvariant, TakeDashes, IsNext
<1>2. LineIsReadInOrder' /\ Place' = Place + 1 /\ argv' \in Seq(Token)
  BY <1>1, ReadOne
<1>3. MarkIsAhead
  BY <1>1 DEF StartInvariant, CommandIsInOrder, IsRead
<1>4. Place \in Marks
  BY <1>1, <1>3, MarksPassed
<1>5. asked \in Seq(Token) /\ Place \in Nat
  BY <1>1, LineFacts
<1>6. cli.command = SubSeq(asked, Place + 1, Place' - 1)
  <2>1. SubSeq(asked, Place + 1, Place) = <<>>
    BY <1>5
  <2>2. Place' - 1 = Place
    BY <1>2, <1>5
  <2> QED
    BY <1>3, <2>1, <2>2 DEF MarkIsAhead
<1>7. Marks' = Marks
  BY <1>1, SameMarks
<1>8. Place < Place'
  BY <1>2, <1>5
<1>9. CommandIsBehind'
  BY <1>1, <1>3, <1>4, <1>6, <1>7, <1>8 DEF CommandIsBehind, MarkIsAhead
<1>10. StartTypeOK'
  BY <1>1, <1>2 DEF StartTypeOK
<1> QED
  BY <1>1, <1>2, <1>9, <1>10 DEF StartInvariant, CommandIsInOrder, ToldFirst, SpecsAreValid

(* Help and version are told only before the mark.                         *)
LEMMA Told ==
  ASSUME StartInvariant, Tell
  PROVE  StartInvariant'
<1>1. StartTypeOK /\ LineIsReadInOrder /\ ~dashes /\ argv # <<>> /\ start = "parse"
      /\ start' = "told" /\ UNCHANGED <<asked, argv, cli, dashes, file, tier, specs>>
      /\ argv[1].opt \in {"--help", "--version"}
  BY DEF StartInvariant, Tell, IsNext
<1>2. MarkIsAhead
  BY <1>1 DEF StartInvariant, CommandIsInOrder, IsRead
<1>3. Place \in DOMAIN asked /\ argv[1] = asked[Place] /\ Place \in Nat /\ Marks \subseteq Nat
  BY <1>1, LineFacts DEF Marks
<1>4. \A j \in Marks : Place < j
  <2>1. \A j \in Marks : Place + 1 <= j
    BY <1>1, <1>2, MarksPassed
  <2> QED
    BY <1>3, <2>1
<1>5. Marks' = Marks
  BY <1>1, SameMarks
<1>6. ToldFirst'
  BY <1>1, <1>3, <1>4, <1>5 DEF ToldFirst
<1>7. Place' = Place
  BY <1>1 DEF Place
<1>8. LineIsReadInOrder'
  BY <1>1, <1>7 DEF LineIsReadInOrder
<1>9. StartTypeOK'
  BY <1>1 DEF StartTypeOK
<1> QED
  BY <1>1, <1>6, <1>8, <1>9 DEF StartInvariant, CommandIsInOrder, IsRead, SpecsAreValid

(* An option is read, with or without a value of its own.                  *)
LEMMA OptionTaken ==
  ASSUME StartInvariant, TakeVerbose \/ TakeOption
  PROVE  StartInvariant'
<1>1. StartTypeOK /\ LineIsReadInOrder /\ ~dashes /\ argv # <<>> /\ start = "parse"
      /\ start' = "parse" /\ UNCHANGED <<asked, dashes, file, tier, specs>>
  BY DEF StartInvariant, TakeVerbose, TakeOption, IsNext
<1>2. MarkIsAhead
  BY <1>1 DEF StartInvariant, CommandIsInOrder, IsRead
<1>3. WantsValue(Place) <=> (argv[1].opt \in Valued /\ argv[1].val = NotGiven)
  BY <1>1, <1>2, MarksPassed
<1>4. cli \in CliType
  BY <1>1 DEF StartTypeOK, CliType
<1>5. /\ LineIsReadInOrder' /\ CommandIsInOrder' /\ argv' \in Seq(Token)
      /\ cli' \in CliType
  <2>1. CASE TakeVerbose
    <3>1. argv[1].opt = "--verbose" /\ argv' = Tail(argv) /\ cli' = cli
      BY <2>1 DEF TakeVerbose, IsNext
    <3>2. ~WantsValue(Place)
      BY <1>3, <3>1 DEF Valued
    <3> QED
      BY <1>1, <1>2, <1>4, <3>1, <3>2, OptionRead
  <2>2. CASE TakeOption
    <3>1. argv[1].opt \in Valued /\ IsGood /\ argv' = Rest
          /\ cli' = CASE argv[1].opt = "--compression" -> [cli EXCEPT !.compression = Value]
                      [] argv[1].opt = "--config"      -> [cli EXCEPT !.config = Value]
                      [] argv[1].opt = "--listen"      -> [cli EXCEPT !.listen = Value]
      BY <2>2 DEF TakeOption, IsNext
    <3>2. \/ argv' = Tail(argv) /\ ~WantsValue(Place)
          \/ argv' = Tail(Tail(argv)) /\ Len(argv) > 1 /\ WantsValue(Place)
      BY <1>3, <3>1 DEF IsGood, HasValue, Rest
    <3>3. Value \in Text
      <4>1. argv \in Seq(Token) /\ Len(argv) \in Nat /\ Len(argv) # 0
        BY <1>1, LineFacts
      <4>2. argv[1] \in Token /\ (Len(argv) > 1 => argv[2] \in Token)
        BY <4>1
      <4>3. \A u \in Token : /\ u.val # NotGiven => u.val \in Text
                             /\ u.opt = "word" => u.val \in Text
                             /\ u.opt # "word" => u.opt \in Text
        BY DEF Token, Options, Valued, Text
      <4> QED
        BY <3>1, <4>2, <4>3 DEF Value, TextOf, IsGood, HasValue
    <3>4. cli' \in CliType /\ cli'.command = cli.command
      <4> DEFINE v == Value
      <4>1. v \in Text /\ (argv[1].opt = "--compression" => v \in Tiers)
        BY <3>1, <3>3 DEF IsGood
      <4>2. cli' = CASE argv[1].opt = "--compression" -> [cli EXCEPT !.compression = v]
                     [] argv[1].opt = "--config"      -> [cli EXCEPT !.config = v]
                     [] argv[1].opt = "--listen"      -> [cli EXCEPT !.listen = v]
        BY <3>1
      <4> HIDE DEF v
      <4>3. CASE argv[1].opt = "--compression"
        <5>1. cli' = [cli EXCEPT !.compression = v]
          BY <4>2, <4>3
        <5> QED
          BY <1>4, <4>1, <4>3, <5>1 DEF CliType
      <4>4. CASE argv[1].opt = "--config"
        <5>1. cli' = [cli EXCEPT !.config = v]
          BY <4>2, <4>4
        <5> QED
          BY <1>4, <4>1, <5>1 DEF CliType
      <4>5. CASE argv[1].opt = "--listen"
        <5>1. cli' = [cli EXCEPT !.listen = v]
          BY <4>2, <4>5
        <5> QED
          BY <1>4, <4>1, <5>1 DEF CliType
      <4> QED
        BY <3>1, <4>3, <4>4, <4>5 DEF Valued
    <3>5. argv[1].opt \in Valued \cup {"--verbose"}
      BY <3>1
    <3> QED
      BY <1>1, <1>2, <3>2, <3>4, <3>5, OptionRead
  <2> QED
    BY <2>1, <2>2
<1>6. StartTypeOK'
  BY <1>1, <1>5 DEF StartTypeOK, CliType
<1> QED
  BY <1>1, <1>5, <1>6 DEF StartInvariant, ToldFirst, SpecsAreValid

(* A refusal changes nothing but where the gateway stands.                 *)
LEMMA Refused ==
  ASSUME StartInvariant, Fail
  PROVE  StartInvariant'
<1>1. start' = "failed" /\ UNCHANGED <<asked, argv, cli, dashes, file, tier, specs>>
  BY DEF Fail
<1>2. Place' = Place
  BY <1>1 DEF Place
<1>3. LineIsReadInOrder'
  BY <1>1, <1>2 DEF StartInvariant, LineIsReadInOrder
<1>4. StartTypeOK'
  BY <1>1 DEF StartInvariant, StartTypeOK
<1> QED
  BY <1>1, <1>3, <1>4 DEF StartInvariant, CommandIsInOrder, IsRead, ToldFirst, SpecsAreValid

(* What has been read of the command line stays read.                      *)
LEMMA ReadStays ==
  ASSUME StartInvariant, UNCHANGED <<asked, argv, cli, dashes>>, IsRead,
         start' \in {"resolve", "ready"}, argv = <<>>
  PROVE  LineIsReadInOrder' /\ CommandIsInOrder'
<1>1. Place' = Place /\ Marks' = Marks /\ \A i : IsValue(i)' <=> IsValue(i)
  BY SameMarks DEF Place
<1>2. LineIsReadInOrder'
  BY <1>1 DEF StartInvariant, LineIsReadInOrder
<1>3. CommandIsInOrder
  BY DEF StartInvariant
<1>4. CASE dashes
  <2>1. CommandIsBehind
    BY <1>3, <1>4 DEF CommandIsInOrder
  <2>2. CommandIsBehind'
    BY <1>1, <2>1 DEF CommandIsBehind
  <2> QED
    BY <1>2, <1>4, <2>2 DEF CommandIsInOrder
<1>5. CASE ~dashes
  <2>1. MarkIsAhead
    BY <1>3, <1>5 DEF CommandIsInOrder
  <2>2. ~IsValue(Place)'
    BY <1>1, <2>1 DEF MarkIsAhead, IsValue, WantsValue
  <2>3. MarkIsAhead'
    BY <1>1, <2>1, <2>2 DEF MarkIsAhead
  <2> QED
    BY <1>2, <1>5, <2>3 DEF CommandIsInOrder
<1> QED
  BY <1>4, <1>5

(* The line is accepted, and the upstreams are found.                      *)
LEMMA LineAccepted ==
  ASSUME StartInvariant, Accept
  PROVE  StartInvariant'
<1>1. start = "parse" /\ start' = "resolve" /\ argv = <<>>
      /\ UNCHANGED <<asked, argv, cli, dashes, file, tier, specs>>
  BY DEF Accept
<1>2. LineIsReadInOrder' /\ CommandIsInOrder'
  BY <1>1, ReadStays DEF IsRead
<1>3. StartTypeOK'
  BY <1>1 DEF StartInvariant, StartTypeOK
<1> QED
  BY <1>1, <1>2, <1>3 DEF StartInvariant, ToldFirst, SpecsAreValid

(* The prefixes are those of a valid file.                                 *)
LEMMA FileResolved ==
  ASSUME StartInvariant, ResolveFile
  PROVE  StartInvariant'
<1>1. start = "resolve" /\ start' = "ready" /\ IsUsable /\ StartTypeOK
      /\ UNCHANGED <<asked, argv, cli, dashes, file>> /\ tier' = TierOf(file)
      /\ specs' = [i \in DOMAIN file.servers |-> file.servers[i].name]
  BY DEF ResolveFile, StartInvariant
<1>2. argv = <<>>
  BY <1>1 DEF StartInvariant, LineIsReadInOrder
<1>3. LineIsReadInOrder' /\ CommandIsInOrder'
  BY <1>1, <1>2, ReadStays DEF IsRead
<1>4. specs' \in Seq(Seq(Char)) /\ tier' \in Tiers
  <2>1. file \in Config
    BY <1>1, StartupAssumption DEF StartTypeOK, IsUsable
  <2>2. file.servers \in Seq([name : Seq(Char), command : BOOLEAN])
    BY <2>1 DEF Config
  <2>3. file.servers = file["servers"] /\ DOMAIN file.servers = 1 .. Len(file.servers)
    BY <2>2
  <2>4. \A i \in DOMAIN file.servers : file.servers[i].name \in Seq(Char)
    <3>1. \A R : \A q \in Seq(R) : \A i \in DOMAIN q : q[i] \in R
      OBVIOUS
    <3>2. \A e \in [name : Seq(Char), command : BOOLEAN] : e.name \in Seq(Char)
      OBVIOUS
    <3> QED
      BY <2>2, <3>1, <3>2, Zenon
  <2> HIDE DEF Char
  <2>5. specs' \in Seq(Seq(Char))
    BY <1>1, <2>2, <2>3, <2>4
  <2> QED
    BY <1>1, <2>5 DEF IsUsable
<1>5. StartTypeOK'
  BY <1>1, <1>4 DEF StartTypeOK
<1>6. SpecsAreValid'
  BY <1>1 DEF SpecsAreValid, IsUsable
<1> QED
  BY <1>1, <1>3, <1>5, <1>6 DEF StartInvariant, ToldFirst

(* The command is the one upstream, without a prefix.                      *)
LEMMA CommandResolved ==
  ASSUME StartInvariant, ResolveCommand
  PROVE  StartInvariant'
<1>1. start = "resolve" /\ start' = "ready" /\ StartTypeOK
      /\ UNCHANGED <<asked, argv, cli, dashes, file>> /\ specs' = << <<>> >>
      /\ tier' = IF cli.compression = NotGiven THEN "none" ELSE cli.compression
  BY DEF ResolveCommand, StartInvariant
<1>2. argv = <<>>
  BY <1>1 DEF StartInvariant, LineIsReadInOrder
<1>3. LineIsReadInOrder' /\ CommandIsInOrder'
  BY <1>1, <1>2, ReadStays DEF IsRead
<1>4. specs' \in Seq(Seq(Char))
  <2>1. <<>> \in Seq(Char)
    OBVIOUS
  <2>2. \A C : \A c \in C : <<c>> \in Seq(C)
    OBVIOUS
  <2> QED
    BY <1>1, <2>1, <2>2, Zenon
<1>5. tier' \in Tiers
  BY <1>1 DEF StartTypeOK, Tiers
<1>6. StartTypeOK'
  BY <1>1, <1>4, <1>5 DEF StartTypeOK
<1> QED
  BY <1>1, <1>3, <1>6 DEF StartInvariant, ToldFirst, SpecsAreValid

(* Every step of the start keeps the invariant.                            *)
LEMMA StartStep ==
  ASSUME StartInvariant, StartNext
  PROVE  StartInvariant'
<1>1. CASE TakeCommand
  BY <1>1, CommandTaken
<1>2. CASE TakeDashes
  BY <1>2, DashesTaken
<1>3. CASE Tell
  BY <1>3, Told
<1>4. CASE TakeVerbose \/ TakeOption
  BY <1>4, OptionTaken
<1>5. CASE RejectToken \/ RejectLine \/ RejectFile
  BY <1>5, Refused DEF RejectToken, RejectLine, RejectFile
<1>6. CASE Accept
  BY <1>6, LineAccepted
<1>7. CASE ResolveFile
  BY <1>7, FileResolved
<1>8. CASE ResolveCommand
  BY <1>8, CommandResolved
<1> QED
  BY <1>1, <1>2, <1>3, <1>4, <1>5, <1>6, <1>7, <1>8 DEF StartNext

-----------------------------------------------------------------------------
(* The command of the start is what follows the first mark.                *)
LEMMA InvariantGivesVerbatim ==
  ASSUME StartInvariant
  PROVE  CommandIsVerbatim
<1> DEFINE rest == CHOOSE i \in Marks : \A j \in Marks : i <= j
<1>1. ASSUME start = "ready"
      PROVE  cli.command = IF Marks = {} THEN <<>> ELSE SubSeq(asked, rest + 1, Len(asked))
  <2>1. LineIsReadInOrder /\ StartTypeOK /\ argv = <<>> /\ CommandIsInOrder /\ IsRead
    BY <1>1 DEF StartInvariant, LineIsReadInOrder, IsRead
  <2>2. asked \in Seq(Token) /\ Place = Len(asked) + 1
    BY <2>1, LineFacts
  <2>3. Len(asked) \in Nat /\ Marks \subseteq 1 .. Len(asked) /\ Place - 1 = Len(asked)
    BY <2>2 DEF Marks
  <2>4. CASE dashes
    <3>1. PICK r \in Marks : /\ \A i \in Marks : r <= i
                             /\ cli.command = SubSeq(asked, r + 1, Place - 1)
      BY <2>1, <2>4 DEF CommandIsInOrder, CommandIsBehind
    <3>2. rest \in Marks /\ \A j \in Marks : rest <= j
      BY <3>1
    <3> HIDE DEF rest
    <3>3. rest <= r /\ r <= rest /\ rest \in Int /\ r \in Int
      BY <2>3, <3>1, <3>2
    <3>4. rest = r
      BY <3>3
    <3> QED
      BY <2>3, <3>1, <3>4
  <2>5. CASE ~dashes
    <3>1. cli.command = <<>> /\ \A i \in Marks : Place <= i
      BY <2>1, <2>5 DEF CommandIsInOrder, MarkIsAhead
    <3>2. Marks = {}
      BY <2>2, <2>3, <3>1
    <3> QED
      BY <3>1, <3>2
  <2> QED
    BY <2>4, <2>5
<1>2. start = "told" => \E i \in DOMAIN asked :
        asked[i].opt \in {"--help", "--version"} /\ \A j \in Marks : i < j
  BY DEF StartInvariant, ToldFirst
<1> QED
  BY <1>1, <1>2 DEF CommandIsVerbatim, Marks

(* Two sequences, one after the other.                                     *)
LEMMA Joined ==
  ASSUME NEW S, NEW q \in Seq(S), NEW r \in Seq(S)
  PROVE  /\ q \o r \in Seq(S) /\ Len(q \o r) = Len(q) + Len(r)
         /\ Len(q) \in Nat /\ Len(r) \in Nat
         /\ DOMAIN (q \o r) = 1 .. Len(q) + Len(r)
         /\ \A k \in 1 .. Len(q) : (q \o r)[k] = q[k]
         /\ \A k \in 1 .. Len(r) : (q \o r)[Len(q) + k] = r[k]
  OBVIOUS

(* A tool's shown name begins with its upstream's, and the separator.      *)
LEMMA ShownIs ==
  ASSUME NEW a \in Seq(Char), NEW t \in Seq(Char), a # <<>>
  PROVE  /\ Shown(a, t) = a \o <<Underscore, Underscore>> \o t
         /\ Len(Shown(a, t)) = Len(a) + 2 + Len(t)
         /\ \A k \in 1 .. Len(a) : Shown(a, t)[k] = a[k]
         /\ Shown(a, t)[Len(a) + 1] = Underscore /\ Shown(a, t)[Len(a) + 2] = Underscore
<1>1. Shown(a, t) = a \o <<Underscore, Underscore>> \o t
  BY DEF Shown
<1>2. Underscore \in Char
  BY DEF Char
<1> DEFINE p == a \o <<Underscore, Underscore>>
<1>3. /\ <<Underscore, Underscore>> \in Seq(Char) /\ Len(<<Underscore, Underscore>>) = 2
      /\ <<Underscore, Underscore>>[1] = Underscore /\ <<Underscore, Underscore>>[2] = Underscore /\ Len(a) \in Nat /\ Len(t) \in Nat
  BY <1>2
<1> HIDE DEF Char
<1>4. /\ p \in Seq(Char) /\ Len(p) = Len(a) + 2
      /\ \A k \in 1 .. Len(a) : p[k] = a[k]
      /\ p[Len(a) + 1] = Underscore /\ p[Len(a) + 2] = Underscore
  <2> DEFINE w == <<Underscore, Underscore>>
  <2>1. w \in Seq(Char)
    BY <1>3
  <2>2. Len(w) = 2 /\ w[1] = Underscore /\ w[2] = Underscore
    BY <1>3
  <2> HIDE DEF w
  <2>3. /\ a \o w \in Seq(Char) /\ Len(a \o w) = Len(a) + Len(w)
        /\ \A k \in 1 .. Len(a) : (a \o w)[k] = a[k]
        /\ \A k \in 1 .. Len(w) : (a \o w)[Len(a) + k] = w[k]
    BY <2>1, Joined
  <2>4. 1 \in 1 .. Len(w) /\ 2 \in 1 .. Len(w)
    BY <2>2
  <2>5. (a \o w)[Len(a) + 1] = w[1] /\ (a \o w)[Len(a) + 2] = w[2]
    BY <2>3, <2>4, Zenon
  <2>6. Len(a \o w) = Len(a) + 2
    BY <2>2, <2>3, Zenon
  <2>7. /\ a \o w \in Seq(Char) /\ Len(a \o w) = Len(a) + 2
        /\ \A k \in 1 .. Len(a) : (a \o w)[k] = a[k]
        /\ (a \o w)[Len(a) + 1] = Underscore /\ (a \o w)[Len(a) + 2] = Underscore
    BY <2>2, <2>3, <2>5, <2>6, Zenon
  <2> QED
    BY <2>7 DEF w
<1> HIDE DEF p
<1>5. /\ Len(p \o t) = Len(a) + 2 + Len(t)
      /\ \A k \in 1 .. Len(a) + 2 : (p \o t)[k] = p[k]
  BY <1>3, <1>4
<1>6. Len(a) + 1 \in 1 .. Len(a) + 2 /\ Len(a) + 2 \in 1 .. Len(a) + 2
      /\ 1 .. Len(a) \subseteq 1 .. Len(a) + 2
  BY <1>3
<1>7. Shown(a, t) = p \o t
  BY <1>1 DEF p
<1> QED
  BY <1>1, <1>4, <1>5, <1>6, <1>7

(* Equal shown names of different lengths of prefix put the separator into *)
(* the longer one.                                                         *)
LEMMA ShorterSeparates ==
  ASSUME NEW a \in Seq(Char), NEW b \in Seq(Char), NEW t \in Seq(Char), NEW u \in Seq(Char),
         a # <<>>, b # <<>>, Shown(a, t) = Shown(b, u), Len(a) < Len(b)
  PROVE  HasSeparator(b \o <<Underscore>>)
<1> DEFINE n == b \o <<Underscore>>
           k == Len(a) + 1
<1>1. Underscore \in Char /\ Len(a) \in Nat /\ Len(b) \in Nat
  BY DEF Char
<1> HIDE DEF Char
<1>2. Len(n) = Len(b) + 1 /\ (\A i \in 1 .. Len(b) : n[i] = b[i]) /\ n[Len(b) + 1] = Underscore
  BY <1>1
<1>3. \A i \in 1 .. Len(b) + 1 : n[i] = Shown(b, u)[i]
  <2> TAKE i \in 1 .. Len(b) + 1
  <2>1. CASE i = Len(b) + 1
    BY <1>2, <2>1, ShownIs
  <2>2. CASE i # Len(b) + 1
    <3>1. i \in 1 .. Len(b)
      BY <1>1, <2>2
    <3> QED
      BY <1>2, <3>1, ShownIs
  <2> QED
    BY <2>1, <2>2
<1>4. Shown(b, u)[k] = Underscore /\ Shown(b, u)[k + 1] = Underscore
  <2>1. Shown(a, t)[Len(a) + 1] = Underscore /\ Shown(a, t)[Len(a) + 2] = Underscore
    BY ShownIs
  <2>2. k + 1 = Len(a) + 2
    BY <1>1
  <2> QED
    BY <2>1, <2>2
<1>5. k \in 1 .. Len(b) + 1 /\ k + 1 \in 1 .. Len(b) + 1 /\ k \in 1 .. Len(n) - 1
  BY <1>1, <1>2
<1> HIDE DEF n, k
<1>6. n[k] = Underscore /\ n[k + 1] = Underscore
  BY <1>3, <1>4, <1>5
<1>7. HasSeparator(n)
  BY <1>5, <1>6 DEF HasSeparator
<1> QED
  BY <1>7 DEF n

(* Equal shown names of equal lengths of prefix have the same prefix.      *)
LEMMA EqualPrefixes ==
  ASSUME NEW a \in Seq(Char), NEW b \in Seq(Char), NEW t \in Seq(Char), NEW u \in Seq(Char),
         a # <<>>, b # <<>>, Shown(a, t) = Shown(b, u), Len(a) = Len(b)
  PROVE  a = b
<1>1. \A i \in 1 .. Len(a) : Shown(a, t)[i] = a[i]
  BY ShownIs
<1>2. \A i \in 1 .. Len(b) : Shown(b, u)[i] = b[i]
  BY ShownIs
<1>3. \A i \in 1 .. Len(a) : a[i] = b[i]
  BY <1>1, <1>2, Zenon
<1> QED
  BY <1>3

(* The names of a valid file keep the tools of different upstreams apart.  *)
LEMMA InvariantGivesApart ==
  ASSUME StartInvariant
  PROVE  PrefixesAreApart
<1> SUFFICES ASSUME start = "ready", \A i \in DOMAIN specs : ~HasSeparator(specs[i] \o <<Underscore>>),
                    NEW i \in DOMAIN specs, NEW j \in DOMAIN specs, NEW t \in Tools, NEW u \in Tools,
                    Shown(specs[i], t) = Shown(specs[j], u)
             PROVE  i = j
  BY DEF PrefixesAreApart
<1>1. CASE specs = << <<>> >>
  <2>1. DOMAIN specs = {1}
    BY <1>1
  <2> QED
    BY <2>1
<1>2. CASE /\ file # NoFile /\ Valid(file)
           /\ specs = [k \in DOMAIN file.servers |-> file.servers[k].name]
  <2>1. specs \in Seq(Seq(Char)) /\ t \in Seq(Char) /\ u \in Seq(Char)
    BY StartupAssumption DEF StartInvariant, StartTypeOK
  <2>2. /\ i \in DOMAIN file.servers /\ j \in DOMAIN file.servers
        /\ specs[i] = file.servers[i].name /\ specs[j] = file.servers[j].name
    BY <1>2
  <2>3. specs[i] # <<>> /\ specs[j] # <<>>
    BY <1>2, <2>2 DEF Valid, IsIdentifier
  <2>4. specs[i] \in Seq(Char) /\ specs[j] \in Seq(Char)
    <3>1. \A R : \A q \in Seq(R) : \A k \in DOMAIN q : q[k] \in R
      OBVIOUS
    <3> QED
      BY <2>1, <3>1, Zenon
  <2>5. ~(Len(specs[i]) < Len(specs[j])) /\ ~(Len(specs[j]) < Len(specs[i]))
    BY <2>1, <2>3, <2>4, ShorterSeparates
  <2>6. Len(specs[i]) = Len(specs[j])
    <3>1. Len(specs[i]) \in Nat /\ Len(specs[j]) \in Nat
      BY <2>4
    <3> QED
      BY <2>5, <3>1
  <2>7. specs[i] = specs[j]
    BY <2>1, <2>3, <2>4, <2>6, EqualPrefixes
  <2> QED
    BY <1>2, <2>2, <2>7 DEF Valid
<1> QED
  BY <1>1, <1>2 DEF StartInvariant, SpecsAreValid
=============================================================================
