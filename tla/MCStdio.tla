------------------------------- MODULE MCStdio -------------------------------
(* Small instances of Stdio for TLC.                                       *)
EXTENDS StdioRelay

CONSTANTS m,                 \* the one session
          all, one, overlong \* lines: for all upstreams, for the first, too long

(* Command lines. *)
Opt(o)     == [opt |-> o, val |-> NotGiven]
Set(o, v)  == [opt |-> o, val |-> v]
Word(w)    == [opt |-> "word", val |-> w]

Lines == {
  << Set("--config", "gw.toml") >>,
  << Opt("--config"), Word("gw.toml"), Opt("--verbose") >>,
  << Set("--compression", "safe"), Set("--config", "gw.toml") >>,
  << Set("--config", "gw.toml"), Opt("--listen"), Word("addr") >>,
  << Opt("--verbose"), Opt("--"), Word("cmd"), Opt("--help") >>,
  << Opt("--"), Word("cmd"), Opt("--"), Set("--config", "x") >>,
  << Opt("--config"), Opt("--"), Opt("--"), Word("cmd") >>,
  << Opt("--config"), Opt("--"), Opt("--help") >>,
  << Opt("--listen"), Opt("--config"), Opt("--"), Opt("--version") >>,
  << Opt("--compression"), Opt("--"), Word("cmd") >>,
  << Set("--compression", "hi"), Opt("--"), Word("cmd") >>,
  << Set("--config", "gw.toml"), Opt("--"), Word("cmd") >>,
  << Word("cmd"), Opt("--help") >>,
  << Opt("--verbose") >>,
  << Opt("--config") >>,
  << Set("--config", "") >>,
  << Set("--config", ""), Opt("--"), Word("cmd") >>,
  << Opt("--config"), Word(""), Set("--listen", "") >>,
  << Set("--listen", ""), Opt("--"), Word("cmd") >>,
  << Set("--compression", ""), Opt("--"), Word("cmd") >> }

(* Configuration files. *)
Has(name)    == [name |-> name, command |-> TRUE]
File(t, sv)  == [compression |-> t, servers |-> sv]

Files == { NoFile,
  File(NotGiven, << Has(<<"a">>), Has(<<"b", "1">>) >>),
  File("high", << Has(<<"a">>), Has(<<"a", "_">>) >>),
  File("safe", << Has(<<"a">>), Has(<<"a", "_", "b">>) >>),
  File("hi", << Has(<<"a">>), Has(<<"b">>) >>),
  File(NotGiven, << Has(<<"a">>), Has(<<"a">>) >>),
  File(NotGiven, << Has(<<"a">>), Has(<<"1", "a">>) >>),
  File(NotGiven, << Has(<<"a", "-">>), Has(<<"b">>) >>),
  File(NotGiven, << Has(<<>>), Has(<<"b">>) >>),
  File(NotGiven, << [name |-> <<"a">>, command |-> FALSE] >>),
  File("", << Has(<<"a">>), Has(<<"b">>) >>),
  File(NotGiven, <<>>) }

Chars    == {"a", "b", "_"}
AllTools == {<<x>> : x \in Chars} \cup {<<x, y>> : x, y \in Chars}
              \cup {<<x, y, z>> : x, y, z \in Chars}

(* What the client says, for whom, and how often it is answered. *)
Said       == { <<one, all>>, <<one, overlong, all>> }
LinesTo    == [l \in {all, one, overlong} |-> IF l = one THEN {0} ELSE Server]
AnswersTo  == [l \in {all, one, overlong} |-> 1]
=============================================================================
