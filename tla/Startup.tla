------------------------------ MODULE Startup ------------------------------
(***************************************************************************)
(* From the command line to the list of upstreams: parse_args and resolve  *)
(* (src/Shrink/src/main.rs), GatewayConfig::load and validate              *)
(* (src/Shrink/src/config.rs).  A token of the command line is an option,  *)
(* bare or with "=" and a value, which may be empty, or a word; a name is a *)
(* sequence of characters, since the names of tools are made from it.      *)
(***************************************************************************)
EXTENDS Integers, Sequences

CONSTANTS
  CommandLines,  \* the command lines
  Disk,          \* what the configuration file may be
  NoFile,        \* it cannot be read, or is not TOML of the right shape
  NotGiven,      \* no value, which the empty one is not
  Words,         \* what a token or the file may say, other than an option or a tier
  Letters, Digits, OtherChars,
  Tools          \* names of tools

Tiers   == {"none", "safe", "balanced", "high"}
Valued  == {"--compression", "--config", "--listen"}
Options == Valued \cup {"--", "--help", "--version", "--verbose"}

(* Half of the separator.                                                  *)
Underscore == "_"

(* A token's val is what stands after the "=", or the word itself.         *)
Text  == Words \cup Options \cup Tiers \cup {""}
Token == [opt : Valued, val : Text]
           \cup [opt : Options, val : {NotGiven}]
           \cup [opt : {"word"}, val : Text \ Options]
Char  == Letters \cup Digits \cup OtherChars \cup {Underscore}
Config == [compression : Text \cup {NotGiven},
           servers : Seq([name : Seq(Char), command : BOOLEAN])]

(* What serde makes of the file; a server's command is empty or not.       *)
ASSUME StartupAssumption ==
  /\ CommandLines \subseteq Seq(Token)
  /\ Disk \ {NoFile} \subseteq Config
  /\ Tools \subseteq Seq(Char)
  /\ NotGiven \notin Text

NoCli == [compression |-> NotGiven, config |-> NotGiven, listen |-> NotGiven,
          command |-> <<>>]

VARIABLES
  asked,  \* the command line
  argv,   \* what of it is still to be read
  cli,    \* struct Cli: what each option says, and the command
  dashes, \* after_dd
  file,   \* the configuration file
  start,  \* control point
  tier,   \* the compression tier
  specs   \* the upstreams: their prefixes

startVars == <<asked, argv, cli, dashes, file, start, tier, specs>>

StartTypeOK ==
  /\ asked \in CommandLines \cup {<<>>} /\ argv \in Seq(Token)
  /\ cli \in [compression : Tiers \cup {NotGiven}, config : Text \cup {NotGiven},
              listen : Text \cup {NotGiven}, command : Seq(Token)]
  /\ dashes \in BOOLEAN
  /\ file \in Disk \cup {NoFile}
  /\ start \in {"parse", "resolve", "ready", "told", "failed", "launched", "listening"}
  /\ tier \in Tiers
  /\ specs \in Seq(Seq(Char))

StartInit ==
  /\ asked \in CommandLines
  /\ argv = asked
  /\ cli = NoCli
  /\ dashes = FALSE
  /\ file \in Disk
  /\ start = "parse"
  /\ tier = "none"
  /\ specs = <<>>

Fail ==
  /\ start' = "failed"
  /\ UNCHANGED <<asked, argv, cli, dashes, file, tier, specs>>

-----------------------------------------------------------------------------
(* parse_args, token by token.                                             *)
IsNext(opts) == start = "parse" /\ argv # <<>> /\ argv[1].opt \in opts

(* Whatever follows "--" is the upstream's, options included.              *)
TakeCommand ==
  /\ start = "parse" /\ argv # <<>> /\ dashes
  /\ cli' = [cli EXCEPT !.command = Append(@, argv[1])]
  /\ argv' = Tail(argv)
  /\ UNCHANGED <<asked, dashes, file, start, tier, specs>>

TakeDashes ==
  /\ IsNext({"--"}) /\ ~dashes
  /\ dashes' = TRUE
  /\ argv' = Tail(argv)
  /\ UNCHANGED <<asked, cli, file, start, tier, specs>>

(* Bug: the check for tokens after "--" comes second.                      *)
TellFirst ==
  /\ IsNext({"--help", "--version"})
  /\ start' = "told"
  /\ UNCHANGED <<asked, argv, cli, dashes, file, tier, specs>>

(* -h and -V print and exit, whatever else is on the line.                 *)
Tell ==
  /\ IsNext({"--help", "--version"}) /\ ~dashes
  /\ start' = "told"
  /\ UNCHANGED <<asked, argv, cli, dashes, file, tier, specs>>

TakeVerbose ==
  /\ IsNext({"--verbose"}) /\ ~dashes
  /\ argv' = Tail(argv)
  /\ UNCHANGED <<asked, cli, dashes, file, start, tier, specs>>

(* The value is after the "=" or is the next token, whatever that is.      *)
TextOf(t) == IF t.opt = "word" THEN t.val ELSE t.opt

Value == IF argv[1].val # NotGiven THEN argv[1].val ELSE TextOf(argv[2])
Rest  == IF argv[1].val # NotGiven THEN Tail(argv) ELSE Tail(Tail(argv))

HasValue == argv[1].val # NotGiven \/ Len(argv) > 1
IsGood   == HasValue /\ (argv[1].opt = "--compression" => Value \in Tiers)

TakeOption ==
  /\ IsNext(Valued) /\ ~dashes /\ IsGood
  /\ cli' = CASE argv[1].opt = "--compression" -> [cli EXCEPT !.compression = Value]
              [] argv[1].opt = "--config"      -> [cli EXCEPT !.config = Value]
              [] argv[1].opt = "--listen"      -> [cli EXCEPT !.listen = Value]
  /\ argv' = Rest
  /\ UNCHANGED <<asked, dashes, file, start, tier, specs>>

RejectToken ==
  /\ ~dashes /\ (IsNext({"word"}) \/ (IsNext(Valued) /\ ~IsGood))
  /\ Fail

(* Either a configuration file or a command.                               *)
RejectLine ==
  /\ start = "parse" /\ argv = <<>> /\ (cli.config = NotGiven) = (cli.command = <<>>)
  /\ Fail

Accept ==
  /\ start = "parse" /\ argv = <<>> /\ (cli.config = NotGiven) # (cli.command = <<>>)
  /\ start' = "resolve"
  /\ UNCHANGED <<asked, argv, cli, dashes, file, tier, specs>>

-----------------------------------------------------------------------------
(* GatewayConfig::validate.                                                *)
IsIdentifier(n) ==
  /\ n # <<>> /\ n[1] \notin Digits
  /\ \A i \in DOMAIN n : n[i] \in Letters \cup Digits \cup {Underscore}

(* Bug: the names are not compared.                                        *)
ValidNames(c) ==
  /\ c.servers # <<>>
  /\ \A i \in DOMAIN c.servers : IsIdentifier(c.servers[i].name) /\ c.servers[i].command

(* At least one server, names that are identifiers and differ, commands.   *)
Valid(c) ==
  /\ c.servers # <<>>
  /\ \A i \in DOMAIN c.servers : IsIdentifier(c.servers[i].name) /\ c.servers[i].command
  /\ \A i, j \in DOMAIN c.servers : c.servers[i].name = c.servers[j].name => i = j

(* resolve.  The file's tier is not looked at if the command line has one. *)
TierOf(c) == IF cli.compression # NotGiven THEN cli.compression
             ELSE IF c.compression = NotGiven THEN "none" ELSE c.compression

(* No file has an empty path.                                              *)
IsUsable == cli.config # "" /\ file # NoFile /\ Valid(file) /\ TierOf(file) \in Tiers

ResolveFile ==
  /\ start = "resolve" /\ cli.config # NotGiven /\ IsUsable
  /\ tier' = TierOf(file)
  /\ specs' = [i \in DOMAIN file.servers |-> file.servers[i].name]
  /\ start' = "ready"
  /\ UNCHANGED <<asked, argv, cli, dashes, file>>

RejectFile ==
  /\ start = "resolve" /\ cli.config # NotGiven /\ ~IsUsable
  /\ Fail

ResolveCommand ==
  /\ start = "resolve" /\ cli.config = NotGiven
  /\ tier' = IF cli.compression = NotGiven THEN "none" ELSE cli.compression
  /\ specs' = << <<>> >>
  /\ start' = "ready"
  /\ UNCHANGED <<asked, argv, cli, dashes, file>>

StartNext ==
  \/ TakeCommand \/ TakeDashes \/ Tell \/ TakeVerbose \/ TakeOption \/ RejectToken
  \/ RejectLine \/ Accept \/ ResolveFile \/ RejectFile \/ ResolveCommand

-----------------------------------------------------------------------------
(* Properties.                                                             *)

(* What follows the first "--" (main.rs:75) reaches the upstream whole and *)
(* as it is, and nothing of it is taken for an option of the gateway; a    *)
(* "--" that stands where an option's value does is that value.            *)
WantsValue(i) == asked[i].opt \in Valued /\ asked[i].val = NotGiven

IsValue(i) ==
  \E k \in 1 .. i - 1 :
    /\ k % 2 = 1 /\ \A j \in i - k .. i - 1 : WantsValue(j)
    /\ i - k = 1 \/ ~WantsValue(i - k - 1)

CommandIsVerbatim ==
  LET marks == {i \in DOMAIN asked : asked[i].opt = "--" /\ ~IsValue(i)}
      rest  == CHOOSE i \in marks : \A j \in marks : i <= j
  IN  /\ start = "ready" =>
           cli.command = IF marks = {} THEN <<>> ELSE SubSeq(asked, rest + 1, Len(asked))
      /\ start = "told" => \E i \in DOMAIN asked :
           asked[i].opt \in {"--help", "--version"} /\ \A j \in marks : i < j

(* Tool `t` of an upstream as the client sees it (router.rs:413-417).      *)
Shown(prefix, t) == IF prefix = <<>> THEN t ELSE prefix \o <<Underscore, Underscore>> \o t

HasSeparator(n) == \E i \in 1 .. Len(n) - 1 : n[i] = Underscore /\ n[i + 1] = Underscore

(* The names that validate admits ("invariants the router relies on",      *)
(* config.rs:53) keep the tools of different upstreams apart, provided     *)
(* that none contains the separator or ends with half of it.               *)
PrefixesAreApart ==
  start = "ready" /\ (\A i \in DOMAIN specs :
                         ~HasSeparator(specs[i] \o <<Underscore>>)) =>
    \A i, j \in DOMAIN specs, t, u \in Tools :
      Shown(specs[i], t) = Shown(specs[j], u) => i = j
=============================================================================
