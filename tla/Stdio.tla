------------------------------- MODULE Stdio -------------------------------
(***************************************************************************)
(* Stdio mode from the first line to the exit (main in                     *)
(* src/Shrink/src/main.rs, the pumps of src/Shrink/src/proxy.rs): one      *)
(* task reads the client's lines and puts each on the channels of the      *)
(* upstreams it is for, a write pump per upstream moves them into its      *)
(* stdin, a read pump per upstream moves its lines to the client's         *)
(* channel, and the client's write pump moves those to stdout.  Channels   *)
(* are unbounded, pipes are not, and upstreams and client read when they   *)
(* like.  When the client's input ends, main waits 500 ms, aborts the      *)
(* client's write pump, shuts the session down and returns.                *)
(*                                                                         *)
(* What a line says, and what the router makes of it, is Router's matter:  *)
(* here a line has its upstreams and the number of lines by which each of  *)
(* them answers it, all of which the client gets.                          *)
(***************************************************************************)
EXTENDS Session, Startup, SequencesExt

CONSTANTS
  Scripts,   \* what the client may write
  Line,      \* the lines
  To,        \* To[l]: the upstreams that line l is for
  Answers,   \* Answers[l]: how many lines one of them writes when it reads l
  Overlong,  \* lines over 16 MiB, or not UTF-8
  Torn,      \* the beginning of a line whose rest was not written
  Pipe,      \* lines that a pipe holds
  CanHang    \* upstreams that may stop reading and writing

ASSUME StdioAssumption ==
  /\ Sess # {}
  /\ Scripts \subseteq Seq(Line) /\ Overlong \subseteq Line
  /\ To \in [Line -> SUBSET Server] /\ Answers \in [Line -> Nat]
  /\ Torn \notin [from : Server, n : Nat \ {0}]
  /\ Pipe \in Nat \ {0} /\ CanHang \subseteq Server

VARIABLES
  script,    \* what the client writes
  written,   \* how many lines of it, and whether its end of stdin is open
  taken,     \* how many of these the reader task has read
  hand,      \* upstreams that the line read last is still to be handed to
  queue,     \* to_upstream: numbers of lines
  stdin,     \* the pipe to each upstream
  heard,     \* what each upstream has read
  todo,      \* lines it has to write before it reads on
  made,      \* lines it has written
  stdout,    \* the pipe from each upstream
  hung,      \* upstreams that neither read nor write any more
  toClient,  \* the to_client channel: an upstream and the number of its line
  hold,      \* what the client's write pump has given to the stdout thread
  out,       \* the gateway's own stdout
  got,       \* what the client has read of it
  deaf,      \* the client reads no more
  drain      \* how far main has come after the end of the client's input

clientVars   == <<script, written, got, deaf>>
upstreamVars == <<stdin, heard, todo, made, stdout, hung>>
gateVars     == <<taken, hand, queue, toClient, hold, out, drain>>
ioVars  == <<clientVars, upstreamVars, gateVars>>
allVars == <<sessionVars, startVars, ioVars>>

main == CHOOSE x \in Sess : TRUE
Frame == [from : Server, n : Nat \ {0}] \cup {Torn}

IoTypeOK ==
  /\ script \in Scripts
  /\ written \in [n : Nat, open : BOOLEAN]
  /\ taken \in Nat
  /\ hand \subseteq Server
  /\ {queue, stdin, heard} \subseteq [Server -> Seq(Nat)]
  /\ {todo, made} \subseteq [Server -> Nat]
  /\ stdout \in [Server -> Seq(Nat)]
  /\ \A s \in Server : Len(stdin[s]) <= Pipe /\ Len(stdout[s]) <= Pipe
  /\ hung \subseteq CanHang
  /\ {toClient, hold, out, got} \subseteq Seq(Frame)
  /\ Len(hold) <= 1 /\ Len(out) <= Pipe
  /\ deaf \in BOOLEAN
  /\ drain \in {"no", "draining", "over", "exited"}

TypeOK == SessionTypeOK /\ StartTypeOK /\ IoTypeOK

Init ==
  /\ SessionInit /\ StartInit
  /\ script \in Scripts
  /\ written = [n |-> 0, open |-> TRUE]
  /\ taken = 0
  /\ hand = {}
  /\ queue = [s \in Server |-> <<>>]
  /\ stdin = [s \in Server |-> <<>>]
  /\ heard = [s \in Server |-> <<>>]
  /\ todo = [s \in Server |-> 0]
  /\ made = [s \in Server |-> 0]
  /\ stdout = [s \in Server |-> <<>>]
  /\ hung = {}
  /\ toClient = <<>>
  /\ hold = <<>>
  /\ out = <<>>
  /\ got = <<>>
  /\ deaf = FALSE
  /\ drain = "no"

-----------------------------------------------------------------------------
(* main: start, launch, or serve SSE instead.                              *)

Parse == StartNext /\ UNCHANGED <<sessionVars, ioVars>>

(* With --listen the gateway goes on as in Sse; it fails if it is built    *)
(* without the feature or cannot bind, which it never can to "".           *)
Listen ==
  /\ start = "ready" /\ cli.listen # NotGiven
  /\ start' \in {"listening", "failed"} /\ (cli.listen = "" => start' = "failed")
  /\ UNCHANGED <<asked, argv, cli, dashes, file, tier, specs, sessionVars, ioVars>>

(* From here on the command line and the file are not looked at.  Bound:   *)
(* the model goes on with NServers upstreams only.                         *)
BeginLaunch ==
  /\ start = "ready" /\ cli.listen = NotGiven /\ Len(specs) = NServers
  /\ start' = "launched"
  /\ asked' = <<>> /\ argv' = <<>> /\ cli' = NoCli /\ dashes' = FALSE
  /\ tier' = "none" /\ specs' = <<>>
  /\ file' = NoFile
  /\ Launch(main)
  /\ UNCHANGED ioVars

Spawn == Launching(main) /\ UNCHANGED <<startVars, ioVars>>

(* The error of launch is main's, and the process ends; whether the        *)
(* children that run then do so too is up to them.                         *)
ExitFailed ==
  /\ stage[main] = "failed" /\ drain # "exited"
  /\ drain' = "exited"
  /\ UNCHANGED <<sessionVars, startVars, clientVars, upstreamVars, taken, hand, queue,
                 toClient, hold, out>>

-----------------------------------------------------------------------------
(* The client.                                                             *)
Write ==
  /\ stage[main] = "live" /\ written.open /\ written.n < Len(script)
  /\ written' = [written EXCEPT !.n = @ + 1]
  /\ UNCHANGED <<sessionVars, startVars, script, got, deaf, upstreamVars, gateVars>>

CloseInput ==
  /\ stage[main] = "live" /\ written.open
  /\ written' = [written EXCEPT !.open = FALSE]
  /\ UNCHANGED <<sessionVars, startVars, script, got, deaf, upstreamVars, gateVars>>

Read ==
  /\ out # <<>> /\ ~deaf
  /\ got' = Append(got, Head(out))
  /\ out' = Tail(out)
  /\ UNCHANGED <<sessionVars, startVars, script, written, deaf, upstreamVars, taken, hand,
                 queue, toClient, hold, drain>>

GoDeaf ==
  /\ ~deaf
  /\ deaf' = TRUE
  /\ UNCHANGED <<sessionVars, startVars, script, written, got, upstreamVars, gateVars>>

-----------------------------------------------------------------------------
(* The client's read pump: read_pump with on_client_frame.                 *)
IsUp == stage[main] = "live" /\ drain = "no"

IsBad(k) == script[k] \in Overlong

TakeLine ==
  /\ IsUp /\ hand = {} /\ taken < written.n /\ ~IsBad(taken + 1)
  /\ taken' = taken + 1
  /\ hand' = To[script[taken + 1]]
  /\ UNCHANGED <<sessionVars, startVars, clientVars, upstreamVars, queue, toClient, hold, out,
                 drain>>

AtWork(task) == task = "running" \/ task = "aborting"

(* The channel of an upstream whose write pump has ended takes nothing,    *)
(* which is ignored.                                                       *)
PumpRuns(s) == AtWork(writer[main][s])

(* Bug: the reader waits until the upstream has taken the line before.     *)
HandBounded(s) ==
  /\ s \in hand /\ \A t \in hand : s <= t
  /\ PumpRuns(s) => queue[s] = <<>>
  /\ hand' = hand \ {s}
  /\ queue' = IF PumpRuns(s) THEN [queue EXCEPT ![s] = Append(@, taken)] ELSE queue
  /\ UNCHANGED <<sessionVars, startVars, clientVars, upstreamVars, taken, toClient, hold, out,
                 drain>>

Hand(s) ==
  /\ s \in hand /\ \A t \in hand : s <= t
  /\ hand' = hand \ {s}
  /\ queue' = IF PumpRuns(s) THEN [queue EXCEPT ![s] = Append(@, taken)] ELSE queue
  /\ UNCHANGED <<sessionVars, startVars, clientVars, upstreamVars, taken, toClient, hold, out,
                 drain>>

(* Bug: a closed input counts as read.                                     *)
InputEndsUnread ==
  /\ IsUp /\ hand = {}
  /\ (taken < written.n /\ IsBad(taken + 1)) \/ ~written.open
  /\ drain' = "draining"
  /\ UNCHANGED <<sessionVars, startVars, clientVars, upstreamVars, taken, hand, queue,
                 toClient, hold, out>>

(* The reader task comes to the end of the input, or to a line that the    *)
(* codec refuses, which main takes for the end as well.                    *)
InputEnds ==
  /\ IsUp /\ hand = {}
  /\ IF taken < written.n THEN IsBad(taken + 1) ELSE ~written.open
  /\ drain' = "draining"
  /\ UNCHANGED <<sessionVars, startVars, clientVars, upstreamVars, taken, hand, queue,
                 toClient, hold, out>>

-----------------------------------------------------------------------------
(* The upstreams, and the pumps to and from them.                          *)

(* Bug: the line that came last goes first.                                *)
PumpLast(s) ==
  /\ PumpRuns(s) /\ drain # "exited" /\ child[main][s] = "running"
  /\ queue[s] # <<>> /\ Len(stdin[s]) < Pipe
  /\ stdin' = [stdin EXCEPT ![s] = Append(@, Last(queue[s]))]
  /\ queue' = [queue EXCEPT ![s] = Front(@)]
  /\ UNCHANGED <<sessionVars, startVars, clientVars, heard, todo, made, stdout, hung, taken,
                 hand, toClient, hold, out, drain>>

(* write_pump; the line it has in hand is still counted to the queue.      *)
Pump(s) ==
  /\ PumpRuns(s) /\ drain # "exited" /\ child[main][s] = "running"
  /\ queue[s] # <<>> /\ Len(stdin[s]) < Pipe
  /\ stdin' = [stdin EXCEPT ![s] = Append(@, Head(queue[s]))]
  /\ queue' = [queue EXCEPT ![s] = Tail(@)]
  /\ UNCHANGED <<sessionVars, startVars, clientVars, heard, todo, made, stdout, hung, taken,
                 hand, toClient, hold, out, drain>>

Lives(s) == child[main][s] = "running" /\ s \notin hung

UpstreamReads(s) ==
  /\ Lives(s) /\ todo[s] = 0 /\ stdin[s] # <<>>
  /\ heard' = [heard EXCEPT ![s] = Append(@, Head(stdin[s]))]
  /\ stdin' = [stdin EXCEPT ![s] = Tail(@)]
  /\ todo' = [todo EXCEPT ![s] = Answers[script[Head(stdin[s])]]]
  /\ UNCHANGED <<sessionVars, startVars, clientVars, made, stdout, hung, gateVars>>

UpstreamWrites(s) ==
  /\ Lives(s) /\ todo[s] > 0 /\ reader[main][s] # "ended" /\ Len(stdout[s]) < Pipe
  /\ made' = [made EXCEPT ![s] = @ + 1]
  /\ stdout' = [stdout EXCEPT ![s] = Append(@, made[s] + 1)]
  /\ todo' = [todo EXCEPT ![s] = @ - 1]
  /\ UNCHANGED <<sessionVars, startVars, clientVars, stdin, heard, hung, gateVars>>

(* Nobody reads what it writes any more.                                   *)
UpstreamWriteFails(s) ==
  /\ Lives(s) /\ todo[s] > 0 /\ reader[main][s] = "ended"
  /\ todo' = [todo EXCEPT ![s] = @ - 1]
  /\ UNCHANGED <<sessionVars, startVars, clientVars, stdin, heard, made, stdout, hung, gateVars>>

Hang(s) ==
  /\ s \in CanHang \ hung /\ child[main][s] = "running"
  /\ hung' = hung \cup {s}
  /\ UNCHANGED <<sessionVars, startVars, clientVars, stdin, heard, todo, made, stdout, gateVars>>

(* read_pump with on_upstream_frame.                                       *)
TakeAnswer(s) ==
  /\ AtWork(reader[main][s]) /\ drain # "exited" /\ stdout[s] # <<>>
  /\ toClient' = Append(toClient, [from |-> s, n |-> Head(stdout[s])])
  /\ stdout' = [stdout EXCEPT ![s] = Tail(@)]
  /\ UNCHANGED <<sessionVars, startVars, clientVars, stdin, heard, todo, made, hung, taken,
                 hand, queue, hold, out, drain>>

Exits(s) == ChildExits(main, s) /\ UNCHANGED <<startVars, ioVars>>

(* A read pump ends alone: at the end of the output, or at a line that the *)
(* codec refuses, before lines that nobody will read.                      *)
ReadPumpEnds(s) ==
  /\ drain # "exited"
  /\ ReaderEnds(main, s) \/ ReaderStops(main, s)
  /\ UNCHANGED <<startVars, ioVars>>

(* A write pump ends alone when it cannot write a line, as the upstream    *)
(* has closed its input with what was in the pipe, or when it can get none *)
(* any more; what is on the channel is dropped.                            *)
WritePumpEnds(s) ==
  /\ drain # "exited"
  /\ WriterEnds(main, s) /\ (queue[s] # <<>> \/ RouterDropped(main))
  /\ queue' = [queue EXCEPT ![s] = <<>>]
  /\ stdin' = [stdin EXCEPT ![s] = <<>>]
  /\ UNCHANGED <<startVars, clientVars, heard, todo, made, stdout, hung, taken, hand, toClient,
                 hold, out, drain>>

(* It was asked to stop, and does so between two lines or within one,      *)
(* which is then no line.                                                  *)
WritePumpStops(s) ==
  /\ drain # "exited"
  /\ WriterStops(main, s)
  /\ queue' = [queue EXCEPT ![s] = <<>>]
  /\ UNCHANGED <<startVars, clientVars, upstreamVars, taken, hand, toClient, hold, out, drain>>

-----------------------------------------------------------------------------
(* The client's write pump, and the thread that writes to stdout for it.   *)
(* Bug: the pump does not wait until the thread has written the line.      *)
SendOutUnflushed ==
  /\ stage[main] = "live" /\ drain \in {"no", "draining"}
  /\ toClient # <<>>
  /\ hold' = <<Head(toClient)>>
  /\ toClient' = Tail(toClient)
  /\ UNCHANGED <<sessionVars, startVars, clientVars, upstreamVars, taken, hand, queue, out,
                 drain>>

SendOut ==
  /\ stage[main] = "live" /\ drain \in {"no", "draining"}
  /\ toClient # <<>> /\ hold = <<>>
  /\ hold' = <<Head(toClient)>>
  /\ toClient' = Tail(toClient)
  /\ UNCHANGED <<sessionVars, startVars, clientVars, upstreamVars, taken, hand, queue, out,
                 drain>>

(* Once the pump is aborted, what the thread was not given yet of a long   *)
(* line is never written.                                                  *)
Flush ==
  /\ hold # <<>> /\ Len(out) < Pipe
  /\ \E f \in {hold[1]} \cup (IF drain \in {"over", "exited"} THEN {Torn} ELSE {}) :
       out' = Append(out, f)
  /\ hold' = <<>>
  /\ UNCHANGED <<sessionVars, startVars, clientVars, upstreamVars, taken, hand, queue, toClient,
                 drain>>

-----------------------------------------------------------------------------
(* main again.                                                             *)

(* The 500 ms are over, and the client's write pump is asked to stop.  The *)
(* step stands for its end: what main does next, it does to others, so it  *)
(* makes no difference if the pump has not quite ended by then.            *)
DrainEnds ==
  /\ drain = "draining"
  /\ drain' = "over"
  /\ UNCHANGED <<sessionVars, startVars, clientVars, upstreamVars, taken, hand, queue,
                 toClient, hold, out>>

EndSession ==
  /\ drain = "over"
  /\ AbortPumps(main) \/ KillChild(main) \/ ShutDown(main)
  /\ UNCHANGED <<startVars, ioVars>>

(* Bug: main does not wait for the children.                               *)
ExitAtOnce ==
  /\ stage[main] = "killing" /\ drain = "over" /\ hold = <<>>
  /\ drain' = "exited"
  /\ UNCHANGED <<sessionVars, startVars, clientVars, upstreamVars, taken, hand, queue,
                 toClient, hold, out>>

(* main returns; the runtime waits for the thread that writes to stdout.   *)
Exit ==
  /\ stage[main] = "down" /\ drain = "over" /\ hold = <<>>
  /\ drain' = "exited"
  /\ UNCHANGED <<sessionVars, startVars, clientVars, upstreamVars, taken, hand, queue,
                 toClient, hold, out>>

-----------------------------------------------------------------------------
Ends(s) == ReadPumpEnds(s) \/ WritePumpEnds(s) \/ WritePumpStops(s)
Gate(s) == Hand(s) \/ Pump(s) \/ TakeAnswer(s) \/ Ends(s)
Upstream(s) == UpstreamReads(s) \/ UpstreamWrites(s) \/ UpstreamWriteFails(s)

Next ==
  \/ Parse \/ Listen \/ BeginLaunch \/ Spawn \/ ExitFailed
  \/ Write \/ CloseInput \/ Read \/ GoDeaf
  \/ TakeLine \/ InputEnds \/ SendOut \/ Flush \/ DrainEnds \/ EndSession \/ Exit
  \/ \E s \in Server : Gate(s) \/ Upstream(s) \/ Hang(s) \/ Exits(s)

(* Every task of the gateway that can go on does, and time passes; an      *)
(* upstream that is not hung reads and writes; a client that is not deaf   *)
(* reads.  It need not write anything or close its end.                    *)
Fairness ==
  /\ WF_allVars(BeginLaunch) /\ WF_allVars(Spawn) /\ WF_allVars(TakeLine)
  /\ WF_allVars(InputEnds) /\ WF_allVars(SendOut) /\ WF_allVars(Flush)
  /\ WF_allVars(DrainEnds) /\ WF_allVars(EndSession) /\ WF_allVars(Exit)
  /\ WF_allVars(Read)
  /\ \A s \in Server :
       /\ WF_allVars(Hand(s)) /\ WF_allVars(Pump(s)) /\ WF_allVars(TakeAnswer(s))
       /\ WF_allVars(Upstream(s))

Spec == Init /\ [][Next]_allVars /\ Fairness

-----------------------------------------------------------------------------
(* Properties.                                                             *)

(* The lines of the client that have been handed to upstream s.            *)
Handed(s) == {k \in 1 .. taken : s \in To[script[k]] /\ (k = taken => s \notin hand)}

(* q holds the numbers of set S in their order, each once.                 *)
Increasing(q)    == \A i, j \in DOMAIN q : i < j => q[i] < q[j]
Enumerates(q, S) == Increasing(q) /\ ToSet(q) = S

(* An upstream hears exactly what the router has for it, in the client's   *)
(* order (`initialized` after `initialize`, a call after both), up to      *)
(* some line, and nothing is lost on the way as long as its child and its  *)
(* write pump run.                                                         *)
UpstreamHearsInOrder ==
  \A s \in Server :
    /\ Enumerates(heard[s], {k \in Handed(s) : \E h \in ToSet(heard[s]) : k <= h})
    /\ child[main][s] = "running" /\ PumpRuns(s) =>
         Enumerates(heard[s] \o stdin[s] \o queue[s], Handed(s))

(* The numbers of the lines of upstream s among frames.                    *)
Numbers(s, frames) ==
  {frames[i].n : i \in {j \in DOMAIN frames : frames[j] # Torn /\ frames[j].from = s}}

(* Each line comes after all lines that its upstream wrote before it, and  *)
(* before any other.                                                       *)
InTurn(frames) ==
  \A i \in DOMAIN frames : frames[i] # Torn =>
    Numbers(frames[i].from, SubSeq(frames, 1, i - 1)) = 1 .. frames[i].n - 1

(* What is on the way to the client, as far as the client's write pump has *)
(* got it, and all of it.                                                  *)
Issued == got \o out \o hold
OnWay  == Issued \o toClient

(* The client gets each upstream's lines in the order they were written,   *)
(* none twice, none left out, and all whole until the 500 ms are over;     *)
(* then some are lost, but always the last ones, and what is cut off is    *)
(* the very end.                                                           *)
ClientHearsInOrder ==
  /\ InTurn(got \o out)
  /\ \A s \in Server : Numbers(s, got \o out) \subseteq 1 .. made[s]
  /\ drain \in {"no", "draining"} =>
       /\ InTurn(OnWay)
       /\ \A s \in Server : LET left == made[s] - Len(stdout[s]) IN
            /\ Numbers(s, OnWay) = 1 .. left
            /\ \A i \in DOMAIN stdout[s] : stdout[s][i] = left + i
  /\ \A i \in DOMAIN (got \o out) :
       (got \o out)[i] = Torn => i = Len(got \o out) /\ drain \in {"over", "exited"}

(* The wait begins only when every line up to the end, or up to a line     *)
(* that cannot be read, is on its way; and when the gateway has gone no    *)
(* upstream of its runs (session.rs:25-26).                                *)
NothingIsLeftBehind ==
  /\ drain # "no" /\ stage[main] # "failed" =>
       /\ hand = {}
       /\ taken = written.n \/ IsBad(taken + 1)
  /\ drain = "exited" /\ stage[main] # "failed" =>
       \A s \in Server : "running" \notin {child[main][s], reader[main][s], writer[main][s]}

(* A line gets through to an upstream that reads, whatever the others and  *)
(* the client do: one that hangs, or a client that does not read, holds up *)
(* nobody else, and a line that the codec refuses does not stop the lines  *)
(* to the upstream that wrote it.                                          *)
Gone(s) ==
  \/ s \in hung \/ child[main][s] # "running" \/ writer[main][s] = "ended"
  \/ drain # "no"

LinesGetThrough ==
  \A s \in Server, k \in 1 .. 3 :
    (k <= taken /\ s \in To[script[k]]) ~> (Gone(s) \/ k \in ToSet(heard[s]))

(* The end of the client's input ends everything, whatever the upstreams   *)
(* do: the children are killed, and the process exits unless the client    *)
(* leaves its last output unread.                                          *)
ClosingEndsAll ==
  /\ ~written.open ~> stage[main] = "down"
  /\ ~written.open ~> (drain = "exited" \/ deaf)
=============================================================================
