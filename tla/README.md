# Shrink: a verification development

TLA+ models of Shrink (`mcp-token-gateway`, the Rust crate under
`src/Shrink`), an MCP gateway: one client (an AI agent) on one side, N upstream
MCP servers on the other, JSON-RPC frames between them. The gateway merges the
upstreams' tool lists into one, compacts their schemas, and sends each tool call
to the upstream that owns the tool, after checking its arguments against the
schema it kept.

Contents: [inventory](#1-inventory), [plan](#2-plan), [modules](#3-modules),
[runs](#4-runs), [fairness](#5-fairness), [proofs](#6-proofs),
[findings](#7-findings), [what is not modelled](#8-what-is-not-modelled).

## 1. Inventory

| component | source | state | operations |
|---|---|---|---|
| router | `router.rs` | per upstream: an id counter and a map id → what to do with the response; fan-outs by number; namespaced tool → upstream; the channels | `on_client_frame` (dispatch, `fanout`, `forward_to`, `handle_tools_call`, `broadcast`), `on_upstream_frame` (translate, `collect_fanout`, `merge_tools_list`, `merge_initialize`) |
| ledger | `ledger.rs` | namespaced tool → original schema | `record`, `get` |
| pumps | `proxy.rs` | a framed stream, a queue | `read_pump`, `write_pump` |
| session | `session.rs` | child processes, reader and writer tasks | `launch`, `shutdown` |
| stdio main | `main.rs` | command line, two client tasks | `parse_args`, `resolve`, run, drain, shut down |
| SSE | `sse.rs` | sessions by id, a session counter | GET `/sse`, POST `/messages`, the cleanup task, `/health`, `/metrics` |
| validator | `validator.rs` | none (pure) | `validate`, `rehydrate` |
| compactor | `compactor.rs` | none (pure) | `compact_schema`, `compact_jsonschema`, `truncate` |
| configuration | `config.rs` | none (pure) | `load`, `validate` |
| telemetry | `metrics.rs` | eight atomic counters | `record_*`, `session_*`, `render` |
| protocol helpers | `protocol.rs` | none | dead code |

**How they interact.** `launch` makes one unbounded channel to each upstream,
one router, and for each upstream a child process, a reader task
(`read_pump`, which calls `on_upstream_frame` for each line) and a writer task
(`write_pump`, which drains the channel into the child's stdin). The client's
frames come from one reader task on stdin (stdio mode) or from one task per POST
(SSE mode), which call `on_client_frame`. The router is synchronous: within a
call nothing is awaited, it only touches concurrent maps, atomic counters and
the sending ends of channels. What it sends to the client goes through one more
unbounded channel, drained by a writer task into stdout or by an SSE stream.

**What is hard.** The tokio runtime has several worker threads, so all those
calls run in parallel and interleave at each map operation. Responses come in
any order, late, twice or never. A fan-out ends when the last of N threads
says so. A tool call looks two maps up while a merge on another thread writes
them. There is no timeout and no error path when an upstream dies. Sessions in
SSE mode are set up, used and torn down by three kinds of tasks.

**What makes each component correct.**

* router: every request is answered once, with its own answer; a merged answer
  holds all parts; ids in flight are not reused; nothing is left in the maps;
  calls go to the owner of the tool; what was advertised can be called.
* ledger: a call is validated by a schema that its upstream published, and by
  the one the client saw last.
* pumps, session, stdio: a frame that was accepted is written, in order, unless
  its stream ended; no child outlives its session.
* SSE: a session in the map has a live router; the session gauge counts sessions.
* validator: `rehydrate` changes nothing that the schema constrains.
* compactor: the compacted schema accepts what the original accepts.
* configuration: namespaced names are unambiguous.
* telemetry: the counters agree with what the router did, and an exposition shows at least what its
  reader has been told already, though it is made up of loads at different moments and in no order.

The full list of hazards, each with its line, is in `PROJECT.json`.

## 2. Plan

The order was: the router first, where everything meets; what it promises; the sessions around it; the
pure parts; then the process around the sessions.

1. `Router` (router, ledger, reader tasks, the client's handlers); `RouterInv` and `RouterProofs`, `ToolInv`
   and `ToolProofs`: its inductive invariants and the proofs.
2. `Gateway`, what the router promises a client, with no ids and no maps, and
   `RouterGateway`, the refinement mapping, checked in `router_ids` and proved in `GatewayProofs`.
3. `Session` (launch and shutdown) and `Sse`, which composes it with the handlers,
   the cleanup task and the gauge of SSE mode; `SseInv` and `SseProofs`, its proofs.
4. `Schemas`: the validator, the compactor and the signature, as recursive functions over JSON trees, and
   `SchemaProofs`, the proofs.
5. `Telemetry`, which EXTENDS `Router`: the counters, beside the steps that they count; `MeterInv` and
   `TelemetryProofs`, its invariant and the proofs.
6. `Cancellation`, which EXTENDS `Router`: the notification that names a request.
7. `Startup` (command line and configuration) and `Stdio`, which composes it with `Session` and the pumps, from
   the command line to the exit; `StartupInv` and `StdioInv`, their invariants, `StartupProofs` and
   `StdioProofs`, the proofs.
8. `Relay`, what stdio mode promises, with no channels, pumps or pipes, and `StdioRelay`, the refinement
   mapping, checked in `stdio` and proved in `StdioProofs`.

Left: server-initiated requests with the client's answers to them, for which the code promises
nothing (`router.rs:321-322`).

## 3. Modules

**`Router`** has one variable per shared structure of `struct Router`
(`nextId` = `upstream_next_id`, `pending` = `upstream_pending`, `fanouts`,
`fanNext` = `fanout_next_id`, `routing`, `ledger`), one for the frames sent on
each kind of channel (`toClient`, `sent`), and the local state of the tasks: `pc` and
`loc` for the handler of each client request, `up` for the reader task of each
upstream, `silent` for the upstreams that answer no more, `closed` for those whose writer task has ended.

| action | code |
|---|---|
| `OpenFanout`, `ForwardOther`, `RejectNameless`, `RejectUnknown`, `Resolve` | the dispatch of `on_client_frame` up to the first insertion into a shared map |
| `PassUnchecked`, `PassRehydrated`, `RejectArgs` | the ledger lookup and `validator::rehydrate` |
| `ReplyInvalid` | `reply_invalid_params`: the error of a call that was turned down is sent, after that was decided (and counted, in `Telemetry`) |
| `Register` | `fetch_add` on the id counter and the insertion into `upstream_pending` |
| `Send` | the frame goes on the upstream's channel, or is lost with the ignored error if that is closed; a fan-out goes on to the next upstream |
| `ForwardReply`, `Collect`, `CollectLast` | `on_upstream_frame`: the entry is removed; the response is forwarded, or put into its slot under the fan-out's mutex |
| `Close`, `Record`, `Route`, `SendMerged` | the rest of `collect_fanout`: removal of the fan-out, `merge_tools_list` tool by tool (ledger, then routing), the merged reply |
| `Crash`, `WriterEnds` | an upstream dies, closes its output or hangs; a write to it fails, and the writer task drops the receiving end of its channel |

Granularity: one step is one operation on a shared structure. Two are joined only where
no other thread can see the state in between: the id drawn in `Register` is
known to nobody before its entry is in the map, since an upstream answers only ids that it was
sent; and only the reader task of upstream s removes entries of s, so its
removal can be joined with what it does next under a lock. The clause
`fanouts[f] = NoFanOut` of `Collect` is the code's early return; the model keeps it, and
`FanOutAccounting` shows that it is never taken.

Data: schemas, arguments and tool names are model values; `Rehydrate` and
`Namespaced` are parameters, so the same module serves names that are
injective and names that are not. A tools/list answer is a function from
bare names to schemas or `NoSchema`; an error answer, or one without
`result.tools`, lists nothing. The tier matters only through `Checked` (whether
arguments are validated); the rewriting of the list per tier is the compactor's.
A reply records the upstream and the request its content comes from, which is
not in the frame: it is what the properties are about. `toClient` and `sent` grow only
(what was sent); the order on `toClient` is the order in which the client gets the frames.

**`RouterInv`** has the inductive invariant of ids, entries and fan-outs, **`ToolInv`** those of routes,
schemas and calls, and of the ledger with one upstream, **`MCRouter`** the instances for TLC, **`RouterProofs`** and **`ToolProofs`** the proofs.

**`Cancellation`** EXTENDS `Router` with `notifications/cancelled`, the one notification whose content matters to
the router's promise: `Cast` is `broadcast`, channel by channel; `ClientId` are the ids that the client
gives its requests; what an upstream does on hearing it (`Drop`) is MCP's, not this repository's.

**`Telemetry`** EXTENDS `Router` with the counters of `metrics.rs`. `CountTotal` and `CountPart` are the two
additions of `record_call_forwarded` and `record_call_rejected`, `CountList`, `CountBefore`, `CountAfter` the three of
`record_discovery`. `MeteredStart`, `MeteredHandle`, `MeteredMerge` and `MeteredRespond` are the router's steps, where the
code has them among the additions: a rejection is counted before its error is sent, a call after its frame is, a list before
its reply. A tool has `Full` tokens before and `Short` after compaction, the list `Envelope` more: enough for
the sums to move apart and for a list to grow by compaction.

All operations on the counters are `Relaxed`, and the model promises no more than that. An addition is one atomic step on the
latest value, so each counter has one history (`past`); that is all the order there is. A load returns any value of this
history that is not older than what its task must know of (`Loads`), and loads of different counters, or additions to
them, have no order that another task could rely on. What a task must know of comes through the channel to the client, whose sends and receives
do synchronise: `view` is what the task of a request has left in each counter, `carried` what a frame takes along of
that when it is sent. A scrape that is asked for by someone who has received n frames is later than those n
sends; that the socket and the runtime order "frame received" before "scrape asked for" is the assumption here. A scrape changes
nothing, so `ScrapeIsCurrent` speaks of all values that one could show in each state, for each n. There is one router, though in
SSE mode the sessions share the counters: those of the others only add to the sums.
**`MeterInv`** has the inductive invariant, **`TelemetryProofs`** the proofs.

**`Gateway`** is the router seen by one client: a request is put to its upstreams (`Ask`), they answer
(`Hear`, `PassOn`), it is answered once with what they said (`SendMerge`, `PassOn`) or turned down
before any upstream has heard of it (`Reject`). **`RouterGateway`** maps a state of `Router` to one of
`Gateway`: what was asked is in the channels; what was heard is in the slots of a fan-out, then in
the reader task that merges it, then in the reply. `ImplementsGateway` is `Gateway`'s specification
under this mapping, **`GatewayProofs`** the proof that it holds.

**`Session`** has, for each session, how far `launch` or `shutdown` has come, its child processes and
its tasks, a reader and a writer for each child. They end apart from each other: `ReaderEnds` at the end of the output or at a line
that the codec refuses, `WriterEnds` when a write fails or when nobody holds the router any more (`RouterDropped`).
`SpawnFails` is the early return of `launch`: what was spawned before stays as it is.
`AbortPumps`, `KillChild`, `ShutDown` are `shutdown`, which asks the tasks to stop without waiting for that
(`ReaderStops`, `WriterStops`: one that was asked goes on until it yields), and then waits for each child in turn. **`Sse`**
EXTENDS it with SSE mode:

| action | code |
|---|---|
| `Connect`, `Spawn`, `GiveUp`, `SpawnCleanup`, `Insert`, `Count` | `sse_handler`: the id is drawn, the session launched (or an error streamed), the cleanup task spawned, the session inserted into the map and counted |
| `Disconnect` | the client goes away and the response stream, with the guard in it, is dropped |
| `RemoveSession`, `Abort`, `Kill`, `End` | the cleanup task: it waits for the guard, removes the session, shuts it down, counts it down |
| `Ends`, `Stops` | a child exits, a reader or a writer task returns by itself; one that was asked to stop does |
| `Lookup`, `Dispatch` | `message_handler`: the session is cloned out of the map, later its router sends the frame on a channel, or loses it if the writer task is over |

`sse_handler` awaits nothing, so hyper cannot drop it halfway, and a client that has gone before it
returns is noticed only then: `Disconnect` comes after `Count`. A POST is made by a client that was
told its id (the first event of the stream). **`SseInv`** has the inductive invariant, **`MCSse`** the
instance for TLC, **`SseProofs`** the proofs. The code behind the `sse` feature does not build as
committed (`StreamExt` is not imported, the two returns of `sse_handler` have different types);
the model is of what it says.

**`Schemas`** has JSON values as records tagged with their kind (a number is an integer or a float, as in serde_json: `const` and `enum` tell
1 from 1.0, `minLength` and the other sizes must be integers, `minimum` need not), `Valid` (`validate_at`),
`StripOptionalNulls`, `Rehydrate` (`validator.rs`), `CompactJsonschema` (`compactor.rs`) and
`Shown` (the tiers of `compact_tools_for_tier`), and a machine that lists one tool and calls it
once. `TsType` and the operators around it are the signature that tier high writes into the
description, as the type that a reader of TypeScript takes it for (`Either` and `Both` join without
parentheses, as the code does, and `&` binds closer).

What is recursive in the code is here a recursive function on the set `Json` of all values that can occur, a constant,
so that there can be proofs about it: each level is an operator of its own (`ValidAt`, `Stripped`, `Compacted`, `TypeText`),
which takes the function and applies it to the parts of a value. `Depth` says how deep a value is nested; `JsonAssumption`
that its parts are less deep and that no value is deeper than `MaxDepth`, since serde_json refuses to read what is
nested more than 128 times; `ClosedAssumption` that what compaction and stripping make of JSON is in `Json` too.
**`MCSchemas`** has the instances: schemas, arguments, and as `Json` their parts, their compactions and the arguments with
some nulls left out. Its `TheoremsApply`, which TLC evaluates, says that the hypotheses of the theorems are true of
those schemas. **`SchemaProofs`** has the proofs.

**`Startup`** is `parse_args`, token by token (`TakeCommand`, `TakeDashes`, `Tell`, `TakeVerbose`, `TakeOption`,
`RejectToken`, `RejectLine`, `Accept`), and `resolve` with `GatewayConfig::load` and `validate`
(`ResolveFile`, `RejectFile`, `ResolveCommand`). A token is an option, bare or with `=` and a value, or a
word (what it may say is the constant `Words`); a value may be empty (`--config=`), which is not the same as none (`NotGiven`); a file has the right shape for serde or not, and names are sequences of characters, since tool names
are made from them. **`Stdio`** composes it with `Session`:

| action | code |
|---|---|
| `Parse`, `Listen`, `BeginLaunch`, `Spawn`, `ExitFailed` | `main` up to the two client tasks, or to the error of `launch` |
| `TakeLine`, `Hand`, `InputEnds` | the client's reader task: `read_pump`, and the sends of `on_client_frame` one by one; the end of stdin, or a line that the codec refuses |
| `Pump`, `TakeAnswer`, `ReadPumpEnds`, `WritePumpEnds`, `WritePumpStops` | `write_pump` and `read_pump` of an upstream, and the end of each, with its own pipe or by `shutdown` |
| `SendOut`, `Flush` | the client's `write_pump`, and the thread by which tokio writes to stdout |
| `DrainEnds`, `EndSession`, `Exit` | the 500 ms, the abort of the writer, `shutdown`, the return of `main` |
| `Write`, `CloseInput`, `Read`, `GoDeaf`, `UpstreamReads`, `UpstreamWrites`, `UpstreamWriteFails`, `Hang`, `Exits` | the client and the upstreams |

A line here has the upstreams that it is for and the number of lines that answer it; what it says is
`Router`'s matter. **`StartupInv`** and **`StdioInv`** have the inductive invariants, **`MCStdio`** is the
instance for TLC, **`StartupProofs`** and **`StdioProofs`** have the proofs.

**`Relay`** is stdio mode seen from outside: a session starts all its upstreams (`Start`, `Serve`) or fails (`Fail`); the
client offers lines and the gateway reads them (`Offer`, `Take`); an upstream hears the next line that is for it (`Hear`: all
that it has heard and no other comes before) and says lines (`Say`), of which the client hears the next (`Tell`);
the session closes when all that was offered is read, up to a line that cannot be (`Close`), and ends when no upstream is
up (`End`); at the end a line may be cut off, once, with nothing after it (`Cut`). **`StdioRelay`** maps a state of `Stdio`
to one of `Relay`: what is on a channel, with a pump, in a pipe or with the thread for stdout is neither heard nor
told yet; the phase is read off the session's stage and `main`'s (`Phase`), and an upstream is up while its child
runs (`UpOf`).

## 4. Runs

| run | what it asks | instance | states |
|---|---|---|---|
| `router_ids` | id translation and fan-out accounting; no upstream asked twice; the inductive invariant; the refinement of `Gateway` | 2 upstreams, one of which may fall silent or stop reading, 3 requests, each tools/list or another | 279 052 |
| `router_calls` | discovery and calls; the inductive invariant of the tables | 2 upstreams, 3 requests, each tools/list or a call of a tool of either; upstream 0 changes the tool's schema, upstream 1 may answer tools/list with an error | 2 737 274 |
| `router_single` | single-server mode; the inductive invariant of its ledger | 1 upstream, which may fall silent or stop reading, 3 requests, also initialize and a nameless call | 208 272 |
| `router_live` | every request is answered; the counters, with their inductive invariant | 2 upstreams, 2 requests, both upstreams may fall silent or stop reading at any time | 107 784 |
| `router_clash` | finding: colliding names | prefix `p` with tool `q__t`, prefix `p__q` with tool `t` | violated |
| `router_stale` | finding: stale ledger | 2 upstreams, 2 tools/list, client frames one at a time | violated |
| `router_cancel` | finding: a cancellation meets the wrong request | a client that numbers its requests from 0 | violated |
| `sse` | sessions set up, used and torn down; the inductive invariant | 2 connections, a POST by the first client, 2 upstreams per session, one that may fail to start, one that may exit or close a pipe | 439 289 |
| `sse_leak` | finding: orphans of a failed launch | the same | violated |
| `schemas` | compaction, rehydration, signatures | 261 schemas, 158 arguments, 4 tiers | 494 856 |
| `schemas_title` | finding: a parameter taken for metadata | tools with a parameter `title`, tier safe | violated |
| `stdio` | stdio mode from the command line to the exit; its inductive invariant; the refinement of `Relay` | 20 command lines, 12 files, 2 upstreams (one may fail to start, the other may exit, close a pipe or hang), 2 scripts | 344 476 |

The bounds. Two upstreams are enough for a fan-out to be half done, for two reader
tasks to race and for a response to come from the wrong one; three requests
for two fan-outs and a call in between. `MaxId` equals the number of requests, so
that no handler is ever stopped by it: a request draws one id per upstream at most.
Requests are interchangeable, so `router_ids`, `router_calls` and `router_single` use symmetry;
`router_live`, `router_cancel` and `stdio` do not, as symmetry is not sound for liveness, and the ids of the client tell its requests apart.
Deadlock is not checked: the gateway stops, rightly, when every request has been handled
and the upstreams have nothing more to say.

Two connections are enough for one to be set up, posted to or torn down in the midst of
another's cleanup, and two upstreams for a launch to fail halfway; one POST, since a POST changes nothing that another could see. The schemas have one or two
members, one of them possibly an object of its own, every keyword the validator reads in some leaf, but for tuples (`items` with a list of schemas), and
arguments that fit, fail by one thing, or hold nulls where they may and may not be; a defect
in one keyword shows at depth one, one in the recursion at depth two. The proofs have none of these bounds, and cover tuples, except in `SignatureCovers`.

In `stdio` a pipe holds one line (`Pipe`), so that two more make a writer wait, and a script has up to three
lines, of which the first is for one upstream only and one may be too long for the codec; each is answered by a line of every upstream it is for: enough for an order to go wrong, a pipe to fill up and an upstream to hang with lines on its
way. The command lines have each option in each form and with an empty value, `--` before, after and as the value of an option; the
files have each defect that `validate` looks for, and prefixes that are close to each other. The tools' names are all
names of up to three characters out of three, the separator's among them.

## 5. Fairness

`FairSpec` asks that a handler or a merge that can go on does (`WF_vars(Handle(r))`,
`WF_vars(Merge(s))`): the runtime polls every ready task and none of these steps waits
for anything. It asks that an upstream that is not silent answers each request it was sent,
as long as it reads, which is what an MCP server does; without that nothing could be answered. It does
not ask that the client starts a request, nor that an upstream ever falls silent, and
an upstream may repeat answers or give them in any order. `EveryRequestAnswered` excuses a request
only if an upstream it was for fell silent or stopped reading: there is no timeout in the code, and an error of a send is
ignored, so such a request is never answered and its entries stay for good.

In `Sse` the handler and the cleanup task of each connection are weakly fair: they are tasks of the
runtime, and what they wait for (a child's death by SIGKILL) comes. So is the stopping of a task that was asked
to stop (`Stops`): tokio drops it at its next await, and the pumps await for each line. That clients connect or disconnect,
or that children exit by themselves, is not assumed; `ClosedIsCleanedUp` starts from a disconnect.

`MeterFairness` is that of `Router` for the metered steps and the additions of the same task; nobody has to scrape.
In `Stdio` the tasks of the gateway are weakly fair, and so is the passing of the 500 ms; an upstream
that has not hung or exited reads and writes, a client that is not deaf reads. That the client writes or
closes its input, or that anyone hangs, exits or goes deaf, is not assumed: `LinesGetThrough` starts from a line that was
taken, `ClosingEndsAll` from the end of the input. A client that leaves its output unread can keep the
process from exiting (the runtime waits for the thread that writes), and that is in the property.

## 6. Proofs

`RouterProofs` holds for every number of upstreams, requests, ids and tools, from
`RouterAssumption` alone. `AtMostOneReply` and the others are not inductive: that a reply is the first one
depends on who still owes it. `IInv` says it: a request that is not answered is owed by
exactly one of its handler, its forward entry, its open fan-out or the reader task that merges it.
Its parts: ids still to be drawn have left no trace (`IdsAreFresh`); a handler visits
the upstreams in order and owns its fan-out (`HandlersAreOrdered`, `FanoutStaysOpen`); an entry is
in the map before its frame is sent, and a frame's id leads back to its request (`UnsentEntryIsKept`,
`EntriesMatchFrames`); forward entries, members, fan-outs and merges owe what they owe
(`ForwardsAreOwed`, `MembersAreOwed`, `OpenFanoutsAreOwed`, `MergesAreOwed`); nothing of an
answered request is at work (`RepliedIsDone`). `InitIInv` and `NextIInv` show that it is
inductive, the latter with one lemma for each action; TLC checks it first (`router_ids`).

| theorem | property |
|---|---|
| `Invariance` | `IInv` |
| `TypeCorrect` | `TypeOK` |
| `OneReply` | `AtMostOneReply` |
| `OwnReply` | `ReplyIsOwn` |
| `CompleteMerge` | `MergedReplyIsComplete` |
| `FanOutsAddUp` | `FanOutAccounting` |
| `MapsAreCleaned` | `NoLeftovers` |
| `EntriesKept` | `EntriesAreKept` |

`ToolProofs` is about the tables, from the same assumption. `TablesInv` says where everything comes from: what the
fan-outs and the merging tasks hold is what the upstreams published, and nothing where it was not asked for
(`FanoutsArePublished`, `MergesArePublished`); a merge has put in the ledger what it has in hand and has
routed what is neither to do nor in hand (`MergesAreInOrder`); a route leads to a tool of that name, a schema was
published for one (`RoutesAreOwn`, `SchemasArePublished`). That a handler looks at two maps while N tasks write them is
harmless because a merge records before it routes and no route is ever removed. What was advertised stays
at home, and what a handler has found out fits the call (`CallsAreRouted`), if no two tools have one
name (`NamesAreApart`, the hypothesis of several theorems): `router_clash` shows that it is needed.

`LastListedIsInForce` is false of two reader tasks (`router_stale`) and true of one. `LedgerInv` is why: a merge
that has not begun finds the ledger as the client was told (`ToldIsInForce`); one under way has recorded the
new schema of every tool that it has dealt with; and when it has dealt with all, the ledger is what the
reply is about to say. What breaks it with two upstreams is the step of the other merge, so `NServers = 1` is
the theorem's hypothesis, which is the command line mode's own (`-- command`).

| theorem | property |
|---|---|
| `TablesInvariance` | `TablesInv` |
| `RoutedRecorded` | `RoutedIsRecorded` |
| `HomeRouted` | `AdvertisedRoutesHome`, given `NamesAreApart` |
| `CallsIntended` | `CallIsIntended`, given `NamesAreApart` |
| `ToolsInvariance` | `ToolsInv`, given `NamesAreApart` |
| `LedgerInvariance` | `LedgerInv`, given `NamesAreApart` and one upstream |
| `LastListedInForce` | `LastListedIsInForce`, given the same |

`TelemetryProofs` is about the counters beside the router: every metered step is one of the router's, or an
addition that leaves the router alone, so `IInv` and `TablesInv` hold throughout and may be used. `MeterInvariant`
says what each counter counts, as the cardinality of a set that the steps enlarge one element at a time: the calls
counted as forwarded and as rejected (`CallsAreCounted`), who is counted when (`CallsAreOrdered`, `ListsAreOrdered`), where a call
that counts as forwarded may be one whose frame was lost; and what the history of each counter tells of the frames: a request's
additions are in its `view` (`ViewsAreCurrent`), a frame carries those of its request (`FramesAreCounted`), nobody has seen more
than the latest value (`LatestIsMost`), and two requests that have added one to a counter have left different values
(`ViewsAreApart`). The last is why a scrape after k rejections shows k of them at least: the values that these
have left are k different numbers above 0, none above what may be loaded, and no order of the loads is needed. For the sums of
tokens the claim is of each list alone. That the tools of a list are a finite set, and its tokens a number, comes
from the assumption `IsFiniteSet(Bare)`, which a list that fits in memory meets.

| theorem | property |
|---|---|
| `MeterInvariance` | `MeterInvariant` |
| `MeterTypeCorrect` | `MeterTypeOK`, a part of the former |
| `TrueCounts` | `CountsAreTrue` |
| `ScrapesAreCurrent` | `ScrapeIsCurrent` |

`GatewayProofs` rests on `IInv` and on `SentInOrder` (what was sent was sent by a handler that
has since gone on), which is needed to see that a frame sent is the first to its upstream and that a
rejected request was put to none. One lemma for each kind of step: `Send` is `Ask`, `Collect` and `CollectLast`
are `Hear`, `ForwardReply` is `PassOn`, `SendMerged` is `SendMerge`, the rejections are `Reject`; every other
step leaves the mapped state as it is, since the answers to a request are in one place at a time and
moved from the slots to the reader task, and from there to the reply, unchanged.

| theorem | property |
|---|---|
| `SentOrder` | `SentInOrder` |
| `Refinement` | `ImplementsGateway` |

`SseProofs` holds for every number of connections and of upstreams per session. Its invariant
`SInv` says what each connection's handler and cleanup task have done so far and not yet: ids are drawn once
(`SidsAreOwn`), the two tasks and the guard are in step (`TasksAreInStep`), the map has exactly the
sessions that are inserted and not removed (`MapIsRight`), children and tasks follow `launch` and `shutdown`, none is asked to stop before and none goes on unasked after it
(`ChildrenAreInStep`, `TaskIsInStep`), the gauge counts those counted up and not yet down (`Counted`), and a POST in flight holds the
session of its own client (`PostsAreHome`).

| theorem | property |
|---|---|
| `SseInvariance` | `SInv` |
| `SseTypeCorrect` | `TypeOK` |
| `PostsGoHome` | `PostsReachHome` |
| `OpenIsServed` | `OpenSessionIsServed` |
| `NothingLeft` | `NothingIsLeft` |

`StartupProofs` and `StdioProofs` hold for every command line, file, script, number of upstreams and capacity of
the pipes. They assume of the constants what their names say (`StartupAssumption`, `StdioAssumption`): that there is
a session, that a torn line is not a whole one, that the words, lines and names are those that are declared.

The command line (`StartInvariant`): what is still to be read is the end of it (`LineIsReadInOrder`); until the `--` that
ends the gateway's part is met, the next token is nobody's value and the mark is still ahead; after it the
command is the piece from the mark to where the reading has come (`CommandIsInOrder`). The hard part is which `--`
is the mark, as it may be an option's value, and so may an option: in a row of options that want a value
every second one is a value (`IsValue`). `ValuesAlternate` proves that a token is a value exactly when the one before it wants
one and is none itself. That is a fact about all lengths of such a row, which
would ask for induction; the proof takes the place where the row begins instead, a least number (`Least`), and
whether its distance is even. `PrefixesAreApart` has a proof about sequences: if one of two
prefixes is shorter, the separator after it stands inside the other prefix or at its end, which its hypothesis rules out
(`ShorterSeparates`); if they are equally long, they are equal (`EqualPrefixes`), and `validate` has seen to that.

The lines (`GateInvariant`), for each way through the gateway what is on it:

* to an upstream: what it has heard, what is in its pipe and what is on its channel, put together, are the
  numbers of the lines handed out for it, in their order, up to some line, and all of them while its
  child and its write pump run (`FlowsAreInOrder`). Moving a line along changes nothing of this; that the end of the
  write pump drops what is on the channel leaves a beginning (`BeginningBegins`), hence "up to some line";
* from an upstream: what is in its pipe continues what the gateway has taken (`AnswersAreInOrder`);
* to the client: what it has got, what is in its pipe and what the writing thread holds is in turn, each
  line after all earlier ones of its upstream (`InTurn`), and together with the channel complete until the writer is
  aborted; a torn line is the last, and the thread holds nothing after it (`ClientIsInOrder`);
* `main`: that it drains only when the input has ended, and how the session's stage bounds the
  tasks and the children (`MainIsInOrder`): while it kills, the children behind `at` are dead. That is why the exit leaves
  nobody behind.

The properties alone are not inductive: `ClientHearsInOrder` says nothing of what the thread holds, and
`NothingIsLeftBehind` nothing of how far the shutdown has come. One lemma for each group of
actions shows that they keep `GateInvariant`, `StdioStep` puts them together.

| theorem | property |
|---|---|
| `StdioInvariance` | `StdioInvariant` |
| `StdioTypeCorrect` | `TypeOK`, a part of the former |
| `UpstreamsHearInOrder` | `UpstreamHearsInOrder` |
| `TheClientHearsInOrder` | `ClientHearsInOrder` |
| `NothingLeftBehind` | `NothingIsLeftBehind` |
| `VerbatimCommand` | `CommandIsVerbatim` |
| `ApartPrefixes` | `PrefixesAreApart` |

`StdioRefinement` says that every step of `Stdio` is one of `Relay` or changes nothing that `Relay` sees, from
`StdioInvariant` and two more facts, proved by the same means: until the session is live nothing is anywhere on its way
(`QuietUntilLive`), and launch has started exactly the upstreams that it is past (`LaunchedInTurn`). `Pump` and `TakeAnswer`
change nothing that is heard or told; the hard steps are `UpstreamReads`, which takes the head of the pipe, and `Read`, which
takes the head of what the thread wrote. That the first is `Hear` needs `FlowsAreInOrder`: what the upstream has heard,
this line and the rest are the lines for it up to some line, in their order, so this one comes after all that
it has heard and none is missing between (`HearMaps`). That the second is `Tell` or `Cut` needs `ClientIsInOrder`
(`TellMaps`). That `Exit` is `End` is `MainIsInOrder`.

| theorem | property |
|---|---|
| `StdioRefinement` | `ImplementsRelay` |

`SchemaProofs` is about schemas and arguments of any size and any depth up to `MaxDepth`, whatever that is. There is no
theorem of induction to cite that the provers can use, so it is built from one about sets: a set of numbers that has 0 and
with each number the next has them all (`Numbers`), for what it has not would have a least element. With it,
a set of depths (those at which a claim holds) is shown to be all of them.

First, that each recursive function exists and is what its definition says (`CompactionDefined`, `ValidationDefined`,
`StrippingDefined`, `TrimmingDefined`, `SignatureDefined`, `AdmissionDefined`): TLA+ does not promise that of a recursive
definition. One level asks only about what is less deep (`CompactedAsks` and so on), so that a
function up to some depth can be extended by one level, which by `Numbers` gives one for all depths. Then the same
induction on the depth of the schema or of the argument for each property:

* `CompactionAgrees`: a compacted schema has the same verdict on everything, by the gateway's own validator. Keyword by keyword: those that apply no
  schema stay as they are (`AloneAgrees`), branches, elements and members agree by the hypothesis (`BranchesAgree`,
  `ArraysAgree`, `ObjectsAgree`). This needs `IsPlain`: no property is named like metadata, and no `const` or `enum`
  has metadata in it; the run `schemas_title` shows what happens without;
* `StrippingTrims`: stripping leaves out null members and nothing else;
* `StrippingForgives`: if leaving out some nulls makes the arguments fit, those that the code leaves out do. This needs
  `IsListed`: objects are taken only where their properties are listed, not in arrays or branches, where
  the code does not look for nulls;
* `SignatureCoversAll`: what fits a schema is of the type that its signature reads as. `EitherAdmits`, `BothAdmit` and
  `EachOfAdmits` say what a text joined by `|` or `&` without parentheses admits, by induction on the number of
  its parts. This needs `IsTyped`: a type
  where properties or items are spoken of, and no tuples.

The hypotheses are of a set of schemas, which has those of the instance and all below them; `TheoremsApply` in `MCSchemas` checks
that they are true of the schemas that TLC runs.

| theorem | property |
|---|---|
| `HostsAgree` | `HostAgrees`, given `IsPlain` |
| `ForwardedAlwaysFits` | `ForwardedFits` |
| `NullsAlwaysForgiven` | `NullsAreForgiven`, given `IsListed` |
| `SignaturesCover` | `SignatureCovers`, given `IsTyped` |

Every inductive invariant is checked by TLC too (`router_ids`, `router_calls`, `router_single`, `router_live`,
`sse`, `stdio`), but for the two facts that `StdioRefinement` adds and the invariant of `Schemas`, which are proved only.

Only model-checked: the liveness properties `EveryRequestAnswered`, `EveryCallIsCounted`, `ClosedIsCleanedUp`,
`LinesGetThrough` and `ClosingEndsAll`, since liveness under fairness is out of the prover's reach. Every invariant of
a passing run is a theorem. The findings are runs that fail, and no theorem says anything of them.

## 7. Findings

* `router_clash`: `config.rs` admits names with `__` in them and checks only that they differ, so
  two advertised tools can have one name; the router keeps the route of the one inserted last.
* `router_stale`: two reader tasks that merge at the same time can leave in the ledger the schema
  of the list that the client was sent first.
* `router_cancel`: a notification is broadcast word for word, and `notifications/cancelled` names a request by
  the client's id, while the upstreams know requests by ids drawn for each of them; the one that has that
  number stops work on a request that nobody gave up.
* `sse_leak`: when `launch` fails at the second upstream, the child and the two tasks of the first
  go on for ever; no handle is returned to shut them down.
* `schemas_title`: metadata keywords are stripped by name at every depth, also among the names
  of `properties`, so a parameter called `title`, `default`, `examples` or `deprecated` vanishes from what the
  agent is shown (and one called `description`, by the same recursion).

Not a run of its own: `metrics.rs:26` and the HELP text (`metrics.rs:118`) say that the calls of `tools_call_forwarded` were
"forwarded to upstream", but `router.rs:288` ignores the error of a send on a channel whose writer task has ended, and `:289` counts
the call all the same. `CountsAreTrue` therefore admits such calls by name (`IsLost`), and what it says of all others is checked and proved.

## 8. What is not modelled

* Frames: requests that an upstream makes of the client and the client's answers to them (`router.rs:321-322`
  declares the translation of their ids out of scope, so there is no promise to check); a request with
  `"id": null`, which the code treats like any other; other notifications than the cancellation, except as
  lines in `Stdio`; whether `_meta` survives in a `tools/call`; which of two initialize answers wins.
* Schemas: objects inside arrays or combinators (`StripOptionalNulls` does not look there:
  `NullsAreForgiven` is promised without them); that a tool without `inputSchema` is recorded as an object and
  compacted as `{}`; escapes in the keys and literals of a signature, and that TypeScript takes its literals 1 and 1.0
  for one. `HostAgrees` is about the keywords that the gateway's validator reads: a host may know more, and of these it
  promises nothing. `NullsAreForgiven` and `ForwardedFits` do not say that no null is dropped in vain: `StripOptionalNulls` drops
  one that the schema allows too. `SignatureCovers`
  leaves out tuples and schemas without a type, of which the signature promises less than the schema.
* The process: the wording of errors and help, logging, formatting (also of the percentage in
  the exposition), TOML; what an orphan of a failed `launch` does after the exit; SSE mode after `--listen`, which
  is `Sse`; memory limits of the unbounded channels; the wrap of a 64-bit counter. `Flush` takes it that of a
  line that is being written when the writer is aborted the client may get a part.
* `protocol.rs`, which nothing calls; packaging scripts and test drivers.
