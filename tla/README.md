# voussoir in TLA+

TLA+ models of [voussoir](../src/README.md), an asyncio agent framework: an LLM drives a tool-call
loop under a policy, tools run behind authorization, capability and taint gates, agents delegate to
and escalate to other agents. The models are of the code under `src/src/voussoir/`; docs are used
only to know what is promised.

## The system

| component | state it keeps | operations | what is hard | what makes it correct |
|---|---|---|---|---|
| tool dispatch (`agent/dispatch.py`, `agent/turn.py`) and executor (`executors/standard.py`) | the run's taint and audit log, one asyncio task per call, a process-wide semaphore | split calls in two waves, gather, cancel and drain; per call: screen, copy context, permit, authorize, credential, tool, retry, screen, merge back | calls interleave at every await; one raises while others are anywhere; the gate reads a copy of the taint | nothing sends after something untrusted was read; no provenance and no audit record is lost; nothing outlives its turn |
| run loop (`agent/agent.py`, `agent/policy.py`, `agent/stream_events.py`) | messages, budgets, session log, context variables | `run`, `stream` (simple and tool-using), hooks, screening, finish | an exception, a cancellation or a closing consumer at any await or yield | honest finish reason, each middleware told what its end calls for, `done` only after the answer is durable, context restored |
| delegation and cascade (`agent/agent.py`, `agent/delegation.py`, `agent/cascade.py`) | a tree of runs, one-shot lineage stash, a context variable counting cascades, permits held across sub-runs | `delegate`, `clamp_tools`, `run` with a cascade, escalation | cycles, concurrent sub-runs of one agent, cancellation down the tree, starvation | grants shrink, depth and cascades are bounded, no orphan, every run returns |
| guardrails, validators, telemetry (`guardrails/`, `agent/validators.py`, `agent/cascade.py`, `observability/sink.py`) | the text being screened, an audit entry per verdict, the active sink as a context variable of a task | fold a chain, ask a judge, rewrite and screen again; validate an attempt and price it | a rewrite one guard makes hides or uncovers what another looks for; costs of runs that nest and overlap | what is handed on was seen to by the guards of its stage, the log says so, an attempt pays for its own judges |
| OAuth2 broker (`auth/brokers/oauth2.py`) | token cache per user, one lock | `store_initial`, `resolve`, `refresh` | double-checked locking; a server that accepts a refresh token once; a failing grant | users isolated, one grant at a time, no replay, the lock is always given back |
| container (`container/container.py`, `scopes.py`) | bindings, frozen keys, singleton and run caches | `bind`, `freeze`, `resolve`, `child`, `run_scope` | stale caches after a rebind, children, run scopes crossing containers | an instance is of the current binding; a frozen key stays; a run's instances stay with it |
| process wiring (`container/defaults.py`, `agent/registry.py`, `agent_builder.py`, `bootstrap.py`, `plugins.py`) | the default container, the registry of agents | `default_container`, the `bind_*` helpers, `register_agent`, `bind_agent_registry` | four parties write one registry, in layers, possibly twice; plugins run code of their own | the application's choices stand; the layers override one another in the documented order |
| A2A (`a2a/agent_ref.py`, `publisher.py`, `rate_limit.py`, `auth/a2a.py`) | rate-limiter windows, `AgentRef`'s client, the peer's runs | open and close an `AgentRef`, delegate to a peer, admit and serve a request | a caller gives up while the peer runs on; hosts share a client and its close fails; restarts; clocks that differ; a table that is tidied | the limit holds, answers belong to their call, clients are closed |
| A2A discovery (`a2a/discovery.py`, `keys.py`, `card.py`, the public routes) | signing key, `kid` and JWT secret of each process, cached cards and JWKS | serve card and keys, discover, verify, sign a token, check it | restarts, rotation and caches that keep the old answers; redirection to another origin | an accepted card was signed by who was asked, lately; peers that settle meet |
| memory (`memory/backends/sqlite.py`) | SQLite rows, one asyncio lock, worker threads with a connection each | add, get, list, search, update, delete | a cancelled call leaves its thread running; two connections write; the process dies | writes land in order, what was answered is durable, update makes no item |
| brokers, authorizers, tools, LLM, MCP, skills, CLI | little or none | pure decisions, adapters | the answer, or the failure, arrives at any time | seen by the models above as nondeterministic answers |

How they interact: an application builds a container and registers agents (`Wiring`). `Agent.run`
opens an `AgentContext`, asks the model, hands a reply's calls to the dispatcher, whose tasks call
the executor, which calls authorizer, broker and tool. A delegate tool calls `Agent.delegate` and so
`Agent.run` again, inside the caller's task: the permit its call holds stays held, the context
variables are inherited by copy, and only the `AgentResult` comes back (answer, tokens, taint). A
text is screened where it enters or leaves a run or a tool, and a run with a cascade is a loop of
attempts, each judged before the next. Everything but SQLite's threads runs on one event loop, so an
action of the models is the code between two awaits.

## Modules

| module | models | atomicity |
|---|---|---|
| `ToolDispatch` | one run's tool turns | between two awaits of one task |
| `RunLoop` | one run or stream from first to last await | between two awaits or yields |
| `Delegation` | the forest of runs and tool calls of the process | one event of one run |
| `Judging` | the screenings, judges and costs of runs that nest and overlap | between two awaits of one run |
| `OAuth2Broker` | the token cache under many calls | between two awaits of one call |
| `Container` | bindings, children, run scopes | one call (none of them awaits) |
| `Wiring` | a process from its first line to its loaded registry | one call, one yaml entry, one entry point, one variable |
| `RateLimiter` | the limiter of the A2A publisher | one `allow` |
| `A2A` | `AgentRef`, the network and the peer's handler, over `RateLimiter` | between two awaits of a call or of its handler |
| `Discovery` | cards, keys, secrets and caches in front of `A2A` | one request or answer |
| `Memory` | the SQLite store under many calls | one await of a call, one statement of its thread |
| `ToolTurn` | abstract: what the run loop may rely on of a tool turn | the turn |
| `RunProtocol` | abstract: what a caller or a stream's consumer sees | one event |
| `SingleFlight` | abstract: what a tool call may rely on of its credential broker | one token given, one exchange begun or over |
| `ToolDispatchProofs`, `RunLoopProofs`, `DelegationProofs`, `OAuth2BrokerProofs`, `ContainerProofs`, `WiringProofs`, `A2AProofs`, `MemoryProofs` | theorems | |
| `MC*` | constants of the TLC instances | |

**ToolDispatch.** `pc[s]` is the await the task of slot `s` is in: `new` (not screened yet),
`queued` (waiting for its permit), `authz`, `creds`, `running`, `refresh`, `rerun` (inside the
permit), `output` (output screening), then an outcome, an exception or a cancellation. `snap` is
`ToolContext.taint`, `taint` is `AgentContext.taint`, `sub` is the taint of the `AgentResult` a
delegate call carries. `Leave` is the way out of `async with _tool_semaphore` plus the `finally` of
`_dispatch_one`. `phase` is the parent: `first` and `exfil` are the two `_gather_wave` calls,
`draining` its `finally`. `OthersTake` and `OthersGive` stand for other runs. A delegate is a tool
whose sub-run is opaque here.

`ToolDispatch` implements `ToolTurn` (`ImplementsTurn`): a turn is busy from the moment its tasks
exist to the step that returns or raises; its calls are the slots of the reply, `open` the ones
whose task is alive, `answered` the ones with an outcome, and the taint is the run's. What the
abstract turn promises is that it ends with all outcomes or as one failure, that an outcome is never
taken back, that taint only grows, and that nothing is open when the parent goes on.

**RunLoop.** `mode` picks one of three bodies. `Fail` can follow every state that awaits or yields,
which is also how a consumer closes a stream. `Reporting` is the extent of the `try` whose handler
calls `on_error`: the whole body in `stream`, only the loop and its tail in `run`. A cancellation
may also hit a fan-out of hooks (`Fail`, `OnError`), where what a hook itself raises is swallowed.
What the middlewares have heard at the end (`HooksToldOnce`) depends on the way out: of a returned
answer, one `after_run` each; of a blocked input that returns, and of a failure before the `try`,
nothing; of any other failure, one `on_error` each, or only up to where a cancellation cut that
fan-out, and those that a cancelled fan-out of `after_run` had reached have heard both. A tool turn is one step, `Dispatched`. `RunLoop` implements `RunProtocol` (`FollowsProtocol`), whose state is the
last event and whether the outcome is settled: announced tool calls are reported on before anything
else is said, `done` comes once, after the outcome is settled and with nothing but the cascade's
verdict behind it, and no stream ends by itself without it.

**Delegation.** A node is one call of `Agent.run` or one plain tool call; `up` is who awaits it.
`stash` is `_delegation_lineage`; `cascades` is `_cascade_depth_var`, inherited because a task
copies the context of its creator. `Begin` is a delegate call getting its permit, clamping and
starting the sub-run; `Raise`, `Cancel`, `Gone` are an exception, the cancellation of what the run
awaits, and its end once all of that has ended. What is sent and what taint results is
`ToolDispatch`'s business and is left out; a turn creates all its calls at once. The properties
speak of paths: `PathOf(n)` is the smallest set that holds `n` and, with a node, the one above it,
and `LineOf(n)` the part of it from the latest run that started a lineage of its own (a host's run
or an escalation) on.

**Judging.** A text is the set of what guards look for in it. `Chain` is what
`bind_default_guardrails` wires for a profile, with the application's own guards (`Before`, `After`)
around it; `Screen` folds it up to the first verdict that is not ALLOW, or to a guard that is not
sure, whose judge is asked (`asking`) and whose PASS lets the fold go on behind it (`vouched`). A
redaction puts a placeholder into the text, and what it makes of the text around it may be just what
another guard looks for (`Redactions`; `Completes` says of what); `came` is the text as it came to
the chain. What a verdict
does is one operator per stage (`InputJudged`, `CallJudged`, `OutputOfToolJudged`, `AnswerJudged`),
since the stages differ; `shown` and `audit` are what became of the text and what the log says of
it. `Validate` is one attempt's validator, `sink[t]` what `_active_sink_var` is in task `t`,
`buffer` the redirection's list, `token` what is put back. A judge built on a container that binds no
sink records nothing (`Silent`). An escalation's result arrives with the records its own cascade has
counted, and the attempt's are added to them (`Carried`, `Decided`). `due` and `loose` are the
history costs are judged by. Sub-runs (an escalation, a validator that runs an agent) share their parent's task
and so its variable; the host's runs do not.

**OAuth2Broker.** A task is one tool call: `resolve`, use, and after a 401 one `refresh`. A
credential is an identity, the slot its first grant belongs to and a refresh token; expiry is the
set `stale`. `redeemed` is the token endpoint's memory (external), `lost` the exchanges whose answer
did not reach the cache. `Rotating` selects a server that accepts a refresh token once.
`OAuth2Broker` implements `SingleFlight` (`ImplementsSingleFlight`), which has no expiry, no lock
and no waiting: a call's `first` and `second` token are what it holds before and after a refusal,
`flight` is the lock's holder. What it promises is that exchanges come one by one, that a call is
given at most two tokens and no token twice, only from its user's slot or the shared one, and that a
call that holds nothing yet never presents a token that was exchanged already.

**Container.** `binding`, `frozen`, `single` and `caches` are the four dictionaries of each
container; an instance is the number of the binding it was made from and, when a factory made it,
the container and the run it was made for. `current[t]` is `_run_id_ctx` as task `t` sees it,
`saved[r]` the token `run_scope` puts back. A task is asyncio's: the host's, or a tool call's, which
starts with a copy of its caller's variable. `Interleaved` lets one task drive several streams in
turn, which is what a host does that consumes two generators in one coroutine.

**Wiring.** `bound[k]` says who chose what key `k` is bound to, `value[f]` which layer set field `f`
of a delegate last. `pc` follows `bind_agent_registry`: yaml entries, then entry points, then
variables, in any order within each; `Load` may be called again. A plugin's factory
holds the container, and before it returns or raises it may bind any key that is not frozen, add a
delegate to the registry, replace one that is there, or bind another registry with or without a
delegate in it (`Reach`, `Handiwork`); `Takes` is what the loader then accepts. `registry` is the one
the container binds: once a factory has bound another (`strayed`), what the loader adds goes to the
old one, where nothing finds it. `meddled` are the names whose delegate a factory put away by its own
hand. `own` is whether an agent still has an executor, a guard chain or middleware of its own,
which a rebuild does not carry over.

**RateLimiter** and **A2A.** `hits` is the limiter's table, `allowed` the history it is judged by.
`allow` takes a lock that nobody keeps across an await, so each call of it is one step. `A2A` uses
the limiter by extending it: every step of the peer is a step of `LimiterSpec` or leaves it alone. A
call has two halves. `pc` is the caller's (`minting` the token, `posted`, `over`); `stage` is the
peer's handler (`sent`, then waiting for the `body`, for the principal's `mapping`, `running`) and
then the HTTP response on its way, so a handler goes on when its caller has left (`GiveUp`,
`Abandon`). `Restart` breaks the handlers' connections and empties the peer's memory. Times are
whole units of the caller's clock; the peer's is `Skew` ahead. Whether a token's signature,
algorithm and issuer are accepted is nondeterministic, its times are checked (`Fresh`); `token[c]` is
the time it was issued at. The answer to a run that ended may be one `delegate` cannot read
(`unfit`), which is `RemoteMalformed` like a 429. A retry is another call. The calls share one
`AgentRef`, which several hosts open and close while calls are at any point: `http` is its `_http`, 0
a client the application supplied, `inside[h]` whether host `h` is in its block or awaits the
client's `aclose()`. httpx marks the client closed before it awaits, a second close returns at once,
and a close that fails or is cancelled leaves `_http` at the closed client (`Closed`). `hasty` (the
clients made while an earlier close was awaited) and `botched` (a close has failed) are history.

**Discovery.** `proc[p]` is a running process: the `kid` drawn when it started (the number of its
life), its key (from the PEM file if it has one), how it is set up, its secret. `shelf` is the HTTP
cache that `Cache-Control` allows between caller and origin, an answer and the Ticks it has left,
filled by other clients' visits. A signed card is served as a JWS, or as plain JSON to a client whose
`Accept` names JSON only, from one address and with no `Vary`: the two are one entry of the cache
(`CardOf(w, json)`), and a verified discovery that is given the JSON form fails. `tok` is the card on its way through `discover_card`: `asked`,
`card` (its signature's key is asked for), `accepted`; then a token is signed with the caller's
secret and checked with the secret of whichever process answers. `gone[k]` is how long ago home last
ran the process of kid `k`. Cryptography is equality of keys.

**Memory.** `pc` is the await a call is in, `thread` the worker it started and `writing` SQLite's
write lock, held from a thread's first statement to its commit or close. `Cancel` ends the call at
once; its thread, unless still in the executor's queue, goes on and may write later. `Crash` ends
everything but `rows`. `ticket` is the order of asking for the asyncio lock (which serves in that
order), `stamp` the order of commits, `since` what had been committed when the call began.

Definitions introduced as *faulty variants* are what a plausible slip would make of the definition
that follows them. No specification uses them. Every property is shown to fail when the variant
takes the definition's place, so that it is known to say something.

## Runs

| run | shows | bounds |
|---|---|---|
| `dispatch` | `SendsHeldBack`, `NothingLost`, the refinement `ImplementsTurn`, and `TurnEnds` | 2 calls a turn, 6 kinds of tool, 1 permit, 2 turns |
| `dispatch_delegate` | violated: `FirstWaveTaintMerged` | 2 calls, 1 turn |
| `run_loop` | `BudgetsHonest`, `HistoryWhole`, `ExitsTidy`, the refinement `FollowsProtocol`, and `RunEnds` | 2 middlewares, 3 steps, budget 3, cost up to 2 |
| `delegation` | `ParentsOutlive`, `ToolsWithinGrant`, `LimitsHold`, and `RunsReturn` | 1 host run, 4 agents, 1 turn a run, up to 9 nodes, 4 permits |
| `judging` | `JudgingTypeOK`, `HandedOnIsClean`, `AuditTellsTruth`, `CostsCounted`, `OnlyFaithfulReturned`, and `RunsEnd` | 2 host runs and what they start, 2 attempts, the strict profile with an allow-list, a placeholder that may complete a picture's link |
| `oauth` | `UserSlotsIsolated`, `GrantsSerialised`, the refinement `ImplementsSingleFlight`, and `CallsEnd` | 2 users, 3 calls (two of one user), 2 credentials issued, a rotating server |
| `container` | `CacheMatchesBinding`, `FrozenInherited`, `RunScopeHeld` | 3 containers, 2 runs, 2 tasks, 1 key, 2 bindings |
| `wiring` | `ChoicesStand`, `Precedence`, `ApplicationWins` | 2 names, 2 plugins that provide the same one, 2 loads, a factory that binds, adds, replaces or rebinds |
| `wiring_env` | violated: `BadOverridesSkipped` | the same, with an unknown capability in the environment |
| `a2a` | `WindowRespected`, `AnswersAreTrue`, `ClientsReturned` | 2 calls, 2 hosts, 2 clients opened, limit 1 in a window of 1, times 0 to 2, tokens valid for 2 |
| `discovery` | `DiscoveryTypeOK`, `AcceptedIsVouched`, and `PeersMeet` | 2 home processes, another origin, the caller; cards cached 1 Tick, keys 2; 5 starts or rotations |
| `memory` | `WritesInOrder`, `AnswersDurable`, `UpdateCreatesNothing`, and `CallsEnd` | 3 calls of any operation, 1 item |

`PROJECT.json` names the module and the configuration of each run: `dispatch`, say, is `tlc -config
ToolDispatch.cfg MCToolDispatch`, and `tlapm ToolDispatchProofs.tla` checks the proofs that go with it.

A property that lists several facts of one kind is their conjunction, each named: `SendsHeldBack` is
`NoSendAfterFetch` and `WaveBarrier`; `NothingLost` is `TaintAccounted`, `AuditComplete` and
`NoTaskOutlivesTurn`; `BudgetsHonest` is `CompletedWasAnswered` and `OvershootOneTurn`;
`HistoryWhole` is `CallsAnswered` and `DoneIsDurable`; `ExitsTidy` is `HooksToldOnce` and
`AmbientBalanced`; `GrantsSerialised` is `LockIsGrant` and `ResolveNeverReplays`; `LimitsHold` is
`DepthWithinLimit` and `CascadesWithinLimit`; `RunScopeHeld` is `RunScoped` and `RunCachesClosed`;
`AnswersDurable` is `AnsweredKept` and `ReadsCommitted`. `RetryHasAnother` is part of what
`ImplementsSingleFlight` says and is proved by itself.

Why the bounds are enough. *Dispatch*: two calls are a reader and a sender, two readers, or a call
that fails beside one anywhere; with one permit calls queue behind each other and behind other runs;
the second turn sees the taint of the first. That an outcome, a failure and a running call may meet
in one wave needs a third call: for it, and for any number, the theorems stand. *OAuth*: two calls
of one user race for one token while a third falls back to the shared slot; two credentials are a
first grant and its refresh, or two users' grants. *Run loop*: the budget is exceeded by one
expensive turn or by several cheap ones, and three steps let a limit be met before, at and after.
*Delegation*: `lead` delegates to `helper`, which delegates to itself and declares a larger limit,
and to `worker`, whose cascade escalates to `expert`, which delegates back to `worker`; `lead` may
only read, the others may also send. `TurnNodes` caps how many nodes there may be when a turn adds
some: it cuts wide trees short, never a path. *Judging*: one host run has a heuristic with a
fallback judge and an escalation, the other a validator that runs an agent, so a judge's record may
belong to three runs; texts combine traits that two guards look for (what is redacted with what
blocks, what a judge is asked about with what it must not excuse); the application's own guards come
before the default ones and after them, a redacting one in front of a tool's output, which is
screened again, among them; a placeholder may complete a picture's link, which the guard in front of
the redaction had not found; the judge that one run's guards ask is on a container without a sink. *Container*: a chain of three containers has a child of
a child; two bindings are one and its replacement, before or after a child copies it; two runs are
nested, or side by side, or one opened by a tool call of the other. Keys do not interact. *Wiring*:
a name may be registered by the application, by yaml, by either of two plugins, or not at all, with
a variable for it that is good, does not parse or is refused late; names do not interact but for
collisions, which the two plugins have on one. A factory binds a frozen key, an unfrozen and an
optional one, adds to the registry, replaces in it or binds another. Three fields stand for all that a layer may set; two
loads show that the second does not undo the first. *A2A*: the limit is met and the table (room for
one client) tidied when the second client comes, at the window's edge as well; a token's whole life
(2) fits in; there is a restart at any point. Two hosts and two clients are one that closes while the
other enters, uses the client or makes the next one. Two calls are one call and its retry, or two at
once. *Discovery*: five starts are the caller's, the other
origin's, and a home process that is replaced twice, or replaced once and joined by one, or a
rotation in between; the cached keys (2) outlive the cached card (1) and the process both are of.
The set-ups are the usual one, a foreign one whose cards expire and that reads its key from a file,
a mirror of another origin, and one mounted under a prefix. *Memory*: three calls are an update with
a delete between its check and its write, or a write, one abandoned before it and a read over both;
items do not share rows, and an item of another user is never selected by `ByUser`. Symmetry (of
children, runs and tasks in `container`, of calls and of hosts in `a2a`) is used only where no
liveness is checked. The clocks of
caller and peer agree in `a2a`; the theorems hold for any `Skew`.

Deadlock is not checked: a run that has ended has nothing left to do; and bounded counters (turns,
credentials, starts) stop a run that in the code would go on. What would be a deadlock of the code
shows as `TurnEnds`, `CallsEnd`, `RunEnds`, `RunsReturn` or `RunsEnd` failing.

**Fairness.** asyncio runs every ready task, `asyncio.Semaphore` and `asyncio.Lock` wake waiters in
order of arrival (hence strong fairness for getting a permit or the lock; `Memory` models the order
itself, and weak fairness is enough), and models, tools, guardrails, judges, threads and servers are
assumed to answer or fail; nothing is assumed of `Raise`, of cancellation by the host, of crashes,
of new turns or of a user coming back. A consumer of a stream is assumed to keep asking or to close
it. In `Discovery` time passes and the application asks again; that requests eventually stop failing,
that one well-configured process stays, and that other clients eventually stop asking for the JSON
form of its card (`JsonUnasked`) are premises of `PeersMeet`, not assumptions. Without the last, a
cache that such visits keep filling answers every verified discovery with a form it refuses.

## What the violated runs mean

Each is the disagreement of a sentence in the repository with its code; `PROJECT.json` quotes both.
`dispatch_delegate`: the taint of a first-wave sub-run reaches the run only after the second wave,
though `dispatch.py:426` says that it is there. `wiring_env`: an override of `ALLOWED_CAPABILITIES`
that names an unknown capability leaves `bind_agent_registry` as a `ValueError`, though
`bootstrap.py:134` says that a bad override never takes down the start.

Four more statements the code contradicts are kept beside the properties, as definitions or under
the constants named here, and no run checks them: `SharedSlotIsolated` (`refresh` looks for a
credential by identity and falls back to the shared slot when it is gone, which overwrites the
service account's token, `oauth2.py:232`); `NoSendWhileTainted` (the taint gate reads a copy made
before the wait for a permit, `standard.py:246` against `docs/architecture.md:343`);
`ToolsWithinParents` (an escalation runs outside the delegating parent's grant, `agent.py:460`
against `docs/getting-started.md:160`); and `RunsReturn` with as many permits as delegate calls,
which then starve their own sub-runs (`dispatch.py:241` against `docs/architecture.md:207`).

## Proofs

`ToolDispatchProofs` shows, for any set of slots and tools, any capabilities, permits and turns,
from `ToolAssumption` and `BoundAssumption`, that `Inv` is inductive and implies `TypeCorrect`,
`SendGated`, `BarrierHolds`, `TaintKept`, `AuditKept` and `NothingLeaks`, and with them what
`dispatch` checks (`SendsKeptBack`, `NothingIsLost`); and that `TaintGrows` (`TaintMonotone`). `Inv`
adds to the invariants what they rest on:

* `PermitInv`: free permits, permits elsewhere and holders add up to `Permits`; without the sum,
  nothing bounds the counter (`HoldersStep` counts the holders through every move).
* `WaveInv`: which tasks can exist in which phase; `WaveBarrier` alone does not say why a task of
  the second wave cannot appear while the parent is in the first.
* `CallInv`: what a call that entered its tool has behind it.
* `TaintInv`: a waiting call's *copy* of the taint already holds all that the earlier turns and the
  first wave produced (`Informed`). It is the reason the stale copy is harmless between waves, and
  it fails within a wave, which is what `NoSendWhileTainted` says.

`RunLoopProofs` shows, for any number of middlewares, limits and costs, from `LoopAssumption`, all
the safety properties of `run_loop` (`HonestBudgets`, `WholeHistory`, `TidyExits`). Its `Inv` is the
conjunction of what each kind of state implies: `SaidInv` (which events can have been yielded
where), `LogInv` (the session holds the answer wherever `done` may follow), `TurnInv` (a model is
asked only below `max_steps`, and unanswered calls exist only between their announcement and their
results), `SpentInv` (a model is asked only below the budget, and its reply and its tools add at
most `MaxCost` each), `ToldInv` (hooks already told are those before the index of the fan-out, and
`after_run` was told to anyone only of an answer that is recorded),
`AmbientInv` (the variables name the run exactly in the states inside the `try` whose `finally`
resets them).

The same module proves all the safety properties of `judging`, for any runs, tasks, texts, chains,
attempts and validators, from `JudgingAssumption`. `JudgingInv` has two halves. What a run says of
itself is `Local`: its record fits its place (`Fit`), with what the log says of the text (`Told`,
which is `AuditIsTrue`), what its validator thought of it (`Vetted`, `ReturnedIsFaithful`), and what
the guards think of it (`Clean`, `HandedOnStaysClean`). What runs say of one another is behind
`CostsAreCounted`: an escalation or a validating agent shares its parent's task and therefore the
variable that names the active sink, so the runs of a task must be known to be a chain of which only
the deepest moves. `NestInv` says of each run under way that it is the host's own or the only one
its parent waits for; `Ranked` gives the chain as a rank (one more than the parent's; two runs of a
task never share one; the run that moves has the largest), since paths of any length are out of the
prover's reach and a step changes one rank. Then `SinkInv` can say that `sink[t]` names the
innermost attempt of the task being judged, and that what is put back at its end is the one around
it; `DueInv`, that what an attempt owes is what its result counts, together with its buffer while it
is being judged, and that what the container's sink got is what was asked outside every scope.

The fold stops at the first verdict that is not ALLOW, a redaction is one, and but for tool output
the rewritten text is not screened again. `HandedOnIsClean` therefore says what a chain can promise:
a text that goes on as the chain saw it passes every guard of its stage; a text that was redacted
has lost what the redaction looks for and had passed, as it came, the guards in front of it; and the
default guards that do not redact have all passed it as it came, unless the application's own redact
first. `HandedOnStaysClean` proves it for every chain and every effect of a placeholder. The last
part is where the order of `bind_default_guardrails` matters: it puts its redaction last
(`DefaultsRedactLast`), so that with no redaction among the application's guards in front, the first
one in the chain has all the default ones before it (`OwnRedactsFirst`). `KeptSeen` and `KeptClean`
carry the promise over the steps that change neither the text nor the verdict.

`DelegationProofs` shows, for any agents, grants, limits and bounds on the forest, what `delegation`
checks of safety: `ChildrenEndFirst`, `GrantsHold`, `NestingBounded`, and `TypeCorrect`. The
properties speak of all that lies above a node; induction along a path is out of the prover's reach,
so the path is defined as a smallest closed set, and four lemmas (`AboveSelf`, `AboveClosed`,
`AboveUp`, `AboveKept`) give what a proof needs of it: it holds its node and what is above, a node's
path is its parent's and itself, and it does not change when a node elsewhere does. `Inv` says of
each node what it must know of the ones above it: its grant is within theirs (`Grant`), the lineage
it works under is the one its parent handed to it (`Lineaged`), and the numbers it carries are the
counts of delegations and cascades on its path (`Cascaded`, `Counted`), which turns a property of
paths into one of an edge. `FrameInv` reduces every action to the node it moves and the ones it
makes.

`OAuth2BrokerProofs` shows for any users, calls and number of credentials the type invariant,
`UserSlotsIsolated`, `GrantsSerialised` (`GrantsInOrder`) and `RetryHasAnother` from one inductive
invariant: a call that holds the lock works on the slot its argument is in, or was in when it left
the cache; a refresh token belongs to one cached credential; a token in the cache has been exchanged
only if the answer was lost.

`ContainerProofs` shows, for any containers, keys, runs and tasks, `CachesCurrent`, `FrozenForGood`,
`ScopesHeld` and `TypeCorrect`. `ChainInv` says that a child's frozen keys are bound as its parent's
are, `StackInv` that the scopes a task has opened are its own and that a tool call's caller is still
open, and `CurrentInv` (stated for `~Interleaved`, without which it is false) that a task's variable
names the innermost scope and each saved value the one around it, which is why a run's instances are
its own.

`WiringProofs` shows, for any agents, plugins, files, environments and number of loads,
`ChoicesKept`, `LayersOrdered`, `NamesKept` and `TypeCorrect`. `GuardInv` rests the first on the
freeze; `LayerInv`, behind the second, says of each phase which entries and variables have been
applied: those no longer in `todo` are in their fields, unless a higher layer was, or a factory's own
hand put something else under the name after yaml. What a plugin may leave behind has three lemmas:
`HandiworkLeaves` (a name keeps its delegate, or is in `PutAway` and has the factory's or none),
`MadePlain` (whatever a factory makes has the fields of its maker), and `PluginLeaves`, which joins
them to what the loader adds. `NamesKept` needs nothing of a factory but that `Reach` is what it can
do to a container.

`A2AProofs` shows from `LimiterAssumption` that the limiter keeps `WindowRespected`
(`LimiterKeepsWindow`) and from `A2AAssumption` that the peer uses it as specified
(`LimiterInside`), so the property carries over (`WindowKept`). The reason is `RecentKept`: whatever
the trims and the tidying drop, each request still in the window is in the table. `AnswersHonest`
rests on `AnswerInv` (a handler's stage says whether the run was started, a response, once given,
stays, and each error comes of one kind of response). `ClientsAccounted` and `TypeCorrect` are for
any number of hosts. `ClientInv` is the reason of the first: a client made here that is not closed is
the present one, with a host inside, or it was made while another was being closed; and a client of
its own stays behind with nobody inside only after a close that failed.

The same module proves, from `DiscoveryAssumption` and for any processes, set-ups, restarts,
rotations and cache lifetimes, `DiscoveryTypeCorrect` and `AcceptedWasVouched`. A card is accepted
for the keys that come with it, which may come from a cache while the process that served them is
gone; `DiscoveryInv` is what makes `gone[tok.kid] <= JwksAge` inductive: a process that runs has been
gone for 0 Ticks, and for a key in the cache the Ticks since its process ran and the Ticks it has
left there never add up to more than `JwksAge` (each Tick adds one to the first and takes one from
the second). With it goes that keys are asked for only for a card that was signed and that names its
own origin.

`MemoryProofs` shows, for any calls, items and users, `OrderKept`, `AnswersKept`, `UpdatesReplace`
and `TypeCorrect`. `CallInv` and `ThreadInv` say where a call and its thread may be, `NumberInv`
that no two commits have one number, `RowInv` that a row is the item of the latest commit to its id,
`OrderInv` that whoever has been inside the lock came after every earlier request had ended, and
`UpdateInv` that an update that goes on to write had found an item some call put there (`Vouches`).

Three theorems are refinements between modules, for every value of the constants: `TurnImplemented`,
that every step of a task is a step of the abstract turn or a stutter, `ProtocolImplemented`, the
same of a run and `RunProtocol`, and `FlightImplemented`, of the broker and `SingleFlight`. They use
the inductive invariant of their module: the abstract guards (nothing open, announced calls
answered, outcome settled, nobody else renewing) fail in unreachable states. The third needs one more,
`OwnInv`: a call works on its user's slot or the shared one, and a token it has seen is cached in no
other, because a token never moves from slot to slot.

The type invariants of `Delegation`, `Container`, `Memory` and others are proved and not run again.
Only model-checked are the liveness properties, fairness and ENABLED being beyond the prover:
`TurnEnds`, `RunEnds`, `RunsReturn`, `RunsEnd`, `CallsEnd` (of the broker and of the store) and
`PeersMeet`. Every safety property of the passing runs is stated by a theorem.

## Not modelled, and the plan

Left to do, in this order:

1. An abstract store, each of whose operations happens at one moment or never, that `Memory`
   implements.
2. `SharedSlotIsolated`, `NoSendWhileTainted` and `ToolsWithinParents` once the code or the
   documents have been changed.

Left out for good, with the reason:

* *yase retriever*: an HTTP client with no state between two calls; its failures are a tool's.
* *other credential brokers*: look-ups in the environment, a keychain or a list of brokers; to the
  executor they answer or raise.
* *MCP and skills*: adapters to a third-party session; what they add to a container is `Wiring`'s
  `bound`.
* *CLI, config, errors; testing and templates; language model adapters*: entry points, tables, test
  doubles, and translation between message formats.
* *memory*: ranking, cutting and hybrid scores are data; `InMemoryStore` has no await inside an
  operation; the Qdrant store is a client whose server decides the interleavings.
* *observability*: spans, metrics and logging are written and never read. The sink's redirection is
  in `Judging`.
* *guardrails' patterns*, prompt and schema text, pricing, argument parsing, truncation: data no
  property tells apart.
* *authorizers, middleware bodies, interrupts*: a decision or a way to end, nondeterministic where
  it is used.

Known divergences without a run, by part.

*Run loop and context*: a blocked output leaves `run` with `completed` while `stream` says
`blocked`; a `run` that fails before its loop (input screening, `before_run`, `agent.py:601`) tells
no middleware, which `middleware/protocol.py:49` promises; `after_run` is promised once "success or
failure" (`middleware/protocol.py:43`), but a failure is told by `on_error` alone, a blocked input by
neither, and a cancellation during the hooks of `after_run` by both (`agent.py:747`); when `AgentContext.__aenter__` raises
after `run_scope` was entered (`context.py:207`) the scope stays open until its stack is collected;
a tool call that was blocked still leaves a `tool_call` step in the result.

*Delegation*: an escalation restarts the delegation depth at 0 and passes on the raw input, where
`docs/architecture.md:290` has it reuse accumulated context; a sub-run that raises
(`dispatch.py:521`) loses its taint; the tokens and judges of a rejected cascade attempt are not in
the result (`docs/getting-started.md:302`); `stream` judges the one answer it streamed and never
escalates.

*Screening*: `docs/architecture.md:389` has a rewrite screened once more, which is done for tool
output only: in an answer "[REDACTED]" can complete a picture's link, which the scan in front of the
redaction blocks and nobody looks for again (`agent.py:711`); rewriting guards of the application's
own are not modelled; an empty rewrite hands on the original (`verdict.rewrite or content`,
`dispatch.py:124`, `298`); an AMBIGUOUS verdict of a guard that no judge wraps counts as ALLOW and
ends the chain, so that later guards are not asked; the table of default guards has the PII detector
at the input too, the code at the output; the screening of a tool call comes before the authorizer
and the capability checks, and not after them.

*Telemetry*: deterministic validators record no `validator_call`, and a judge's record without a
cost is filed as an `llm_call` (`sink.py:118`); the cost of guardrails' judges goes to the
container's sink and into no result, unless an attempt is being judged; a judge records anything only
if the container it was built on binds a sink (`judge.py:108`, `validators.py:165`); what the cascade
of a validator's own agent spent is lost with that agent's result, unless its judges ran inside the
scope. The models give the judges of a run's guards one container, and those of its cascade one; a
record's number starts anew when a run is entered again. `sas_attempt_first=False` (`agent.py:445`),
which makes the first attempt the escalation's, is not modelled.

*OAuth2*: a second `refresh` behind the lock can replay an exchanged refresh token when its
credential has left the cache; `store_initial` during a refresh of the old token is overwritten by
it (`oauth2.py:219`); a chained broker tries every broker's `refresh` in turn, so that of an
environment broker in front, which hands back what it is given, hides OAuth2's.

*Container and wiring*: a SINGLETON first resolved in a child exists once per container, where
`scopes.py:3` says process-wide; an instance bound with `Scope.RUN` (`docs/architecture.md:68`) is
shared by all runs; one task that drives two streams in turn gives both the run id of the one opened
last (`agent.py:822`; `Interleaved` = `TRUE` breaks `RunScoped`); `from_agent(...).build()` drops an
agent's own executor, guard chain and middleware (`agent_builder.py:160`), so an agent overridden by
one variable loses them; a bad capability in yaml raises as it does in the environment; an entry
that neither has a prompt nor names an agent raises with the entries before it applied; the
docstring of `default_container` speaks of a chained credential broker, and none is bound; the
registry is not frozen, and a plugin's factory may register past the allow-list (`plugins.py:49`),
replace what the application registered or bind another `AgentRegistry`, where `plugins.py:53` has
plugins always lose collisions; after such a binding the loader goes on adding to the registry it was
given; a factory that calls `bind_agent_registry` itself is not modelled, nor the `ValueError` of
`from_agent` for an agent without a container (`agent_builder.py:153`); the argument `chain` of the
model stands for `guardrail_profile` and `url_allowlist`;
the embedder is not frozen either; an agent held by another as an object is not reached by an
override of its name; `a-b` and `a_b` share their variables.

*A2A and discovery*: `RemoteMalformed` is raised for a 429 and also for a result that cannot be read,
after the peer's run (`agent_ref.py:188`, `204`), so it does not say whether there was one; an
`AgentRef` that one task leaves is closed under another's call (`agent_ref.py:102`); after a close
that failed, the closed client stays and the next block uses it, which httpx answers with a
`RuntimeError` and not with a delegation error; a close that ends late drops the client another task
has made since, which nobody then closes, against `agent_ref.py:44`; the JSON form of a signed card
may be cached for a minute, with no `Vary` (`publisher.py:180`), and makes a verified discovery raise
(`discovery.py:99`); `nbf_skew_s` (`auth/a2a.py:97`) helps
nothing, for the `iat` beside it is checked by PyJWT too; `AgentResult.to_wire` says it strips
`cost_usd` and keeps it; the `kid` is drawn at every start, even when the key comes from a file;
`jwks_uri` is always at the endpoint's root (`publisher.py:117`), so a router under a prefix
publishes an address that serves nothing; no card is given an `exp`; origins are compared by host
name only; without a secret verification is a `RuntimeError`, that is a 500.

*Memory and others*: a delete between an update's check and its write is undone by it
(`sqlite.py:186`); `InMemoryStore` counts and searches inactive items, SQLite does not; two first
uses of the Qdrant store may both create its collection; one bad MCP descriptor fails the whole
server.
