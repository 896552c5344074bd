# A verification project for the open-cot harness

The repository is a reference runtime ("harness", TypeScript) for cognitive
pipelines that act only under delegated authority, surrounded by RFCs, JSON
schemas, Python tooling and datasets.  The harness is the only part with state,
concurrency and failure; this directory models it in TLA+, checks the models
with TLC and proves theorems about them with TLAPS.

All paths below are relative to `src/harness/src/` unless they say otherwise.

## 1. The system

| Component | State it keeps | Operations | Talks to |
|---|---|---|---|
| Governed FSM (`core/transitions.ts`, `core/state.ts`) | phase, completion status, termination of the trace | `transition` (may throw), `forceStop` | everything that holds a `PipelineState` |
| Budget tracker (`core/budget-tracker.ts`) | remaining tokens, cost, steps, tool calls, retries | `recordX`, `checkExhaustion` | force-stops the FSM |
| LLM circuit breaker (`core/llm-circuit-breaker.ts`) | streamed text, estimate, pending stop | one call: preflight, `onChunk`, catch | backend (abort signal), FSM, tracker |
| LLM backends (`backends/*`) | one stream each | `chat`: read, drain, `onChunk` | the breaker |
| Governed pipeline (`pipelines/governed-pipeline.ts`) | the run | one asynchronous function | all of the above and below |
| Permission manager (`governance/permission-manager.ts`) | grants, lifecycle events | `grant`, `consume`, `revoke`, `revokeAll`, `isValid`, `checkExpiry` | wall clock |
| Authority broker (`governance/auth-broker.ts`) | none | `materialize` | permission manager |
| Tool registry (`core/tool-registry.ts`) | contracts, cached validators | `register`, `call` | permission check, handlers, timers |
| Audit engine (`governance/audit-engine.ts`) | chain of events | `emit`, `seal`, `verify` | reads the run |
| Trace emitter (`core/trace-emitter.ts`) | process-wide step counter | `emitX`, `finalizeTrace` | the run's trace |
| In-process policy engine (`governance/policy-*.ts`) | two lists of policies | `addPolicy`, `removePolicy`, `evaluate`, `consultPhase`, `previewToolAccess` | the clock |
| OPA policy engine (`governance/opa-policy-engine.ts`) | none; one timer a query | the same questions | OPA over HTTP, a fallback engine |
| Sandbox policies (`governance/sandbox-policies.ts`) | none | `buildSandboxPolicySets` | what a pipeline defaults to |
| Manifest builder (`governance/manifest-builder.ts`) | none | `buildManifest` | previews, policies, sandbox |
| Trace validator (`core/validator.ts`) | none | pairing of actions and observations | finished traces |
| Chat and coder pipelines (`pipelines/*`) | their run | one asynchronous function each | as the governed pipeline, without permission manager and audit engine |

What is hard about it:

* **One object, many writers.** Every component mutates the same
  `PipelineState` in place.  Charging a budget may seal the run in the middle
  of a statement list, and the next statement may be an unguarded
  `transition`, which throws.
* **Awaits.** A run is suspended at the policy engine, the model and the
  tools; permissions expire and the clock moves meanwhile, and the copies a
  run keeps of its permissions go stale.
* **Lazy expiry, two clock readings.** A grant that is overdue stays active
  until some method of the manager sweeps; `consume` and `isValid` look at the
  clock twice.
* **Streaming.** The breaker asks for an abort, the backend notices later;
  several events may be handled after the abort, or the answer may be
  complete before anyone looks.
* **Failure.** A policy engine, the argument validator or the broker may
  throw; a tool may fail, hang or answer too late; OPA may stall before or
  inside its answer; a stream may be cut anywhere, or end early.
* **Shared maps and counters.** The registry's cache of validators, its one
  import of ajv and the step counter are shared by all runs of a process.
* **Several readings of one configuration.** Four functions read the sandbox,
  and three the policies; what the model is shown comes from one of them, what
  is enforced from another.

What makes each component correct, in a sentence: the FSM never leaves its
adjacency map and a stop is final; the tracker never lets a hard budget go
below zero unnoticed; the breaker leaves a run the pipelines are prepared for
and loses no stop; a stream is put together to what was sent; authority comes
before execution, one call at a time, and the accounts of a run agree; grants
and lifecycle events tell one story; a handler runs on admitted arguments, in a
governed run under a permission valid then, and its caller gets one answer; a policy decision does not depend on the order of the
policies; nothing fails open; what is shown is what is enforced; a sealed record
agrees with itself.

## 2. Modules

| Module | Models | Used by |
|---|---|---|
| `PipelineCore` | FSM, force-stop and budget tracker, as functions of the run record | `LLMCall` |
| `LLMCall` | a model call as its caller sees it: the set of runs it may leave | `GovernedPipeline`, `DelegatedCalls`, `CircuitBreaker` |
| `CircuitBreaker` | one streamed model call, event by event, up to the abort | |
| `ModelStream` | how a backend reads a stream: reads, events, deltas, the answer | |
| `Permissions` | the methods of the permission manager, as functions of the grants and the clock | `GovernedPipeline`, `PermissionManager` |
| `PermissionManager` | the permission manager with arbitrary callers | |
| `GovernedPipeline` | a whole governed run | |
| `GovernedRun` | what a run promises about its tool calls (abstract specification) | instantiated by `GovernedPipeline` and `DelegatedRuns` |
| `DelegatedCalls` | the frame phase and the tool loop that the chat and the coder pipeline share | `ChatPipeline`, `CoderPipeline` |
| `ChatPipeline`, `CoderPipeline` | what each of them adds to the loop | `DelegatedRuns` |
| `DelegatedRuns` | a whole run of either kind | |
| `ToolRegistry` | the registry under concurrent calls and registrations | |
| `PolicyEngine` | the in-process policy engine and its evaluator, and the registry's scope check | `CapabilityManifest` |
| `CapabilityManifest` | preview, manifest, default policies and the four readings of the sandbox | |
| `PolicyOracle` | what a run may rely on when it asks a remote engine (abstract specification) | instantiated by `OpaEngine` |
| `OpaEngine` | the OPA engine: queries, timers, fallback, rules replaced meanwhile | |
| `TraceEmitter` | the step counter, the traces of concurrent runs, the pairing validator | `AuditEngine` |
| `AuditEngine` | event chains, `seal`, `verify`, and a copy kept as JSON | |
| `MC*` | the instances for TLC | |
| `*Proofs` | lemmas and theorems (section 5) | |

### How the state corresponds to the code

`PipelineCore` keeps of `PipelineState` the phase, `completionStatus`,
`trace.termination`, the remaining budgets and the policy.  A function that may
throw maps the run before the call to the run after it, with the error in a
field of the record; every operation leaves a record with an error alone.  A
list of statements is then a nested application, and a throw in the middle of
it skips the rest, as in the code.

`GovernedPipeline` has one action for the code between two awaits; `pc` names
the await.  `Finish` is `finish()`: revoke everything, refresh the copies,
finalize the trace, seal, return.  The lists of the state (`delegationRequests`,
`delegationDecisions`, `activePermissions`, `toolExecutionReceipts`) become sets
and functions over the positions of the tool calls: a position is entered at
most once.  The actions and the statements they stand for:

| Action | `pipelines/governed-pipeline.ts` |
|---|---|
| `Receive` | 204-207 |
| `ConsultAllowed`, `ConsultDenied`, `PolicyEngineThrows` | `consultPhase` and `manifestHeartbeat` 126-202, at each of their call sites |
| `LLMHalts` | every `if (halted(state)) return finish(...)` after a model call |
| `Frame`, `PlanWithoutTools`, `PlanWithTools` | 222-225, 240-250, 240-307 |
| `Refuse`, `Delegate`, `MaterializeFails` | 308-335, 337-364, 338-343 |
| `RejectCall`, `RefuseAuthority`, `StartHandler`, `HandlerEnds`, `RegistryThrows` | `ToolRegistry.call` (`core/tool-registry.ts` 63-125) and 366-385 |
| `ToolReturned`, `Observe` | 387-394, 395-434 |
| `CritiqueThenNextCall`, `CritiqueThenStop`, `CritiqueThenFinalize`, `Finalize` | 435-475, with the head of the loop 272-307 |

`LLMCall` answers a model call with a set of runs: untouched (already sealed),
stopped before decoding, charged and possibly stopped by the charge, tripped, or
failed.  `CircuitBreaker` models the call itself, and `LeavesAnLLMResult` says
that every stream ends in that set: the abstraction the pipelines are checked
against is proved, not assumed.

`CircuitBreaker` sees a chunk as the length of its text, and a read as the number of
events it completes, which may be none; the server may also send nothing more, for
ever.  `ModelStream` is the
layer below: the body of the response is a sequence of pieces of events (the
head of a line, enough of it to be a data line, all of it) and line ends, and
`ReadSome` takes any number of them.  `buffer`, `context` (text, estimate, finish
reason, usage), `tools` (the tool calls by index) and `report` (the last chunk
`onChunk` was given) are the locals of `chatStreaming`; `Buffered` is `chatBuffered`
of the same message.

`Permissions` is evaluated at the reading(s) of the clock it is given.
`PermissionManager` adds callers, the log of lifecycle events (how often each
event was pushed for each grant) and a clock that passes between and inside the
methods and may be set back.  In `GovernedPipeline` one call of the manager
reads the clock once: there it is the time that passes at the awaits that
matters, and the double reading is `PermissionManager`'s subject.

`DelegatedCalls` follows the conventions of `GovernedPipeline`.  Its runs have no
permission manager and no envelope, so the decision is the authority (the
permission check they pass to the registry compares an id with itself) and `End`
is their `end()`: finalize the trace, return.  A chat run plans once; a coder run
adds `repairs` (`repairCount`) and `verdict` (what `lastCritique` reads as), and a new
plan forgets the calls of the old one.  `call_consult` is the consultation before
each tool call, which these two pipelines make without looking at what the charge
before it has done.

| Action | `pipelines/chat-pipeline.ts` | `pipelines/coder-pipeline.ts` |
|---|---|---|
| `Receive`, `Frame` | 176-182, 186-197 | 176-182, 186-201 |
| `ChatPlanWithoutTools`, `CoderPlanWithoutTools` | 208-219 | 215-225 and 392-397 |
| `ChatPlanWithTools`, `CoderPlanWithTools` | 208-251 | 215-242 |
| `RequestAuthority` | 253-276 | 245-268 |
| `Refuse`, `Delegate` | 277-304, 305-330 | 269-296, 297-322 |
| `RejectCall`, `StartHandler`, `HandlerEnds`, `RegistryThrows` | 328-351 | 320-343 |
| `Observe` | 352-364 | 344-356 |
| `ChatCritiqueThenNextCall`, `CoderCritiqueThenNextCall` | 366-378, 236-251 | 358-371, 227-243 |
| the last critique | 376-385: `ChatCritiqueThenFinalize` | 368-397: `CritiquePasses`, `GiveUp`, `Repair` |
| `ChatFinalize`, `CoderFinalize` | 387-402 | 399-416 |

`ToolRegistry` has one action per piece of `call` between two awaits.  The maps
are keyed by name, so one name is enough; what calls share beyond it is the
import of ajv (`factory`).  A contract is the number of the registration it came
with, and `Accepts` says what its schema admits.  Calls that await the import are
resumed in the order in which they came (`Resumed`), as the reactions to one promise
are.  The authority of a call is standing or none, which is not checked; a receipt,
whose permission may end at any moment; a receipt without `isPermissionValid`, of
which only the scope is checked; or an incomplete one.  A handler ends before the
timer, or after it (`LateHandlerEnds`); its result may name any error category
itself (`HandlerAnswers`).

`PolicyEngine` has the two lists of policies (the engine's own, `listed`, and its
evaluator's, `policies`) and the clock as its state; what it answers is computed
from them, as operators.  `Visit` is one turn of the evaluation loop.  The
granted scope is then held against the arguments by `ValidateScopeConstraints`,
the registry's check, so that a property can speak of what is executed.
`CapabilityManifest` adds the configuration of the run (`setup`) and the manifest
last shown.  `Preview` is the engine's answer, `OwnReading` the builder's when the
engine has none, `Executed` what is executed of the calls made on a tool, after
decision, sandbox check and scope check.  A stable sort is modelled by the order
it produces (`InOrder`), and the evaluation loop by a recursive function over
that order (`Hits`), so that both can be reasoned about.

`OpaEngine` follows each query: sent under a version of the server's rules,
answered there (`Serve`), its head and body read, timed out, turned over to the
fallback, settled.  `evaluate` is one query; `consultPhase` and
`previewToolAccess` read the verdicts of theirs (`Opens`, `PreviewOf`).

`TraceEmitter` keeps the counter of the process, and of each run its trace and
the plan and action steps it holds in local variables.  `AuditEngine` adds an
engine of events to the governed runs; an object is a record, a key may be there
with the value undefined, and `Sha256` is injective.

## 3. Runs

| Run | Question | Result |
|---|---|---|
| `governed_pipeline` | Do runs keep their invariants, their action properties and the promise of `GovernedRun`, stopped by any budget at any statement, and end? | holds |
| `governed_sealed` | Does every run that is stopped end in a sealed envelope? | no: finding 1 |
| `governed_stop` | Is no handler started once the run has been stopped? | no: finding 2 |
| `circuit_breaker` | Does a call keep `LLMCall`'s contract, bound its overshoot, keep its stop and return? | holds |
| `model_stream` | Is a stream, however it is cut, the answer a buffered call gets? | holds |
| `permission_manager` | Do grants and lifecycle events stay consistent under any interleaving and any clock? | holds |
| `delegated_runs` | Do chat and coder runs keep their invariants and `GovernedRun`'s promise, and end, whatever budget stops them? | holds |
| `tool_registry` | On which contract do concurrent calls start handlers, and is each answered, once? | holds |
| `capability_manifest` | Are decisions those of an order-free definition, do narrowings hold, and is what the model is shown what is enforced? | holds |
| `opa_engine` | Does the OPA engine fail closed, and always answer, whatever the server does? | holds |
| `audit_engine` | What holds of the traces of runs that share one step counter, and of a sealed and stored envelope? | holds |
| `audit_stored` | Does an envelope kept as JSON verify? | no: finding 3 |

### What the properties say

*Governed run.* `EnvelopeSettlesPermissions`: a sealed envelope shows the
present, settled end of every permission.  `EnvelopeAccountsAgree`: its lists
agree with each other and with the trace, an execution without a receipt is
the last one of a run denied at `observe_result`, and a receipt of success names a
call that ran.  `SuccessIsComplete`: "succeeded"
means every planned call was requested, granted, acted on, observed and receipted
within a hard budget; not that it was executed, since the receipt may be one of a
call that the registry refused.
`RefusalIsFinal`: nothing happens after a refusal, and the refusal is what is
reported.  `StepAndToolBudgetNeverOverspent`.  `ExecutionIsAuthorised`: a handler starts
only for the current, granted call under its own permission, valid at that
moment.  `StoppedRunTakesNoAuthority`: a stopped run asks for, is given and
observes nothing.  `KeepsThePromise`: refinement of `GovernedRun`.
`RunEnds`: liveness.

*Chat and coder runs.* `RunSafety` joins what both loops keep: their types;
`PathsFollowTheFSM` (no path asks for a transition the adjacency map does not
have); `ReturnsSealed` (a run that returns is sealed and its trace reports its
status); `RefusalEndsTheRun`; `LoopBudgetNeverOverspent`.  `ReportMatchesTheRun`:
success means that every call of the last plan was decided and observed within a
hard budget and, of a coder run, that the last critique passed; failure is only
reported with all repair attempts spent.  `StoppedRunWindsDown`: a stopped run
requests, decides and observes nothing, and starts at most the one handler whose
call took the last of the tool budget.  `KeepsThePromise` and `RunEnds` as above;
the promise covers the repair loop: no new plan with a call left half-way.

*Breaker.* `LeavesAnLLMResult`, `OvershootIsBounded` (by the rest of one read),
`StopIsKept` (a stop the breaker decided on reaches the run, unless the answer
was already complete; later events hide neither an exhausted allowance nor its
reason, and what is charged after it relabels nothing), `TextEndsTheCall` (a call
returns unless, with no limit reached, it comes back to wait for its server for ever
and the text stops growing: the server stalls, ends no event, or sends chunks
without text).

*Streams.* `AnswerIsTheMessage`: whatever the cuts, a stream that arrived is the
answer of a buffered call, unless its body ends on the CR behind `[DONE]`, which
is refused; and of one that ended early the text is a prefix and the tool calls are
calls of the message with whole arguments or none.
`ReportedIsAnswered`: nothing is returned that `onChunk` was not shown.
`StreamEndsTheCall`.

*Permission manager.* `LogTellsTheStory` (each grant has exactly the events its
status says), `SettledIsFinal`, `ConsumedInsideItsWindow`.

*Registry.* `StartedOnAnEarlierContract`: the weak form of contract validation
that the cache leaves; `ValidatorsOnlyGetNewer`: no call is validated against an
older contract than one before it, however misses of the cache and registrations
are interleaved; `AnswerIsFinal`: a late handler changes no answer and none is
started after one, a rejected call has started nothing, and a success is that of a
handler which ended; `CallsAreAnswered`.

*Policies and manifest.* `AnswersAreReference`: the loop with its sort, early
return and first hits computes a definition that mentions no order
(`DecisionIsReference`), and phases follow the rules that name them.
`ExecutedWithinNarrowing`: what passes the registry's check under a narrowed
scope is within the narrowing.  `AdditionsNeverUnrestrict`: adding a policy never
lifts a denial or a narrowing.  `ManifestIsEnforced`: what a manifest made from
the engine's preview says of a tool is what happens to a call of it.
`SandboxReadingsAgree`: under the default policies of a sandbox, a tool is shown
exactly when it is executed.

*OPA.* `FailsClosed`: without a fallback a phase opens, or a tool is offered, only
if rules in force during the operation say so.  `KeepsTheOracle`: refinement of
`PolicyOracle`: no query is answered twice, by rules replaced before it was sent,
by OPA once the fallback has been asked, or by anybody but these two.
`CallsAreAnswered`.

*Traces and envelopes.* `ParentsAreEarlierSteps` holds of all concurrent runs;
`NewestTraceIsUnambiguous` only of the run that reset the counter last: its ids
increase, and the pairing validator finds exactly the missing observations.
`SealedRecordAgrees`: a sealed envelope verifies, spells its chain, hashes the
trace that is returned but for the id written last, and a copy that verifies was
not damaged.

### Bounds, and why they are enough

* `governed_pipeline`: two tool calls (the loop body with and without its
  `i > 0` part, and a call before and after a refusal), a permission that lives
  two ticks on a clock of three (it can expire before dispatch, while the tool
  runs, or not at all), and budget policies chosen so that a run of two calls,
  which takes 13 steps, is stopped at each of them, by its tokens and by its
  tool calls, as well as soft and warning enforcement.
* `governed_sealed`: step budgets of one to seven, too short for a run.  The shortest
  counterexample is the step budget of one.
  `governed_stop`: three of the policies of `governed_pipeline`.  Both have a clock of
  two.
* `delegated_runs`: two calls a plan and one repair.  A chat run takes 14 steps,
  two plans of a coder run 27 and four tool calls; every length up to 28, every
  tool budget up to 5 with short token budgets, soft and warning enforcement.
* `circuit_breaker`: deltas of 0, 1, 3 and 5 characters cross the rounding of the
  estimate (4 characters a token), a length limit of 6 is passed in two chunks,
  allowances from none to more than the limit can hold, reads of up to three
  events, chunks without text among them.  `MaxUsage` is 21 = 6 + 3 * 5, the
  most text that can be decoded (`ChunkAssumption`).
* `model_stream`: a text of two chunks with a comment, usage and `[DONE]`, and two
  tool calls whose deltas alternate with no `[DONE]`; either line end; every
  cut into reads, and every early end.
* `permission_manager`: three interchangeable permissions (symmetry is sound:
  nothing orders them, and no liveness is checked), lifetimes of one and two
  ticks, a clock of four.
* `tool_registry`: two calls (both waiting for a validator, one cached and one
  not, one late and one new), three registrations: a wide contract, a narrower
  one and one whose schema does not compile, arguments that tell them apart
  and from the granted scope, and every kind of authority.  Of the categories that a
  handler may return itself one that the registry returns, too, is enough.
* `capability_manifest`: up to three policies in any order from a catalogue of
  eight that meet in priority, window, pattern, condition and action; more than
  three only repeat what a pair already does to the first hits.  The clock
  crosses the opening of one policy and the closing of another and of a rule.
  A narrowing rule without a narrowing stands before one that has one.  Sandboxes that
  name the tool, every tool, another one or none, with the policies made of
  them and up to one more.
* `opa_engine`: a consultation and a preview of three tools, one hidden, at the
  same time; rules replaced once, by others that change every answer; no
  fallback, one that knows nothing of phases, one that rejects.
* `audit_engine`, `audit_stored`: a governed run of two trace steps next to a chat
  run of four, three audit events, one damaged value.

Counters are bounded by these constants only; no state constraint is used.

### Deadlock

TLC checks for it except in `tool_registry` (all calls answered and nothing left
to register) and in the two `AuditEngine` runs (traces and events at their bound),
where the system may stop.  The other models end in an explicit stuttering step
of a finished run.

### Fairness

`GovernedPipeline!FairSpec` and `DelegatedRuns!FairSpec` assume weak fairness of
the run's steps: the policy engine and the model answer or fail (`OpaEngine` and
`CircuitBreaker` say when), and a handler answers or is given up on by its
timeout (`core/tool-registry.ts:108`); nothing is assumed of the clock.
`CircuitBreaker!FairSpec` assumes that the events that were read are handled and that
a read which was aborted is left (one event loop, `backends/openai-compat.ts:181`).
Nothing is assumed of the server: neither that it sends anything, nor that a stream
ends or fails, which is what makes `TextEndsTheCall` a statement about the breaker.
`ModelStream!ChatFairSpec` assumes only that what was read is worked off: a server may
pause for ever, and the backend has no timer of its own.
`ToolRegistry!FairSpec` assumes that the import ends, that the event loop
resumes what can be resumed and that timers go off; neither that handlers end
nor that anybody registers or calls.  `OpaEngine!OpaFairSpec` assumes that timers go
off and that the fallback engine answers, and nothing of the server.

## 4. Findings

Each is a disagreement between a document of the repository and what the code
does; the violation runs of section 3 produce the behaviours.

1. *A run may end without an envelope.*  `docs/eli5_guide.md:40` promises that
   "at the end, the whole run is sealed".  A budget of one step runs out at
   `governed-pipeline.ts:206`, which seals the FSM, and the transition on the next
   line throws `TerminalStateError`: that is the counterexample of `governed_sealed`.
   With longer budgets the same happens at 225, 248, 270, 280, 307, 317, 328, 338, 352 and
   434, and, when the tool call took the last of the tool budget, at 394.
2. *A tool is executed in a stopped run.*  The last allowed tool call brings the
   tool budget to zero, which force-stops the run at 364; the registry is called
   at 369 all the same.  Documented otherwise in
   `docs/model-adaptation-budget-control.md:14`.
3. *A stored envelope does not verify.*  The pipelines seal with an engine to
   which nothing was emitted, so `event_chain_head` and `event_chain_tail` are
   undefined (`governance/audit-engine.ts:154`): the hash covers the keys, JSON
   drops them.  `docs/eli5_guide.md:46` calls the envelope "a single JSON object"
   with "a hash proving none of it was tampered with".

The models show others, and the properties are stated so as to allow exactly
what the code does:

* A policy engine that throws ends the governed run as well, with its permissions
  left active and no envelope (`governed-pipeline.ts:133`, `:163`, `:308`).
  `RunEnds` counts it as an end.
* A trip on the last events of a stream is lost (`core/llm-circuit-breaker.ts:173`):
  the answer is returned and the pipeline goes on, against
  `harness/README.md:189`.  `StopIsKept` excepts it.
* A handler may run on arguments its contract does not admit: the validator is
  cached by name (`core/tool-registry.ts:232`) and kept across registrations,
  against the module's own description (`tool-registry.ts:4`).
* An executed call has no receipt when the policy denies `observe_result`
  (`governed-pipeline.ts:401`); `docs/eli5_guide.md:40` promises one for every
  call.  `EnvelopeAccountsAgree` says that this is the only way.
* Chunks without text are not counted (`backends/openai-compat.ts:461-466`), so a
  stream of tool-call arguments passes any allowance, against
  `harness/README.md:187`; `TextEndsTheCall` excepts it.  (The allowance is also
  sent as `max_tokens`, so a provider that honours it ends the stream.)
* The backend has no timer: a server that stalls, or ends no event, holds up the
  call, and the run, for as long as it likes (`backends/openai-compat.ts:181-214`).
* A body that ends between the CR and the LF behind `[DONE]` is refused: the CR stays
  in the payload, and `"[DONE]\r"` is parsed as JSON
  (`backends/openai-compat.ts:346-355`, `:444-448`).
* The registry asks for no permission of a call with standing authority or without
  any, and not whether it is still valid when the caller brings no
  `isPermissionValid` (`core/tool-registry.ts:161-174`).  The three pipelines bring
  both.
* From an error that the registry returns a caller cannot tell whether the handler
  has run: a handler may return any category itself, as `tools/mock-tools.ts:28` does
  (`core/tool-registry.ts:107-124`).
* A body that ends without `[DONE]` is taken for an answer that has finished: its
  finish reason is "stop", and a tool call cut before its arguments is returned
  with `{}`.  A buffered answer with a nameless tool call passes, a streamed one
  throws.
* `recordRetry` has no caller: the repair loop (`coder-pipeline.ts:381-387`) is
  bounded by its option and not by the retry budget of `harness/README.md:178`.
* Of the critiques of one plan only the last counts (`coder-pipeline.ts:371`): a
  failure behind an earlier call is forgotten.  `ReportMatchesTheRun` speaks of the
  last one.
* A coder run stopped by the charge at `coder-pipeline.ts:370` reports "failed",
  because line 382 overwrites the status, against `harness/README.md:180`.
  `ReportMatchesTheRun` allows it when, and only when, the attempts are spent.
* Only the first matching rule of a policy counts (`policy-evaluator.ts:186`), so
  a deny behind an allow in one policy has no effect, against
  `docs/eli5_guide.md:230`; among policies deny does win (`AnswersAreReference`).
* An empty allowlist allows every tool to the registry and the manifest's own
  reading, and none to the preview and the default policies: a tool hidden from
  the model can be executed, or one shown is denied.  `ManifestIsEnforced` and
  `SandboxReadingsAgree` name the case.
* The constraints a manifest shows may come from policies the engine does not
  apply to that tool (`manifest-builder.ts:90-128` looks at neither windows nor
  conditions).
* A sandbox name that ends in `*`, or the wildcard in the blocklist, is a prefix
  to the policies made of the sandbox (`policy-evaluator.ts:69-75`) and a plain
  name to its other readers, so `SandboxReadingsAgree` is stated of sandboxes that
  name tools (`ManifestAssumption`).
* The OPA engine turns a consultation that fails over to its fallback's
  `evaluate`, not to its `consultPhase` (`opa-policy-engine.ts:57-69`, `:72`): an
  in-process fallback without rules for phases then closes every phase, which
  by itself it would open.  A status nobody knows opens a phase; "narrowed"
  without `narrowed_scope` grants the whole requested scope.
* Every run resets the one step counter (`core/trace-emitter.ts:19`), so the ids
  of a run that another one follows start again, against `trace-emitter.ts:5`,
  and the pairing validator may take one action for another.

## 5. Theorems

TLAPS checks the following for every value of the constants that satisfies the
named assumptions: `LLMCallAssumption`, `GovernedAssumption`,
`DelegatedAssumption`, `CoderAssumption`, `BreakerAssumption`,
`ManagerAssumption`, `RegistryAssumption`, `TraceAssumption`, `AuditAssumption`
and `EngineAssumption` only give the constants their types; `ChunkAssumption`
says that chunks have a longest and that `MaxUsage` leaves room for all that can
be decoded; `OpaAssumption` that an engine without a fallback denies
(`opa-policy-engine.ts:62`); `ManifestAssumption` that the pattern `tool:*` covers
the tools and that the lists of a sandbox are finite and name tools: a name ending
in `*` would be read as a prefix by some and as a name by others (section 4).
`StreamAssumption` says that a server streams the message it would send in one
piece: what its events say in order is the message, `[DONE]` comes last, a call has
one name, and no proper part of a call's arguments is itself a JSON object.
The theorems about the in-process engine are of `ManifestSpec`, which starts from
any policies and adds and removes any; only `SandboxTheorem` needs what
`ManifestAssumption` says of sandboxes.

| Module | Theorems | Inductive invariant |
|---|---|---|
| `PipelineCoreProofs` | lemmas only: what every operation of the core, and every result of a model call, keeps of a run | |
| `GovernedPipelineProofs` | `TypeCorrect`, `BudgetTheorem`, `SettlementTheorem`, `AuthorityTheorem` | `IInv` |
| | `AccountsTheorem`, `SuccessTheorem`, `RefusalTheorem`, `StopTheorem`, `PromiseTheorem` | `LInv`: `IInv`, `LoopInv`, `StatusInv`, `EndInv` |
| `DelegatedRunsProofs` | `RunTheorem`, `ReportTheorem`, `StopTheorem`, `PromiseTheorem` | `IInv` |
| `ModelCallProofs` | `ResultTheorem`, `OvershootTheorem`, `StopTheorem` (of `CircuitBreaker`) | `IInv`: `RunInv`, `TextInv`, `StopInv` |
| | `StreamAnswerIsTheMessage`, `StreamReportedIsAnswered` (of `ModelStream`) | `StreamInv`: `Progress`, `Told` |
| `PermissionManagerProofs` | `ManagerTypeCorrect`, `LogTheorem`, `FinalTheorem`, `ConsumptionTheorem` | `TypeOK` and `LogTellsTheStory` |
| `ToolRegistryProofs` | `TypeCorrect`, `ContractTheorem`, `AnswerTheorem` | `IInv`: `QueueInv`, `CacheInv`, `CallInv` |
| | `ValidatorTheorem` | `OrderInv` |
| `PolicyProofs` | `FailsClosedTheorem`, `OracleTheorem` | `OpaInv`: `QueryInv` of every query |
| | `AnswersTheorem`, `NarrowingTheorem`, `AdditionsTheorem` | `ListsInv` |
| | `ManifestTheorem`, `SandboxTheorem` | `ListsInv`, `ShownInv`, `ClockInv` |
| `AuditEngineProofs` | `ParentsAlwaysEarlier`, `NewestTraceNeverAmbiguous` | `TraceInv` |
| | `SealedRecordAlwaysAgrees` | `RecordInv` |

*Governed run, safety.*  None of the properties is inductive, since nothing in
them says what a run that is about to charge a budget, or to be sealed, looks
like.  `IInv` adds

* `Sound(run)`: under hard enforcement a budget that has run out has sealed the
  run, and no step or tool call has been overspent;
* `PointInv`: a suspended run has not thrown, and is not sealed either unless it
  waits for the registry (the one call the code makes without looking); with
  `Sound`, each charge falls on a budget that is not used up;
* `CallInv`: the call being processed was requested, and beyond the decision it
  was granted;
* `GrantInv`: a call has a permission when it was granted, and the copies in the
  state cover the same calls as the manager's table;
* `SealInv`: a suspended run has no envelope.

`NextIInv` takes the actions one at a time; `FinishSeals`, `StepThenTransition`,
`RequestKeeps` and `ThrowKeeps` do what several of them share.

*Governed run, accounts.*  At every await the requests, decisions, grants,
actions, executions, observations and receipts are prefixes of the plan, and
`pc` and `i` give the length of each (`GrantedTo`, `StartedTo`, `ObservedTo`):
that is `LoopInv`.  `StatusInv` says that a run is "running" until it is stopped and
that a stop is never a success.  What the envelope reports, and the refinement
of `GovernedRun`, are read off the prefixes: a step that lengthens one of them
is a step of the promise, every other a stutter.

*Chat and coder runs.*  The same argument, with `RunInv` (the run is in the phase
the code expects at `pc`, or has been stopped), `LoopInv` (prefixes),
`VerdictInv` (a run that waits for its answer has the verdict it will report)
and `DispatchInv` (only the charge for the call itself can have stopped a run that
waits for the registry).

*Breaker.*  Until it returns the run is the one it was called with; what was
decoded is bounded by the events of the current read already handled; and the
stop is set exactly when a limit has been reached (`StopInv`).  It makes the
estimate that is charged fit the reason that is given, which is what `LLMResults`
demands.

*Streams.*  The argument looks at the body with the CRs of its line ends left out
(`Plain`), which is the same for either server.  `Progress(k)` says that what was put
together is what the first k events say, and that the buffer is a `Window` on the
rest: what was read of it, with at most one CR at its end whose LF is still to come.
`ArrivalKeepsTheWindow` is where the cuts go: normalising the old buffer with what
arrived gives the window that reading both at once would have given.  In a window
the first empty line is the end of event k + 1 (`CutOff`), so cutting it off
hears exactly that event (`Consumed`); what is left when the body ends is nothing,
a piece of one event, or its whole line (`LeftInTheEnd`).  `WholeIsRead` then turns
"everything was read" into k being the number of events.  For a stream that ended early,
`SaidGrows` shows that from one event to the next the text is extended and each call
keeps its name and has its arguments extended, and `PartOfTheArguments` that a call which
parses has all of them or none.  `Said` and `AccumulateToolDeltas` are recursive functions,
which `LoopHasARun` gives their values; `Ascending`, a choice in its every member, is
shown to list a finite set in order (`AscendingIs`).

*Permission manager.*  `Settles` describes any step of the manager as "expire what
is overdue, then settle a set of what is still active"; each method is shown to
be such a step, and one lemma shows that such steps keep the log and the table
together.

*Registry.*  A call is followed through its awaits (`CallInv`); what other calls do
to it goes through the cache, which holds validators of contracts that were
registered and compile (`CacheInv`), and through the queue of those that wait
for the import, each of them once (`QueueInv`).  `OrderInv` makes the validators only
get newer: the queue is in the order of the contracts its calls looked up, none of
these is older than the one in the cache, and that is as new as any in use.

*OPA.*  `QueryInv` follows a query from the version it was sent under: what is on
the wire is what rules in force since then gave, and what it settled on is that
or the substitute.  In the refinement a query that waits for the fallback is
abandoned, and nothing but the substitute answers it from there on.

*In-process engine.*  The state says little (`ListsInv`: both lists are the same
list of policies); the work is in what the evaluator computes from it.  The sorted
policies are a choice among lists in order, and the loop over them a recursive
function.  That a finite set has such a list, complete (`OrderHasAList`,
`ListIsComplete`), and that a loop has a run (`LoopHasARun`) is proved by induction
over the natural numbers, which `InductionOnNat` derives from their being well
founded.  `FirstOf` is the loop's invariant: after k turns the hit of an action is
the first of the k policies looked at whose spokesman takes it.  At the end that is
the first of all (`FirstOfAllIsFirst`), and `EvaluationFollows` states the decision
by votes alone; everything else rests on it.  Adding a policy keeps the voters
there are (`AdditionsKeepVoters`), so a denial stays one.

*Manifest.*  `ShownInv`: as long as nothing was added the manifest shown is the one
that would be compiled now; and a line that hid a tool because a rule denied it
still has a deny among the votes.  `CalledAsAsked` makes a call of a tool without
conditional rules the same to the evaluator as the question the preview asked.
For the sandbox, `SandboxPoliciesMade` says what the compiled policies are,
`SandboxVotes` who then votes, and `RulesAboutAreRules` what the manifest's own
reading finds.

*Traces.*  `TraceInv` says what a run holds in its local variables: a plan in its
own trace, and its last action; an observation names the last action before it, and
the run that reset the counter last is numbered up to the counter.  Pairing by id
is then pairing by position.

*Envelopes.*  `RecordInv`: the events of an engine are the chain 1, 2, ..., and a
sealed envelope is `EnvelopeOf` the trace and the events at the seal; a damaged copy
differs from what was hashed in the field that was damaged (`DamageShows`).

Only model-checked: liveness (`RunEnds`, `TextEndsTheCall`, `CallsAreAnswered`,
`StreamEndsTheCall`), which is out of the prover's reach.  Every safety property of a
passing run is stated by a theorem.

## 6. Not modelled

* The TOON adapter (`adapters/toon-adapter.ts`): a text encoding of JSON, one
  recursive pass over strings without state, that nothing in the harness calls.
  The manifest's encodings as JSON or compact text likewise: no decision is
  taken in them.
* `checkPolicy` (`core/loop-policy.ts`), which has no caller in the harness, and the
  schema half of `core/validator.ts`, which hands a document to ajv.
* Tool stubs (`tools/*`), the canned answers of the mock backend, request bodies,
  prompts, answers and trace text; hashes other than the envelope's, identifiers.
* Alias of `budget_final`: an envelope shares the live budget object, but nothing
  is charged to a run after its seal.
* Type declarations, re-exports, RFCs, JSON schemas, Rego policies and examples.
* The Python tools, experiments, benchmarks and datasets: sequential batch
  scripts, each a single pass over files.

## 7. Plan

All of it is done, in this order:

1. `PipelineCore`, `LLMCall`, `Permissions`; `GovernedPipeline` with `GovernedRun`.
2. `CircuitBreaker`, checked against `LLMCall`; `PermissionManager`.
3. `DelegatedCalls` with the chat and the coder pipeline; `ToolRegistry`;
   `PolicyEngine`; `TraceEmitter`.
4. `CapabilityManifest`, `OpaEngine` with `PolicyOracle`, `AuditEngine`,
   `ModelStream`.
5. Proofs: the governed run, the permission manager, the registry, the OPA
   engine, the chat and coder runs with their refinement, the breaker against
   `LLMCall`, the governed run's accounts and refinement, the traces and envelopes,
   the in-process engine and the manifest, the streams of a model's answer.

Left: a composition of several governed runs over one
registry and one step counter, which today meet only through the assumptions
that `ToolRegistry` and `TraceEmitter` make of their callers.
