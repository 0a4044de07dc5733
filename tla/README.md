# PhiGate in TLA+

PhiGate is a gateway between applications and language-model backends. It masks
what is sensitive in a prompt, classifies what it found, lets an egress policy
confine the request to a local backend or refuse it, answers from a cache where
it can, guards what comes back, and accounts for all of it. This directory
models the parts of that program where order and concurrency matter, checks
them with TLC on small instances, and proves the central guarantees with TLAPS
for every instance.

## 1. Inventory

| Part | State | Operations | Interacts with |
|---|---|---|---|
| Request path (`internal/gateway/handler.go`, `stream.go`, `embeddings.go`, `tools.go`) | per request: the pinned configuration, the plan, the response | plan, lookup, call, fallback, put, finalize, stream, finish | every part below, by calls from one goroutine per request |
| Runtime state (`gateway.go`, `middleware.go`) | one atomic pointer to configuration, views, guard, verifier | authenticate, Reload (publish, then purge) | requests load the pointer, twice per request |
| Egress policy (`internal/policy`) | none | Evaluate, CloudFallbackAllowed | request path |
| Sessions (`internal/session`, `internal/compressor/session.go`) | LRU map of conversations; each: dictionary, categories, highest class | Get, Touch, Note, expiry, eviction, Drop | shared by the requests of a conversation |
| Template cache (`internal/cache`, shared tier in `ee/cache/shared`) | LRU map with TTL; a second tier in Redis | Shape, Key, Get, Put, Restore, Purge | all requests; purged by Reload |
| Breaker and retry (`internal/llm/resilience.go`, the two clients) | failure count, time of opening | allow, success, failure, retry | every upstream call |
| Budget guard and durable ledger (`internal/gateway/budget.go`, `ee/tokens/durable`) | pending map, database | check, Record, Consumed, Flush, Periods, Open, Close | middleware asks, finish records, a loop flushes |
| WORM audit chain (`ee/audit/worm`) | queue, drop counter, chain head, segment files | Log, the writer, rotate, checkpoint, New, Close, Prune, Verify | finish logs, one goroutine writes |
| In-memory ledger and prices (`internal/tokens`) | totals per tenant and route | Record, Consumed, Totals | finish |
| Rate limiter (`middleware.go`) | token buckets | Allow | middleware |
| OIDC (`internal/oidc`) | cached signing keys, last attempt | lookup, refresh, verify | authenticate |
| Configuration (`internal/config`) | immutable once loaded | defaults, file, environment, Validate, resolution per tenant | Reload, authenticate, limiter, plan |
| Redaction (`internal/redact`), compression (`internal/compressor`), names (`ee/redact/slm`) | per-call only, but for the session's dictionary | detect, mask, cluster, fold, prune, hydrate | plan, finalize |
| Router | none | Route | plan |
| Guard and stream scanner (`internal/sandbox`) | per stream: held text, sealed or not | Write, Close, Inspect | finalize, streamResponse |
| Streamed answer (`gateway/stream.go`, `toolstream.go`) | per stream: scanner, masked text, call fragments, started or not | feed, fallback, emit calls, replay | scanner, cache, backend |
| Wire formats, metrics, dashboard, tracing, commands | read once, or write-only | - | - |

What is hard here:

- *Concurrency.* Requests of one conversation share a session object that rises
  in sensitivity, and a dictionary that grows, while others are being planned; the
  cache is shared by all; an evicted session lives on in the request that holds it; a
  reload may fall between any two steps. Breaker outcomes arrive late and out of order,
  and lookups of signing keys overlap with the rotation they are caused by.
- *Two-step reads.* The audit event reads the session's class after the policy
  did; the configuration is loaded once in the middleware and once in the
  handler; Consumed reads the disk and the memory separately; Log asks whether the sink
  is open and then sends, and a `Close` of ledger or sink may fall between.
- *Two readings of one text.* The commit rule of a stream reads a line as the model wrote
  it, the guard reads what its placeholders stand for.
- *Time.* An answer ages in two tiers, one of which restarts its clock; a session is
  touched without moving in the list its janitor sweeps; a bucket is refilled for a
  time that passed under other limits.
- *Failure.* Calls fail before or after the first byte, the fallback is a second
  call, a write fails after its sequence number was spent, a flush fails after
  its batch was taken, and every stop of the process is a crash for the ledger and the
  chain: the enterprise command, which has them, handles no signal, so their `Close` is
  reached only in tests and by embedding programs.

What makes each part correct, in a line: a confined payload never leaves, by
any route; what is audited and billed agrees with what happened; a cached
answer answers the same question and names the asker's own values; what is masked
comes back as it was; a verifier's keys only advance and a tenant's limits hold from the
reload that brings them; the breaker opens only on a streak and always
closes again; no token of consumption is lost or doubled but by a crash; the
chain is unbroken and no event is missing from it without trace.

PROJECT.json lists every component with its status and every hazard at its line.

## 2. Modules

| Module | Models | Role |
|---|---|---|
| `EgressPolicy` | `policy.go`, the ranks of `redact.go`, the constraint in `plan` | operators, used by `Gateway` |
| `Gateway` | the request path over sessions, cache and configuration | the core |
| `GatewayProofs` | - | its inductive invariant and theorems |
| `MCGateway` | - | its instance |
| `Breaker` | `resilience.go` and the calls around it | component |
| `BreakerProofs`, `MCBreaker` | - | proofs and instance |
| `SpendAccount` | the promise of the durable ledger's package comment | abstract specification |
| `DurableLedger` | `durable.go` with `budget.go` | component, implements `SpendAccount` |
| `DurableLedgerProofs`, `MCDurableLedger` | - | proofs and instance |
| `WormAudit` | `worm.go`, `Prune`; `Verify` as a property | component |
| `WormAuditProofs`, `MCWormAudit` | - | proofs and bounds |
| `EgressGuard` | `scope.go`, the rules and the lexer as far as they matter, hydration, the commit rule | operators on texts, used by `StreamScanner` |
| `StreamScanner` | `sandbox/stream.go` | operators on the record of a scanner, used by `StreamedAnswer` |
| `StreamedAnswer` | `gateway/stream.go`, `toolstream.go` | component |
| `StreamedAnswerProofs` | - | proofs about the three |
| `MCStreamedAnswer` | - | answers and dictionary |
| `CheckDigits` | `validators.go` | pure operators, used by `Redaction` |
| `Redaction` | `redact.go`, `entropy.go`, `ee/redact/slm` | pure operators, used by `Compression` |
| `Dictionary` | `dictionary.go` | operators on the record of a dictionary |
| `Compression` | `compressor.go`, `drain.go`, `refdict.go`, `astprune.go`, hydration | pure operators, used by `Conversations` |
| `TemplateCache` | `cache.go`, `canonicalise` | operators on the sequence of a cache's entries |
| `SessionStore` | `session/store.go` | operators on the sequence of a store's entries |
| `Conversations` | `plan` to `finalize` over these, with `ee/cache/shared` | composition |
| `ConversationsProofs` | - | proofs |
| `MCConversations` | - | workloads, and reference definitions of the pure parts |
| `Settings` | `config.go`, `file.go`, the builders of `gateway.go` | operators, used by `Admission` |
| `Identity` | `oidc.go`, `parseJWKS` | operators, used by `Admission` |
| `Admission` | `middleware.go`, `jwks.go`, `server.go`, Reload | component |
| `AdmissionProofs`, `MCAdmission` | - | proofs; cases and reference definitions |
| `SumsAndSequences` | - | lemmas on sums, sequences and recursive functions that several proofs cite |

### Gateway

One request is a record whose `pc` follows the handler:
`auth`, `begin`, `mask`, `event`, `lookup`, `wait`, `put`, `deliver`, `keep`,
`done`. The steps are cut where the code touches shared state, so that
everything another goroutine could see in between can happen in between:

| Action | Code |
|---|---|
| `Authenticate` | `authenticator.Wrap`, with the refusals of the rate limiter, budget and role checks as a choice |
| `Begin` | `now()` in the handler, and `Store.Get` with creation and eviction |
| `Mask` | one finding masked and noted on the session (`Session.Note`), in the order of messages then tool definitions |
| `Judge` | `policy.Evaluate` on the session's highest class, the router's answer constrained by it; embeddings take the policy's backend |
| `BuildEvent` | the audit event, which reads the session again |
| `Refuse` | a denied plan |
| `Hit`, `Miss`, `CannotEmbed` | the cache lookup, the first call, an embeddings request whose backend has no such endpoint |
| `Reply`, `FailClean`, `FailMidStream` | the call's outcome, with the fallback |
| `Put`, `Deliver`, `StreamOut`, `Keep` | the store before the guard (blocking) or after it (stream), the guard, and `finish` |
| `Reload`, `Purge` | the two steps of `Gateway.Reload` |
| `ExpireSession`, `ExpireEntry` | the janitor, an expired `Get`, an entry past its TTL |

A session object is named by the request that created it. A value is a model
value; what a rule set says of it is the constant `Class`: 0 is "not found".
`Shape` is translated from `cache.Shape`: tokens numbered by first appearance,
everything else as it is, which is what the key is made of. An answer is plain,
destructive (the guard has something to say about it) or empty. Warnings are not
told apart from clean answers, nor is the enumeration stop, and errors of a
compression stage, none of whose stages returns one, are left out.

### Breaker

`failures` is the code's counter, `cooled` says that the cooldown is over, and
each caller is idle, calling or backing off. `Ask` is `allow`; `Proceed` is the
rest of the call. A retry happens inside one admission, as in `Chat`; a stream
or an embedding fails at its first error. `calm` is the environment: the
backend answers and callers wait for it. `streak` is a history.

### DurableLedger

`disk`, `pending` and a batch per flusher (the loop, which also makes the flush
of Close, and any number of reports) hold amounts per tenant and period. A
budget check is three steps: start, read the disk, read what is pending and
decide. `read` drops the error of the database, so a check that meets one that `Close` has
closed finds nothing on the disk (`OnDisk`). A request is recorded in the period it ends in. `Crash` empties the
memory, `Open` finds the disk as it was. `Account == INSTANCE SpendAccount WITH`
maps the abstract `safe` to the disk and the abstract `spent` to all there is in
any place: `KeepsAccount` is the refinement.

### WormAudit

`Log` is the check that the sink is open, `Send` the send that never waits; what does not
fit is counted in a step of its own (`Drop`). A `Close` may overtake a handler between the
two: its send panics on the closed channel, the server recovers the handler, and the
event is gone (`Panic`). `Dequeue` swaps the counter and lays out what the writer will
append for one event (gap, event, checkpoint); `Rotate` and `Write` are the two
halves of `append` that a crash can come between. `Fail` spends a sequence
number and leaves the head, and may leave part of a line; `bufio` keeps the
error, so nothing is written until `New` (`FailAgain`). `Open` resumes from the
newest segment only, as `resume` does. A hash is modelled by the fields it
covers, which makes it injective. Pruning removes the oldest segments: time goes
on along the chain, so those past their retention come first.

### EgressGuard, StreamScanner, StreamedAnswer

A text is a sequence of pieces, each the least that the guard, the commit rule or
hydration could tell apart, and each a place where the backend may cut its
answer: the beginning of a word, its end with the blank, the name of a program,
an operand that is destructive whatever follows and one that is only if nothing
does, a backtick, a fence marker, an end of line, one that continues the command,
the halves of a fork bomb and of a placeholder. `Inspect` is `RuleGuard.Inspect` over
`extractExecutable`, told as what `Reading` a text piece by piece comes to; `Hydrate` is
`HydrateReport`, told as what each piece resolves to (`Resolved`); `CommitIndex` is how much of half
a line may go out. Left out of the text are shell prompts, list markers, SQL, pipes and
quotes, each of which makes the scanner hold a line that it would hold anyway for a
program's name, and the second kind of fence marker. A fence marker in the middle of
a line counts as one backtick and is not cut.

`DictionaryAssumption` says what of the dictionary this rests on: that a masked value is
one word, harmless, an operand or the path of a program (the rule `unix_path` masks
`/bin/rm` like any other path), so that hydration makes neither a line, a marker nor
another placeholder. A value of several lines, which the redactor can mask, is outside
this model. The commit rule takes the placeholder of a program for prose; the guard reads
the program. Both are in the model, and finding 5 is what comes of it.

A scanner is a record: the tail of the line (`buf`), the open fence (`held`), what is
released of the line (`head`), and the flags. `Write`, `Close`, `FeedLine`
(and `FeedLines`, the loop over it), `CommitTail`, `Release` and the two size bounds take a scanner to a scanner and follow
their functions in `stream.go` branch by branch. Sizes are counted in pieces. `out` is
what the callbacks have emitted; `cramped` and `recited` record that a size bound or
the enumeration stop took something out of the ordinary course.

`StreamedAnswer` is `streamResponse`: `TextDelta` and `CallDelta` are `feed`, `End` is
an answer that came whole, `BreakOff` an error after the first byte, `FallBack` one
before it that the policy lets the cloud answer, `Fail` one it does not. `Conclude`
is what follows: `Close`, the vetting of the calls, the store. `Replay` is
`streamCached` for the same question in the same conversation, where `Restore` undoes
what `canonicalise` did; what another conversation makes of an entry is a matter of
the key, which is `Gateway`'s. A client that goes away makes the scanner's callback
fail and the backend's stream end in an error, which is `BreakOff`.

`BothPathsAgree` is the promise of `parity_test.go`, whose specification is one
line: the verdict on the stream is `Inspect` of the whole answer. It fails where a
placeholder stands for a program, so what is checked and proved is
`StreamedLikeBlocking`: whatever the blocking path would have blocked is sealed, for any
dictionary; and nothing else is sealed, if no placeholder of the answer stands for a
program (`ProgramsShown`). `ReplayAgrees` has the same exception: a live stream may pass
the pieces of a command whose replay, written at once, is cut and judged elsewhere.
`StreamedLikeBlocking`, `NothingLost` and
`ReleasedIsSafe` set aside the streams that met a size bound or dropped a piece that
recites the dictionary. For the last of these that is needed too: the dropped piece takes
its end of line with it, so a fence that the scanner saw begin the next line stands in
mid-line in what the client has, which as a whole may then be text the guard blocks. TLC
shows it with a buffer of 16 pieces and the answer `word tick open id1 open id2 tick nl
fence nl word nl fence nl prog word word disk nl`.

### Conversations and the operators it composes

`Gateway` takes what detection finds, what a token is called and what the cache loses as
choices; `Conversations` is where those are computed. A text is a sequence of items: a
word, a number, a line break, a long path, a piece of code, a token `<V1>` or `<#REF1>`.
A request goes through `Open` (`Store.Get`), then for each message `Find` (the detection
of `Redaction`, with the recogniser's answer as a choice among proper, absurd and none),
`MaskNext` for each value (one `MaskAs`, the step at which requests of one conversation
interleave), `Cluster` (the rewriting, the session's touch, and Drain), `Fold` (RefDict)
and `PruneCode`. A tool call's arguments and a tool's description go as far as the rewriting only
(`MaskedOnly`, after `maskToolCalls` and `walkTools`), and are part of the key like the rest. `Look` is the lookup in the replica's own cache, `Fetch` and `Promote`
the shared tier's, `Answer` and `Publish` the two halves of a put, `Deliver` hydration with
the session the request began with. `Sweep` is the janitor, `Purge` what a reload does, `Tick`
time.

- `Redaction`: a regular expression is the finite set of phrases it matches; the rest of
  the engine is translated: leftmost matches, groups with context, validators (the check
  digits, and `plausible_secret` of the secrets pack), priorities,
  the greedy resolution, one pass of rewriting, and the recogniser's layer over it. Findings
  are sets; an order is a set of pairs that `Sorted` makes a sequence of, and the two loops,
  over matches and over candidates, are recursive functions (`Matches`, `Greedy`).
- `CheckDigits`: the four validators digit by digit.
- `Compression`: Drain's buckets, similarity and templates, the folding of paths that
  repeat, and the pruning of code, in which every leaf that is neither structure nor a comment is
  a value.
- `Dictionary`: numbering per name space and the strongest rank a value was given.
- `TemplateCache`: `Shape`, `Restore`, `Key`, `Get` and `Put` on a list, the most recently
  used first. Where the code numbers tokens as it meets them, `Canonical` counts those that
  appear no later (`FirstAt`), which is the same number. `born` and `from` are histories no guard reads.
- `SessionStore`: the list in the order of opening, touch times beside it.

`ServedIsOwn` is what the cache promises: an answer cached under one conversation's
numbering and served to another names the values that the asker's own prompt had at the
place the model spoke of. `from` remembers which place that was.

### Settings, Identity, Admission

`Settings` is the path from the built-in settings through the file and the environment to
the configuration in force, with what each document is refused for and what it is let off
with. A document is a record of what is written in it; a written value is `Empty`,
`Malformed` or a value. `Effective` composes the three, `Loads` and `Builds` are what a
reload must pass, and the resolution per tenant (`PolicyFor`, `RateLimitFor`,
`RedactionFor`, `BudgetFor`) and per key (`RoleFor`) follows the code.

`Identity` judges a token once a key is in hand; a signature is good when the key is the
signer's and of the algorithm's kind, and time is counted from now.

`Admission` puts a request through the middleware: `Begin` is `authenticate` with the keys
first; `Lookup`, `Refresh`, `Answered` or `FetchFails`, `Install` and `Relookup` are the key
set, cut at its locks and at the fetch; `ReadLimits` and `Take` are the two halves of
`Allow`, cut at the limiter's lock; `Enter` is the budget and the role. `Reload` publishes a
configuration with a new verifier that holds no key, and leaves everything alone if the new
file does not load or build. `Rotate` is the identity provider, `Again` a client that
repeats a refused request. `held[v]` is the number of the provider's document a verifier has
installed; `used` and `ticks` are histories of what was let through since the last reload.

## 3. Runs

| Run | Question | Bounds | Result |
|---|---|---|---|
| `gateway` | do policy, cache, guard, audit and bill agree, with two requests and everything else interleaved? | 2 requests in 5 workloads, 2 sessions of which the store holds 1, cache of 1, 2 configurations differing in keys, rules, limits and guard | 888,140 states, holds |
| `gateway_reload` | "a request that begins under one configuration must finish under it" | as above | violated: finding 1 |
| `breaker` | opens only on a streak, never forgets early, bounded, closes again | 3 callers, threshold 2, 1 retry | 31,504 states, holds |
| `durable_ledger` | conservation, settled spend, refinement, progress | 3 requests of cost 1 or 2 against a budget of 2, 2 periods, loop and one report | 130,756 states, holds |
| `durable_read` | "unflushed consumption is included" | as above | violated: finding 2 |
| `worm` | one unbroken chain, nothing rewritten, every event accounted, drops surface | 5 events, queue of 2, segments of 2 lines, checkpoint every 2, 2 stops | 103,268 states, holds |
| `worm_restart` | "a restart must continue the existing chain" | 4 events, queue of 1 | violated: finding 3 |
| `stream` | is a stream, cut anywhere, vetted like the whole answer, complete, bounded, and replayed as it was? | all texts of up to 4 pieces out of 7, of 5 out of 5, and 21 longer ones; 16 pairs of a text and fragments of up to 2 calls; deltas of up to 2 pieces; placeholders of an operand, of a harmless word and of a program; fence buffer 6, hard limit 8, one reference allowed | 712,017 states, holds |
| `stream_replay` | "the client sees no difference between a hit and a miss" | two short answers, three of the cloud's | violated: finding 4 |
| `stream_parity` | "a streamed answer gets exactly the same treatment as a blocking one" | three answers with a placeholder for a program, no size bound met | violated: finding 5 |
| `memory` | does every value come back to the request it came from, with detection, compression, sessions, two cache tiers, expiry, eviction and purges interleaved? does anything outlive its time? | up to 3 requests in 4 workloads, 2 replicas, sessions: 2 kept, 1 tick; cache of 1 entry, 1 tick; shared tier 1 tick; 2 candidates for a name | 280,823 states, holds |
| `admission` | do keys never regress, does a good token get in, do limits hold across reloads? | up to 3 requests in 4 cases, 3 key documents, 1 reload, 2 ticks | 31,196 states, holds |

Why these bounds are enough to be interesting. Two requests are what it takes to
share a session, to hit the other's entry, to evict the other's conversation and
to be judged by different configurations; the five workloads are the ways
of sharing (a question, one that keeps its key over a reload, a session, the store,
nothing). The two configurations differ in
all that a reload may change, and reloads are not bounded, so a request may see
one, the other, or both. With a threshold of 2 and three callers, a call
admitted before the breaker opened ends after it half-opened, which is where the
count could go wrong. Three costs of 1 or 2 against a budget of 2 admit, refuse and
overshoot. Two lines per segment make each third record rotate; two stops let a
restart meet the leftovers of another. The bounded constants are `LastPeriod`
(DurableLedger), `MaxEvents` and `MaxCrashes` (WormAudit), `SessionMax` and
`CacheMax` (code limits, made small), and the fixed workloads of Gateway.

The texts of `stream` are all there are up to a length that holds a fence with a
marker on either side, a span with a command in it, or a command after half a word;
the longer ones carry what needs more room: a fence with lines around it, a continued
command, a fork bomb over two lines, placeholders cut by a delta, a line or a fence
over each of the two bounds (`MaxBuffer`, `HardLimit`), and a tail that two writes in a row
keep without measuring it, which is how `HoldBounded` is reached. Each is cut in every way into
deltas of one and two pieces. `MaxDelta`, `Calls`, `MaxBuffer`, `HardLimit` and
`EnumerationLimit` are the bounds; the last three are the code's, made small.

The workloads of `memory` are two turns of a conversation at once, whose texts have one
shape under two numberings; one shape on two replicas and again on the first, while time
passes; a prompt that goes through every stage beside a turn that shares its values; and
conversations that come and go in a store for two. A third request is what it takes for an
entry to be promoted, to age, and to be asked for again, and for a session to be evicted and
asked for again. All lifetimes are one tick, so each is met, overrun and, between a touch and the
janitor's round, exceeded as far as the code allows. `CacheMax`, `CacheTTL`, `SharedTTL`,
`SessionMax`, `SessionTTL` and `MaxCandidates` are code limits made small; whether time passes
in a workload is its `timed`.

The cases of `admission` are two persistent clients over two rotations of the provider's
keys, one of whose tokens is badly timed by less than the skew; tokens that must be refused; a tenant
whose limits a reload tightens while it is served, with a reload that must be refused; and a gateway
without credentials that gets some. One reload is enough for a request to hold limits, a
verifier or a configuration that is no longer in force; two ticks are enough for a refill to
be capped and not to be. `MaxReloads` and `MaxTicks` are the bounds.

`MCConversations` and `MCAdmission` also state, as assumptions TLC evaluates, what the pure parts must
satisfy: the weighted sums of the national numbers and Luhn's single-digit property,
that what the resolution drops overlaps something that goes before it, that a recogniser
only adds, that a shape can be undone; that the environment wins where it is legible,
that a file is refused for what the environment is let off with, that a tenant's ceiling is under
the common one, that a reload which keeps the cache keeps the masking, that the last mention
of a key counts, and that of two keys with one kid the later stays.

Deadlock is checked everywhere but in the `worm`, `stream`, `memory` and `admission` runs: the
bounds on events, stops, reloads and time let the system come to rest, and requests end.

### Fairness

- `Gateway!FairSpec`, which `gateway_reload` is refuted under: a handler's goroutine is
  scheduled, and every upstream call returns because the HTTP clients have timeouts.
  Nothing is assumed of reloads, expiry or eviction.
- `Breaker!FairSpec`: time passes, calls return (bounded attempts, client
  timeouts), and clients keep asking; without traffic a breaker has no occasion
  to close. `ClosesAgain` presumes a backend that has become well for good.
- `DurableLedger!FairSpec`: the ticker fires and a transaction ends (weak), and a
  flush that is tried for ever commits at last (strong: failures recur but
  not for ever). Nobody is obliged to restart a process, so `ReachesDisk`
  promises nothing once it is down.
- `WormAudit!FairSpec`: the writer goroutine is scheduled.
- `Admission!FairSpec`: handlers are scheduled and a persistent client asks again (weak, one
  condition per request), the refresh interval ends (weak), and the provider answers one of the
  fetches if they never cease (strong: a fetch may fail, but not for ever). `RotationHeals`
  presumes that the provider has ceased to rotate; reloads are bounded, as each one
  takes a verifier's keys away.

### Findings

1. *Two configurations in one request* (`middleware.go:108`, `handler.go:68`): the
   configuration is loaded twice; a reload between the two has a request
   authenticated under one and judged under the other, which `gateway.go:26` rules out.
2. *A flush under way hides consumption* (`durable.go:204`): what it took is in
   neither of the two places Consumed reads until its transaction commits.
3. *A restart may begin a second chain* (`worm.go:390`): a crash between the
   creation of a segment and its first record leaves a newest segment with nothing
   to resume from.
4. *A fallback keeps the failed backend's text* (`gateway/stream.go:75`): what the
   scanner held when the local backend broke off is released in front of the cloud's
   answer, all of it in strict mode, while only the cloud's is cached.
5. *A masked program is judged in halves* (`sandbox/stream.go:378`): with `<V1>` for
   `/bin/rm` the line `<V1> -rf /tmp/x` is prose to the commit rule, so `<V1> -rf /` goes to
   the guard as soon as it has come and is sealed as `/bin/rm -rf /`, while the blocking
   path reads `/bin/rm -rf /tmp/x` and lets it pass; `gateway/stream.go:185` says the two
   get exactly the same treatment. The stream is the stricter of the two
   (`StreamedLikeBlocking`), but whether it is sealed depends on where the deltas are cut.

Met while modelling, visible in the definitions, and the subject of no run:

- A fallback is billed under the local route (`handler.go:342`, `stream.go:110`), so
  `tokens/ledger.go` counts the prompt as avoided though the cloud answered.
- Half-opening lowers the count below the threshold, so until its probe ends every other
  call passes too; the comment at `resilience.go:97` says one.
- The environment can lower the common ceiling below one a tenant inherited from the file, and
  the configuration is then refused; an empty threshold in the environment resets it to
  the default, though the comment at `config.go:599` says what is empty is left alone.
- `config.go:81` says a tenant cannot raise a limit it was not granted, "which validate
  enforces"; `Validate` looks at no rate limit.
- The role beside a tenant in the token map is lost (`config.go:629`): the map is read with
  `parseAPIKeys`, which keeps the tenant and drops the role, so every token gets the default,
  operator, though `middleware.go:181` and `README.md:652` say the map carries the role.
  `TokenRoleIsDefault` proves it of every map.
- A budget check that meets the ledger closed finds nothing on the disk (`durable.go:321`) and
  may admit a tenant whose budget is gone; `Log` overtaken by a `Close` panics (`worm.go:201`).
  Neither can happen in the enterprise command, whose `Close` never runs.
- A role that is mistyped gives the default, which is above `caller`.
- A file's `api_keys` are not split into tenant and role, unlike the environment's.
- A `tenants` block for a tenant known only to the identity provider is refused, as labels come from
  keys alone.
- A span of lower priority that reaches beyond a better one is dropped whole, not trimmed
  (`redact.go:24`).
- A placeholder a client writes itself, such as `<V1>`, is not told from the session's own: it
  hydrates to whatever the session numbered 1 (`dictionary.go:114`). `RawAssumption` sets
  such texts aside.
- A token without a key id is admitted only right after a refresh.
- The cache's key leaves out every parameter but model, texts, temperature and max_tokens.
- A reload compares the rules directory by its path, not its contents.
- After a piece that recites the dictionary was dropped, a stream goes on, though
  `gateway/stream.go:194` says the guard seals it, and what the client has as a whole may be
  text the guard blocks.
- Two writes in a row can commit part of a line without measuring what they keep, so a
  stream may hold `HardLimit` and nearly two deltas (`sandbox/stream.go:230`).
- A limiter or a budget guard that was not needed at the start is not made by a reload, as
  `budget.go:38` says.

Each passing property has a mutant in PROJECT.json: an operator next to the one it
resembles (`NoteLast`, `KeyWithoutTools`, `PutBackOver`, `HeadKept`, ...) that no
action uses and that makes the property fail when put in its place.

## 4. Proofs

TLAPS checks these for every value of the constants that meets the named
assumptions: any set of requests, sessions, tenants, values, rule sets and
configurations; any finite set of callers, any threshold and number of retries; any
number of events, flushers, replicas and limits.

### Sums and sequences (`SumsAndSequences`)

A ledger is a sum over the places money can be in, an audit chain a sequence that grows at
one end and is pruned at the other. The library defines the operators for both by
recursion, and the library's induction theorems take an operator, which no prover here can
instantiate. Three ways around it carry these lemmas. For sums over a finite set: a *table* of the sums of all subsets, which depends on
no order, exists (the subsets without one are shown to have no smallest member) and is what
the operator computes, whatever order it picks; then one element more, one value changed
and all values nought are facts about the table. For sequences: `LeastNumber` gives the
least place at which a claim fails, where it did not fail one place earlier. From it come
what `FlattenSeq` makes of a sequence of sequences that gains a last one, whose last one
grows, that loses its front or is joined to another, and how suffixes compose. From it come,
too, that a recursive function on `0..N` with given steps exists and is the only one
(`RunExists`, `RunUnique`), and `EverySequence`: a *set* of sequences that has the empty one
and gains every element appended has them all. That is induction over data, with a set where
the library has a predicate, and it carries the proofs about the stream.

### Gateway (`GatewayProofs`)

Assumptions: `ClassAssumption`, `ConfigAssumption`, `ArrivalAssumption`,
`SessionAssumption`; the store and the cache may have any capacity.

| Theorem | Statement |
|---|---|
| `Invariance` | `Spec => []IInv` |
| `TypeCorrect` | `Spec => []TypeOK` |
| `EgressConfined` | `Spec => []NoConfinedEgress` |
| `ConversationsConfine` | `Spec => ConversationConfines` |
| `AuditGraded` | `Spec => []AuditNeverUnderstates` |
| `Accounted` | `Spec => []AccountedOnce` |
| `DeliveryVetted` | `Spec => []VettedDelivery` |
| `AuditNames` | `Spec => []AuditNamesEveryBackend` |
| `HitsAnswerTheSameQuestion` | `Spec => []HitAnswersTheSameQuestion` |

`NoConfinedEgress` is not inductive: that a payload sent to the cloud was within
its limits depends on why it was sent. The invariant `IInv` carries the reason
along the path, for each request:

- `Phased`: which fields of the plan are set in which phase.
- `Noted`: all findings masked so far are at most the class of the session the
  request holds. Other requests can only raise that class (`LevelRises`), so this
  survives sharing; and since a session is held by reference, it survives eviction.
- `Cleared`: a verdict covers the whole payload, binds the target, and a verdict
  other than "allow" stays justified as the class rises, because `Evaluate` is
  monotone (`EvaluateMonotone`).
- `Graded`: the class in the audit event covers the payload and justifies the
  verdict, although it was read later.
- `Dispatched`: what was sent had been cleared for where it was sent, which covers
  the first call, and the fallback by `CloudFallbackAllowed`.
- `Settled`: what audit and bill hold in each phase, and that an answer is only
  delivered unguarded if the guard has nothing against it.

The proof has one lemma for the steps that build a plan and one for those that keep
it (`PlanKept`), so that each conjunct is disturbed in few places.
`ConversationsConfine` follows from `Noted` at the step that judges.

Two properties have an invariant of their own beside `IInv`, over the steps it classifies:

- `Trailed`: what was sent for a request went to the backend it stands at, or to the local
  one if it fell back; nothing is sent before the call or after the answer; and its event
  names one of the two or says it fell back from the other.
- `Answering`: an entry is kept under the key of the request it came from, and that
  request's question is fixed (`Fixed`): from the judgement on no step changes the
  configuration it pinned, its texts or its model, so a key computed at the lookup is the
  key at the store, however many reloads lie between.

### Breaker (`BreakerProofs`)

Assumptions: `CallersAssumption`, `ThresholdAssumption`, `RetriesAssumption`.
Theorems: `Invariance`, `TypeCorrect`, `CountBounded` (`FailuresBounded`),
`NoAmnestyHolds` (`NoAmnesty`), `RejectionsExplained` (`RejectedOnlyAfterStreak`).
The count alone does not say why a call is rejected, since half-opening lowers it
and late outcomes raise it. `StreakExplains` relates it to the failures in a row:
the streak is at most one ahead of the count, and the count is ahead of the streak
only when the streak has reached the threshold. `FailuresBounded` counts the calls
still in flight, each of which can raise the count once.

### Admission (`AdmissionProofs`)

Assumptions: `BoundAssumption`, `NumbersAssumption` (the limits of an accepted configuration
are integers), `DocumentsAssumption` (the provider publishes something from the start);
any configurations, environments, key documents, requests and bounds.

| Theorem | Statement |
|---|---|
| `TypeCorrect` | `Spec => []TypeOK` |
| `KeysOnlyAdvance` | `Spec => KeysNeverRegress` |
| `BurstWithinLimits` | `Spec => []BurstHonoured` |
| `TokenRoleIsDefault` | a token's claims give the default role, whatever the map says |
| `KeptCacheKeepsRules` | a reload that keeps the cache changes no tenant's detection |
| `TenantsStayUnderTheCeiling` | an accepted configuration lets out no more for a tenant than for all |

- `KeyInv`: `refresh` writes down what it fetched without asking whether something newer
  came meanwhile. That this is safe rests on a fact no line states: `lastAttempt` is set before
  the fetch and the fetch is cut before the interval ends, so a verifier has at most one fetch
  under way, and what it brings is no older than what the verifier holds.
- `LimitInv`: `BurstHonoured` bounds what was let through, which says nothing of what the
  bucket can still give. The invariant bounds the sum of the two by what the limits allow
  (`Spent`). A take moves one from the second to the first; a tick adds at most a tick's worth
  (`TickGives`); a reload begins a new count; and a request that still holds the limits from
  before it (`Holds`) only lowers what is there, because no tick has passed.
- `TypeInv`: roles and phases, with the two above.

The steps that bring no request before its bucket are dealt with at once (`Bystands`); those
that touch no key set likewise (`Moves`).

### Durable ledger (`DurableLedgerProofs`)

Assumptions: `FlusherAssumption` (finitely many reports at a time), `TenantAssumption`,
`NumberAssumption`.

| Theorem | Statement |
|---|---|
| `TypeCorrect` | `Spec => []TypeOK` |
| `Conservation` | `Spec => []Conserved` |
| `SettledSpendRefuses` | `Spec => []SettledIsRefused` |
| `ConsumedNeverOvercounts` | `Spec => NeverOvercounted` |
| `LedgerKeepsAccount` | `Spec => KeepsAccount` |

The books balance (`Conserved`) only because a flusher that writes nothing holds no batch
(`Resting`): otherwise a flush that begins would overwrite one. Each step moves an amount
between two of the places, which the lemmas on sums turn into an equation per key.
`Informed` bounds what a request between its two readings knows: its reading of the disk is
at most what the disk holds now and, unless it met the database closed, at least what was
settled when it asked. `SettledIsRefused` excepts the checks that met it closed, which read nothing. A batch committed
between the readings is in the second place only if it was not in the first, so the answer
never exceeds what was recorded. For the refinement, each step is shown to be a step of
`SpendAccount` or to leave both of its variables alone: recording spends, a commit secures
as much as the batch holds, a crash loses what was in memory, and everything else moves
amounts within what is not yet safe.

### WORM audit chain (`WormAuditProofs`)

Assumptions: those of `WormAudit` on its sizes.

| Theorem | Statement |
|---|---|
| `TypeCorrect` | `Spec => []TypeOK` |
| `NoSilentGap` | `Spec => []EveryEventAccounted` |
| `FilesEndTheChain` | `Spec => []NothingRewritten` |
| `ChainUnbroken` | `Spec => []LinkedUnlessSpoiled` |

The account is the sum of the places an event can be in, each entry weighed by the events it
stands for; what one dequeued event lays out for the writer weighs the event and every drop
counted so far (`BatchWeighs`). The chain needs more than that the files end what was
written: the position the sink keeps (`seq`, `head`) is that of the last record whenever
one can be appended (`AtEnd`), which a failed write breaks and only `New` mends, and every
line is a whole record (`AllRecords`), so that `New` finds the last of them. Rotation adds an
empty segment, pruning takes whole segments from the front, so the lines on disk stay a
suffix of those ever written, and a suffix of a linked sequence is linked.

### Conversations (`ConversationsProofs`)

Assumptions: those on the limits and lifetimes; `JobsAssumption` (a workload's requests and
replicas are requests and replicas, its messages are sequences of items a client may write,
and its engine has the fields and number types of the code's rules, `IsEngine`); and
`RawAssumption` (a client writes no placeholder of the gateway's; what happens if it does is
under *Findings*, met while modelling). Nothing is assumed of the rules' phrases, priorities and
validators, of what the recogniser answers, or of the length of a text.

| Theorem | Statement |
|---|---|
| `TypeCorrect` | `Spec => []TypeOK`: the dictionaries' two maps are inverse, caches and stores within their limits |
| `AnswersAreYoung` | `Spec => []AgeBounded` |
| `IdleSessionsLeave` | `Spec => []IdleForgotten` |
| `MeaningIsKept` | `Spec => TokensKeepTheirMeaning`, stated with the proof |
| `MaskingIsReversible` | `Spec => []MaskRoundTrip` |
| `AnswersNameOwnValues` | `Spec => []ServedIsOwn` |
| `RecogniserOnlyAdds` | findings are apart and in order; the recogniser moves and removes none |
| `DroppedYieldsToKept` | what is dropped overlaps something kept that goes before it |
| `RewritingIsReversible` | a text rewritten at findings that cut it hydrates to itself |
| `AnswersCrossSessions` | an answer canonicalised in one session says in another of the same shape what it said |
| `NumbersDoNotMatter` | payloads that differ in their tokens' numbers have one shape |
| `LuhnCatchesOneDigit` | a card number with one digit changed fails the check |
| `GetOnlyExpires`, `PutIsStore` | what lookup and put do to the list is, of the set of its entries, what `Gateway`'s `ExpireEntry` and `Store` do |

The first four rest on `IInv`:

- `Naming`: every token's number is at most its namespace's counter (`Numbered`), so the
  next one is new, and the two maps stay inverse though requests mask in any order.
- `Caching`: in a local tier an entry's clock lags the answer's age by at most one stay in
  the shared tier (`Lags`); in the shared tier, which never restarts a clock, it does not
  lag. `Requesting` carries this through the steps between: an entry fetched and not yet
  promoted, or answered and not yet published, is as young as it was, because time does not
  pass while a request is on its way.
- `Keeping`: no session in a store has been idle for longer than the TTL and the time since
  the janitor's last round. The sweep is a recursive function over the list; that its result
  holds only what was there, and nothing idle, is shown at the least prefix where it would
  not (`WalkExists`, `ExpireKeeps`).

The other two invariants are about what texts say. Neither is inductive: that a masked message
hydrates to the original depends on every value masked so far being in the dictionary
when the rewriting comes, however other requests of the conversation have used it since; that
an answer is in the reader's values depends on what was written into an entry by a request
that may be long gone. `Faithful`, which TLC found to hold on the run's workloads before it was
proved, says it for each request past its start and for each entry in each tier:

- `Coined`: what a dictionary reverses is a token; `Keeps` relates a dictionary to any later one.
- `Owns`: what a request remembers of its own tokens is what the session's dictionary says.
- `Masks`, `Staged`: under way in a stage, the tokens drawn so far are the request's and stand for
  the values found, in order; what was found cuts the text (`IsCutting`: apart, in order, each
  with the text it covers); and every text, finished or not, is made of words and of tokens the
  request owns.
- `Asked`: the key is that of the request's own payload.
- `Answered`, `Delivered`: the answer in hand names an item of the request's own prompt, and what
  is delivered is that item's value.
- `Says`, for entries: the content names the item the entry is about (`from`) in the payload the
  key spells, in the key's own names. An entry is thus judged by its key alone, which is why it may be promoted,
  shared, evicted and met again without anybody remembering who wrote it.

The lemmas under it are about the operators, for texts of any length. A strict order on
finitely many things makes a sequence (`Sorted`), and the recursive functions of `Matches` and
`Greedy` keep what they keep apart (`CandidateFacts`, `ResolveFacts`), so what is detected cuts
the text. `Drain` joins lines over a recursive function, folding and pruning replace items by
tokens in place: each hands on what it was given, up to tokens just drawn. `Shape`
names a token by the place where it first appears, so equal keys mean that two payloads have
tokens at the same places and of the same kinds (`ShapePlaces`), and its mapping can be read
backwards (`InverseNames`). `LuhnSum` is a fold that takes the largest place first; it is shown to
be the sum over the places (`LuhnIsSum`), in which one changed digit changes one summand by less
than ten.

### Streamed answer (`StreamedAnswerProofs`)

Assumptions: `DictionaryAssumption`, `LimitAssumption` (the hard limit is not below the
fence's), `SizeAssumption`, `AnswersAssumption` (what a backend says is text, and fragments of
calls by index); any answers of any length, cut into deltas in any way, any dictionary, any
limits, both modes.

| Theorem | Statement |
|---|---|
| `StreamSound` | `Spec => []StreamInv` |
| `TypeCorrect` | `Spec => []TypeOK` |
| `ReleasedAlwaysSafe` | `Spec => []ReleasedIsSafe` |
| `SealedLikeBlocking` | `Spec => []StreamedLikeBlocking` |
| `AnswerIsKept` | `Spec => []NothingLost` |
| `CallsAlwaysVetted` | `Spec => []CallsVetted` |
| `HoldAlwaysBounded` | `Spec => []HoldBounded` |
| `ReplayAlwaysAgrees` | `Spec => []ReplayAgrees` |

These are all the invariants of run `stream`. None is inductive: that the released text is
safe says nothing of why the next piece may follow. `StreamInv` has four parts.

- `StreamType`, the types.
- `Told`: the scanner and all the text it was given belong together. While the stream goes on
  that is `Faithful`: unless a size bound or a recited dictionary came between them, a scanner
  that has not blocked has sent a beginning of the text, cut where no placeholder is
  (`CutAt`), so that hydration distributes over the cut (`HydrateConcat`); what is out is
  whole lines after which the guard stands as at the start (`Reading(Unread, d) = Unread`),
  and the line's head, which fires nothing (`Upto`). An open fence holds all of its body
  (`FenceKept`). And the head leaves the next piece no choice (`Leading`): nothing is out of
  this line; or a whole word is, so that no program can begin it any more; or only the
  beginning of a word is, and what waits is a backtick, a marker, half a bomb or a
  placeholder, at which the commit rule stopped. A scanner that has blocked is `Stopped`:
  what is out passes, and the guard blocks the whole *whatever follows*, since a line that
  names no program is dangerous by a fork bomb or a closed span, and both stay in it
  (`DangerStays`, `DangerCondemns`) and a rule that fired stays fired
  (`FiredStaysFired`). `Close` turns all this into `Settles`: the answer, or a safe
  beginning of one the guard blocks.
- `Bounded`: what is held is within the hard limit, or a tail the commit rule stopped at
  (`Pending`). A tail before a backtick commits nothing more, so the next write measures it; one
  of bombs or of a placeholder that is not whole was cut off a measured one, so two
  unmeasured deltas are the most there can be (`TailBounded`).
- `Given`: what is shown in the end is what scanner and calls come to, and an entry is what was
  gathered.

`FeedLineKeeps`, `CommitTailKeeps`, `WriteKeeps` and `CloseSettles` follow the scanner's
functions; the loop over lines is a recursive function (`FeedLinesIsRun`). For a replay,
`Fits` shows that one `Write` of a kept answer no longer than `MaxBuffer` meets no bound and
recites nothing, because no part of a text recites more than the whole (`DistinctOfPart`); so
it is faithful too, and two faithful scanners end alike (`SettledOutcome`). For the calls, hydrating the
arguments as one text and each on its own come to the same (`LinesHydrated`), which is why
vetting the former vets what is handed over.

### Only model-checked

- Liveness (`ClosesAgain`, `ReachesDisk`, `DropsSurface`, `RotationHeals`):
  fairness and ENABLED are beyond this prover.
- Of the assumptions TLC evaluates in `MCConversations` and `MCAdmission`, those on the national
  numbers' weights, on the strictness of a file, on the precedence of the environment and on
  keys named twice. The others have a theorem that says the same or more for all inputs:
  `LuhnCatchesOneDigit`, `DroppedYieldsToKept`, `RecogniserOnlyAdds`, `AnswersCrossSessions`,
  `TenantsStayUnderTheCeiling`, `KeptCacheKeepsRules`.
- In `StreamedAnswerProofs`, `Destructive`, `Sentence` and the splitting of a fence's body stay
  closed, but for one fact: a destructive command names a program at its beginning. The
  theorems hold whatever else these operators say of a text; what they say is TLC's and the
  reader's to judge.

Working towards its proof corrected two statements about the stream that TLC had passed on
the texts it was given: `HoldBounded` allowed one unmeasured delta where there may be two,
and `ReleasedIsSafe` did not set aside streams that dropped a piece.

## 5. Not modelled, and why

What a regular expression matches, the entropy of a word, the shell's full grammar, the
languages' parsers, token estimates, prices, wire formats, request signing and the mathematics
of signatures are string or number computations with no state another part could disturb;
TLC can say nothing of them that a unit test does not. They are constants of the models
or choices. Metrics, dashboard and tracing are written and never read back. The file audit
sink writes one line under a lock. The router's answer is a choice: heuristics and a judging
model may give any. PROJECT.json gives the reason for each component.

## 6. Plan

Done: 1 `EgressPolicy` and `Gateway` with proofs; 2 `Breaker` with proofs;
3 `SpendAccount` and `DurableLedger`; 4 `WormAudit`; 5 `EgressGuard`, `StreamScanner` and
`StreamedAnswer`; 6 `Conversations` over `Redaction`, `Compression`, `Dictionary`,
`TemplateCache` and `SessionStore`; 7 `Admission` over `Settings` and `Identity`, with proofs; 8 the proofs of `DurableLedger`
with its refinement, of `WormAudit` and of `Conversations`, and the rest of `Gateway`'s;
9 `EgressGuard` and `StreamScanner` told place by place and by recursive functions, and the
theorems on the stream; 10 `Redaction`, `Compression` and `TemplateCache` told by sets and recursive
functions, and the theorems on masking, on the cache and on configurations. Every
invariant and every action property of a passing run has its theorem.

Left, in order of weight:

11. That `Conversations`, with every list taken for its set of entries, implements a
   specification of the cache alone, of which `PutIsStore` and `GetOnlyExpires` are the steps.
12. The router's fallback chain, and the report of `Verify` on a pruned chain.
