# A TLA+ model of `asap`

`asap` is a Rust library (and a small command line tool, `asap_cli`) for
Atlassian S2S Authentication: a client signs a short-lived JSON web token with
its private key (`Generator`), a resource server checks it with the public key
it fetches from a keyserver under the token's `kid` (`Validator`). Both ends
are meant to be shared by threads and tasks: a `Generator` keeps its lifespan
and its token cache behind two `RwLock`s, a `Validator` its key cache and its
set of seen nonces behind two more, and `decode` suspends while the keyserver
answers. Most of what can go wrong is between two of those steps, where unit
tests do not reach.

## Inventory

| Component | Code (`asap/src` unless said) | State | Operations |
|---|---|---|---|
| Validator | `validator.rs` 308-682 | `key_cache: kid -> (SystemTime, key)`, `jti_seen` | `decode`, `decode_without_whitelist` (through `decode_optwl`, `get_public_key`, `get_key_from_cache`, `validate`) |
| Claim checks | `validator.rs` 585-663, `util.rs` | none; leeway, lifespan, audience are fixed at `build` | the chain of checks in `validate` |
| ValidatorBuilder | `validator.rs` 66-239 | options, two of them taken by `build` | setters, `build` |
| HttpKeyserver | `keyserver.rs` 73-157 | list of URLs, timeout | `get_public_key`, `append_url`, `set_timeout` |
| Generator | `generator.rs` | `claims_builder` (the lifespan), `cache: Option<LruCache>` | `token`, `enable_token_caching`, `disable_token_caching`, `set_max_lifespan`, `auth_header`, `from_env` |
| Claims, ClaimsBuilder | `claims.rs` | the lifespan | `build`, `cache_key`, serialisation |
| Errors, util | `errors.rs`, `util.rs` | none | error variants, `generate_jti`, `extract_claim` |
| Test keyserver | `asap/support/keyserver` | a request counter | `start`, file requests, shutdown |
| CLI | `asap_cli/src` | configuration files: `./.asap-config`, the user's, any other | `init` writes one; `token` and `curl` load one, apply the options and make a token |

Interactions. `Validator::decode` calls its `Keyserver` while it holds no lock;
`HttpKeyserver` asks one URL after another, each under a timeout. `Generator::token`
calls `ClaimsBuilder::build` under the `claims_builder` write lock, then takes the
cache lock up to three times and signs between two of them with no lock held. The two
ends meet only in the token; keys reach the validator through the keyserver. Invocations
of the CLI meet in the configuration files, which nothing locks; each makes a `Generator`
of its own.

What is hard:

- `decode` reads the key cache, awaits, verifies, and inserts the key later; other
  calls expire, refetch and insert the same entry meanwhile, and the key may be
  rotated or revoked.
- The nonce is looked up under one lock and inserted under another.
- Entries are aged with `SystemTime`, which may be set back.
- Every time check is `i64` arithmetic on claims the token brings along.
- `token` decides that the cache is there and unwraps it later; a panic with a write
  guard alive poisons the lock.
- A server may hang, fail, restart or change its answer while a lookup goes through the
  list, an exchange may break at any point of it, and a server may count a key that its client
  never hears of.
- `init` truncates a configuration and then writes it a little at a time; it may be killed or
  fail in between, another `init` may be at the same file, and a command may be reading it.
  Whatever goes wrong with `./.asap-config`, the user's file is used instead.

The list of hazards, each at its line and with the properties that guard it, is in
`PROJECT.json`.

What makes each component correct:

- Validator: a token is accepted only with the signature of a key published under its
  kid, and with every rule kept at the second its call read; a rejected token leaves nothing in
  the key cache; an entry is never prolonged, and a key comes back without a fetch only through
  calls that overlap its removal; a nonce is accepted twice only by overlapping calls, and only genuine tokens use one
  up; a poisoned cache lets nobody in; every call returns. In one sentence, it implements
  `TokenGate`.
- Claim checks: they accept exactly what the quoted ASAP rules accept, and bound how
  long a token can be used.
- HttpKeyserver: servers are asked in the order in which they were configured, the key was on
  offer during the lookup, failure means that all servers failed, and the wait is bounded.
- Claims: what the server checks is what the client signed; extra claims never override
  required ones; a cache key stands for one token up to the nonce; an honest client's token is accepted.
- Generator: a returned token is right for the request, the cache respects its limits and is used
  within the second, sharing is explained by the cache, and panics are confined to known causes.
- CLI: a command uses the file it was given, or the first of the default two that can be loaded, whole;
  it says that there is none only if neither can be; a configuration is lost only to an `init` that
  was writing; an `init` that said nothing has saved one.

## Modules

| Module | Models |
|---|---|
| `Int64` | `i64` arithmetic with a parametric width, in builds with and without overflow checks |
| `TokenRules` | the claim checks of `validate`, in the code's order (`Verdict`), and the policy they quote (`Conforms`) |
| `TokenLifetime` | one genuine token offered second after second |
| `Validator` | concurrent `decode` calls on one validator; extends `TokenRules` |
| `TokenGate` | the abstract validator that `Validator` implements: trusted keys, spent nonces, the rules |
| `HttpKeyserver` | a keyserver object from its configuration to the end of a lookup, and the servers it asks |
| `KeyLookup` | the abstract lookup that `HttpKeyserver` implements |
| `Generator` | threads that share one generator |
| `ClaimsCodec` | claims as a struct, as JSON and as the values `validate` extracts; extends `TokenRules` |
| `TokenExchange` | tokens in flight between a client and a server with clocks of their own; extends `ClaimsCodec` |
| `Cli` | invocations of the command line that share configuration files |
| `MC*` | the instances TLC checks |
| `TokenRulesProofs`, `TokenLifetimeProofs`, `ValidatorProofs`, `HttpKeyserverProofs`, `TokenExchangeProofs`, `GeneratorProofs`, `CliProofs` | the theorems |

Each module also holds, next to the definition concerned and marked `Mutant`, a
version of it with a plausible mistake. They are not part of any specification; with
one in place of the original, the property it is listed with in `PROJECT.json` fails.

### Validator

A step of call `c` is what `decode` does under one lock acquisition, or up to the
keyserver's answer; `pc[c]` names the next one:

| `pc` | Code | Actions |
|---|---|---|
| `begin` | 509-518 | `DecodeHeader` |
| `lookup` | 403-430, one write lock | `LookupHit`, `LookupStale` (removes the entry), `LookupMiss`, `LookupPanics` (`eprintln!` fails: the lock is poisoned) |
| `fetch` | 432-440, the await | `FetchOk`, `FetchFails`, `Cancel` (the future is dropped) |
| `verify` | 520-521, 551-562 | `VerifyFails`, `Verify` (reads the second) |
| `jti_check` | 569-576, read lock | `JtiDuplicate`, `JtiFresh` |
| `jti_record` | 577-583, write lock | `JtiRecord` |
| `check` | 585-663, then 537-547 | `Reject`, `Accept` (`or_insert` under the write lock) |
| `lookup`, `check` | 404-409, 539-541 | `PoisonedCache` (`expect` on the poisoned lock) |

The keyserver is one answer per fetch, what it serves at that instant (module
`HttpKeyserver` has the detail); `Publish` rotates and revokes keys, within what
`Servable` allows. `Tick` and `StepBack` move the clock both caches and claims are
measured with. A signature is the identity of the key that made it; `jwt::decode`
is external and modelled by its order of refusals (algorithm, signature, body).
`everPublished`, `fetched`, `outlived` and `racers` are history variables.
A verdict `"panic"` is an overflow in a build with overflow checks; no lock is held
there, so it ends only that call. `eprintln!` panics when stderr is closed; it is called
under the write guard of the key cache, so there it poisons the lock (`poisoned`).

`TokenGate` says what a caller may count on: a call is found genuine with a key trusted
under its kid, at a second of the clock; its nonce is compared with the spent ones, then spent;
it is granted only if the rules pass it at that second; no answer is taken back. The mapping
forgets the cache, the keyserver, the local key and the lock: `trusted` is `everPublished`,
`spent` is `jti_seen`, `second` is `now`, `answer` is `result`, and `stage` is `pc` with
everything before the signature check in one (`StageOf`). Fetching, caching, expiring and
poisoning are stutters or refusals. That comparing and spending are two steps is the
race of `validator_replay_race`; the gate could not have one step there and be
implemented.

Strings are members of small sets. Of a `kid` only its prefixes matter, `IssuersOf`. A
claim of the wrong JSON type is an absent one, because `extract_claim` failing is
treated that way.

### HttpKeyserver

While `phase` is `"configuring"` the keyserver belongs to a `ValidatorBuilder` or to whoever
made it: `append_url` (which `fallback_keyserver` calls) and `set_timeout` change it. `build`
moves it into the validator, after which nothing does. Then comes one lookup: `pos` is the index in `urls` of the
request under way. `InvalidConfig` is a URL that does
not end in `/` or cannot be joined, `ErrorReceived` a status other than success, `ExchangeBroken` a connection
refused, reset or closed in the middle of a body, by a server that is up or down, before or after it has handled the
request, `TimedOut` the request's timeout: all of them go on with the next URL.
A timeout of zero keeps none, so the client's default of one second applies (`Timeout`).

The servers are those of the test keyserver. `service` is its handler: it reads the kid's file,
counts the request if there was one, and answers; it may do so for a request whose client has
given up (`settled` holds the requests that no server will read any more). `Change` is their
operators: other contents, shutdown, start. Each start makes a new counter (`Counter`), and a server does not
know the requests that were given up before it started. A server that hangs is one whose `service` does not
happen. `NoKey` is any status that is no success, since the loop does not tell 404 from 500. A success whose body is not a key counts
as a key in the code, `from_rsa_der` never fails; so `Keys` may hold such bytes, and the
signature check in `Validator` sorts them out. `given`, `offered`, `failed`, `lost` (the requests that ended
without their answer being heard) and `restarted` are history variables.

`KeyLookup` says what a caller may count on: `Find` returns a key that some server held
since the lookup began, `Fail` happens only after every server has failed. The refinement
mapping takes the URLs for its sources, `content` for what their servers hold as a key,
`chosen` for the URLs configured so far, and "configuring" for idle; `pos`,
`age`, `reply`, `count` and the kinds of failure are the detail it hides.

### Generator

`pc[c]` follows `Generator::token` 312-350: `build` (`claims_builder.write()`), `check`
(`cache.read().is_some()`), `lookup` (first `cache.write()`), `store` (signing without a
lock, then the second `cache.write()`), `sign` (no cache). A lock is a flag that says it
is poisoned: `BuildOverflows` and `UnwrapNone` set one, after which every `expect` on that
lock panics. `lru_time_cache` is external: entries expire `ttl` after their last use,
and inserting evicts one of the least recently used. `from_env`, the PEM conversion and
`auth_header` (a wrapper that formats the result of `token`) are left out.

### Cli

An invocation of `init` asks (`Ask`: the prompts, which panic on a file or JSON that does
not parse), creates the file (`Create` truncates it) and writes it; `token` and `curl` open a file,
read it, parse it, apply the options, make a token and print it or hand it to `curl`. `serde_json`
is given a bare `File` both ways, so it writes and reads as it goes: a configuration is `Pieces` pieces, and
other invocations may come between any two. `Kill` ends an invocation anywhere, `WriteFails`
at a write. A piece is named after the `init` that wrote it, which is all the properties look at.
A mixture of two configurations may or may not parse: `LoadFails` and `Override` are both
possible then. What is missing or truncated never parses, nor does a `Malformed` file, one that was edited by hand
or left torn before.

Loading fails (`LoadFails`) when there is no file, when it cannot be opened or read (`unreadable`: permissions, a
directory, a failing disk; `AccessChanges` lets these come and go), or when it does not parse. `First` and
`FallsBack` are `from_opt` and `from_dirs`: a `--config` file is the only one tried; otherwise any error of
`./.asap-config` leads to the user's, if there is a directory for it (`home_known`). The one error that does not is that of
`current_dir()` itself (`Lost`), which ends the search before it has begun. An error of the search is
reported as "No ASAP configuration found", one of a `--config` file as itself.

The history variables say what the properties need of the past. `nearest` is the file a command should use; it is
worked out from the files as they are at each look, not from what the command does with them. `interrupted` are the files an
`init` was killed in or failed to write, until one creates them anew, and `mixed` those two were at together. `disturbed` are the commands
whose file changed between their opening and parsing it, or was a mixture when they opened it. A command that
meets a torn, malformed or unreadable file which stays as it is is not among them, so
`UsesNearestConfig` and `NotFoundIsHonest` say of it that it passes that file over and takes the other.
The wording of messages and headers is left out.

### ClaimsCodec and TokenExchange

A JSON object is a function from names to values, a value a pair of its type and its content.
`Encoded` is `Serialize` for `Claims`: the required fields, then the flattened extra claims without
those named in `REQUIRED_CLAIMS` (`ser_extra_claims`). `Decodes` and `Decoded` are `Deserialize`, with the
left-over names as extra claims, `None` when there are none (`de_extra_claims`). `cache_key` keeps
every field but the nonce. `Extracted` is what `validate` reads with `extract_claim` and
`extract_aud_from_claims`. serde itself, and JSON as text, are external.

In `TokenExchange` the client calls `token` (`Built` is `ClaimsBuilder::build`, whose nonce may be any) and
`set_max_lifespan`; `ForeignToken` is a token some other implementation signed. A token stays in
flight: it may be presented late and more than once, so the server's answer (`Outcome`) is a
function of its clock. `Outcome` goes the way of `decode_optwl`: the wire is decoded into `Claims`, encoded
again, and the copy is validated. Signatures, keys and nonces are left to `Validator`.

## Runs

| Run | Shows |
|---|---|
| `token_rules` | `AcceptsExactlyConforming`: the ordered checks agree with the unordered policy whenever nothing overflows; `AcceptedLifespanLimited`, overflows included; `RejectedOnlyBeyondSetting`: a limit set above the default is honoured; `BoundedUse`: without `nbf` a token is usable only within `max_lifespan` of its `iat` |
| `lifespan_wraps` | **violation**: without overflow checks `exp - iat` wraps and an overlong token passes |
| `validator_replay` | `ImplementsGate` (refinement of `TokenGate`); `ReplayNeedsOverlap`, `DuplicateHasAnOriginal`, `NoncesAreGenuine`: with `validate_jti`, a nonce is accepted twice only from inside the check-insert window, and only genuine tokens use it up; `AcceptedInFull`: whoever is told Ok has every rule behind it and its nonce in the set; `CallsReturn` through every error and panic |
| `validator_cache` | `AcceptedKeyWasPublished`, `CacheHoldsProvenKeys`, `NoSlidingExpiry`, `RefillNeedsOverlap` (a key returns to the cache without a fetch only through a call that held it while its entry was removed), `PoisonedFailsClosed` while a key is rotated and revoked, the clock steps back and stderr fails |
| `validator_replay_race` | **violation**: two calls that overlap both accept one nonce |
| `validator_cache_fill` | **violation**: a call that hit the cache stores its copy anew after another call removed the stale entry, so a key can outlive `key_cache_duration` without a fetch |
| `generator` | `TokenFitsRequest`, `CacheBounded`, `PanicsAreExplained`, `SharedOnlyThroughCache`, `CachedWithinSecond` (what the cache does promise, `generator_ttl` notwithstanding) while the cache is enabled, replaced and disabled and the lifespan changes |
| `generator_disabled` | **violation**: disabling the cache between the check and the `unwrap` panics under the write guard |
| `generator_ttl` | **violation**: `iat` and `exp` are part of the cache key, so a cached token is not found again in the next second, whatever the `ttl` |
| `token_exchange` | `ReceivedAsSent`, `CheckedAsSigned`: the round trips of the claims; `OneKeyOneToken`; `HonestTokensAccepted`: with clocks no further apart than the leeway, a token that has not expired for its client is accepted, whatever neutral extra claims it has |
| `http_keyserver` | `ImplementsLookup` (refinement of `KeyLookup`), `TriedInOrder`, `BoundedWait`, `LookupEnds`; `CountIsFetches`: a server's counter says that a key was fetched from it, unless it was restarted since, and exceeds that by no more than the requests whose answers went unheard |
| `cli` | `UsesNearestConfig`, `NotFoundIsHonest`, `TornNeedsWriter`, `SilenceMeansSaved` while two `init`s and a command overlap, are killed and fail, over files that are absent, whole, malformed or unreadable |

Each violation is a sentence of the documentation, a comment or an assertion that the
code does not keep; `PROJECT.json` quotes it under "findings". Four more disagreements were
met while modelling and have no run of their own:

- `validator.rs` 86 says that a `max_lifespan` above one hour has no effect; the setter
  (173-175) says it sets a higher limit, and `build` (226) takes it as it is. The setter is
  right: `RejectedOnlyBeyondSetting`.
- `validator.rs` 76-78 and 320-322 promise `leeway` for the "`iat` validation"; `iat` takes
  part in the time checks only as the default of `nbf` (602).
- `config.rs` 72-73 says that the user's directory is searched if no configuration is found in the working directory; `or_else`
  (76) goes there after any error of `./.asap-config`, so one that is there but cannot be read, does not parse or was left torn by
  a killed `init` is passed over for the user's file in silence. `UsesNearestConfig` states what the code does: the first
  file that can be loaded.
- `main.rs` 46 says "No ASAP configuration found!" also when only `current_dir()` failed (`config.rs` 75), although
  the user's file may be there and whole. `NotFoundIsHonest` names this exception (`~cwd_known`).

### Bounds

- `i64` has 4 bits (`I64Max = 7`): every combination of `iat`, `exp` and `nbf` is checked
  at every second 0..7, so each comparison is met below, at and above its boundary, and every
  sum both fits and overflows. The theorems hold for every width.
- Two or three calls. All the races of the code are between two calls; the third lets one of
  them see what the other two left behind (two calls store and expire an entry, the third
  finds it).
- The clock takes at most 3 values; with a `key_cache_duration` of 1 tick an entry is fresh at
  its age limit and stale one tick later, and with `StepBack` it comes from the future. In
  `validator_replay` the duration is 0, so that each tick makes entries stale.
- Tokens are one acceptable token and its neighbours: each differs in one respect
  (nonce, issuer, key generation, algorithm, audience, lifespan, header, body). `validator_replay`
  has all of them, in every pair, and a keyserver that may serve noise or nothing.
- Generator: caches with room for 1 and 2 entries and three calls with two audiences, so that
  inserting evicts; two ticks per second, so that a cached token is reused within a second
  and missed in the next; a lifespan of 7 overflows at second 1.
- HttpKeyserver: one or two URLs out of two servers and a mistyped one, in every order and with
  repetition, two keys and an answer without one, and timeouts of 1 (the default, also for a setting of zero) and 2 ticks.
  Two are enough for each pair of fates, and each server may change while the other is asked.
- Cli: two `init`s and one `token`, three files, and configurations of two pieces, so that a file
  may be absent, whole, empty, torn, mixed or malformed. `Options` are two, a command without options and one with `--config` and
  a replaced piece. `Unstable`, the files that may be unreadable and whose access may change, is `./.asap-config`:
  the one after whose failure there is something left to try. The theorems hold for any of them.
- TokenExchange: both clocks run over 0..3 on their own, with a leeway of 1, so that the client is ahead
  or behind by less than, exactly and more than the leeway; lifespans of 1, 2 (the limit) and 7 (too long, and an
  overflow from second 1); two tokens in flight, the most a property compares; extra claims that are
  absent, empty, neutral, named like every required claim, or read by a check (`nbf`, `sub`); foreign tokens
  that lack a claim or have one of another type.
- `Calls` is a symmetry set in the safety runs whose configuration says so: no action
  tells calls apart. The runs with a liveness property use no symmetry.

Deadlock is checked wherever the system cannot stop; `CHECK_DEADLOCK FALSE` stands in the runs
of `TokenLifetime`, where the clock reaches its bound, and of `Cli`, where every invocation ends. In `TokenExchange` the lifespan may be
set again for ever, in `Validator` and `HttpKeyserver`
servers may change for ever, and `Generator` says with `Finished` that all calls may be over.

### Fairness

`validator_replay` assumes `WF(Step(c))` for each call that has begun: an executor polls a
woken future, and the request ends because `HttpKeyserver` puts every request under a timeout.
It does not assume that calls begin, that keys are published, that stderr fails, or that the clock moves.
`http_keyserver` assumes weak fairness of the loop with its timer as one action: a request
under way sees an answer, an error or its timeout. No server ever has to recover.
That assumption is what `get_public_key` gives `Validator` in return: `BoundedWait` and
`LookupEnds` are the reason a fetch ends.

## Proofs

`tlapm` checks every theorem below, for all values of the constants that satisfy the
named assumptions (`Int64Assumption`, `RulesAssumption`, `LifetimeAssumption`,
`ValidatorAssumption`, `HttpKeyserverAssumption`, `ExchangeAssumption`, `GeneratorAssumption`,
`CliAssumption`): any number of calls, tokens, keys, URLs, invocations, any
width of `i64`, any leeway, duration and timeout.

**TokenRulesProofs.** What the operators of `TokenRules` return (`SettingTypes`, `ClaimTypes`), and
`AcceptedMeansConforming`: a verdict of Ok is the policy, if nothing overflows. The next two modules
rest on it.

**TokenLifetimeProofs.** The state is an input and a clock, so the type invariant is enough; the
rest is case analysis of `Verdict`. `ExactAcceptance` (the checks are the policy, if nothing
overflows), `LifespanLimited` (under the assumption of overflow checks, without which
`lifespan_wraps` refutes it), `SettingHonoured` and `UseIsBounded`.

**ValidatorProofs.** None of the properties is inductive. The strengthening is

- `ProvenanceInv`: the types; every published pair is in `everPublished` (`PublishedInv`);
  every cached pair is (`CachedInv`); and per call (`CallInv`), from `verify` on the local
  `public_key` is, and from `jti_check` on the token's signature matches it. It is inductive by
  itself, and `CachedInv` is what carries a key through the cache from one call to another.
  It gives `TypeCorrect` and `KeysWerePublished`.
- `CacheHoldsProvenKeys` is inductive relative to it: the signer of an accepted token is the
  key that is stored (`CacheIsProven`). `EntriesAreNotProlonged` is an action property
  that each step satisfies, given the types.
- `NonceInv`, for `ReplaysOverlap`: a call past `jti_record` has its nonce in `jti_seen`, and
  of two calls that passed the check with one nonce, accepted or not yet, one was among
  the `racers` of the other.
- `OriginInv`, for `DuplicatesAreGenuine`: every nonce in `jti_seen` belongs to a call that got past
  `jti_record` with a genuine token. `NoncesComeFromGenuineTokens` follows from it.
- `AcceptancesAreFull`: `NonceInv` for the nonce, `CheckedInv` (an accepted call is one that `Verdict` passed at its
  second) with `AcceptedMeansConforming` for the rules.
- `HeldInv`, for `RefillsOverlap`: a call that holds a key it did not fetch either finds an entry of its kid still
  in the cache or is among the `outlived`. The only step that takes an entry away is the one that records
  who holds its key.
- `SingleThreadedNoReplay` and `SingleThreadedFilledByFetch` say how far the two findings reach. They
  assume `SingleThreaded`: while a call has its key and has not returned, no other call moves. That
  is what an executor with one thread does, because the await of the keyserver (433, in the future
  awaited at 518) is the only one in `decode` and comes before. Under it `NoOverlap` (nobody is ever in `outlived`
  or `racers`) is inductive, and the two sentences of the documentation that `validator_replay_race`
  and `validator_cache_fill` refute hold.
- `PoisonIsFinal` is an action property: every action that writes the cache or accepts needs
  `CacheUsable`.
- `GateImplemented`, the refinement of `TokenGate`, from `ProvenanceInv` alone: it is what says, when a
  call passes `Verify`, that its signer is trusted. Every step maps to `Trust`, `Move`, `FindGenuine`,
  `Compare`, `Spend`, `Grant`, `Refuse` or a stutter.

**HttpKeyserverProofs.** `TypeCorrect`, with `Untouched` (`urls` are in the order given; a keyserver not yet
asked has spent no time and failed nobody); `WaitIsBounded` from `WaitSoFar` (the requests
before this one took at most a timeout each, `elapsed <= (pos - 1) * Timeout + age`); from `PassedFailed`
(every URL before `pos` has failed) `TriedInTheirOrder`, and with `OfferCurrent` (what
servers hold now, and the answer on its way, have been on offer) `LookupImplemented`, the refinement of
`KeyLookup`. Every step maps to `Choose`, `Ask`, `Miss`, `Find`, `Fail`, `Change` or a stutter.
`CountsAreFetches` rests on `RequestsInv` (a request is read once, only a server replies, and each request the loop went
past was read or went unheard) and on `CountInv`, which bounds a counter by the fetch and by the requests that were read without
being heard: that number, unlike the one in the property, grows exactly when the counter does. The rest is the library's theorems on cardinality. `CountIsFetches` is stated for each
server and not as a sum over them, which the community modules define by a fold the prover cannot
unfold; it says more. `LookupAdvances` is the part of `LookupEnds` that is not
about fairness: `Left`, the ticks and URLs still to come, is a natural number that every step of the loop lowers
and no server can raise.

**TokenExchangeProofs.** First the codec, for any claims and any object: `EncodedFacts` (the names and
values of an encoding), `RoundTrip` (an encoding decodes, to the claims without the clashing extra
ones) and `Reserialised` (an object that decodes is encoded as it was). The invariants follow from
`TypeCorrect`, which says that a token of the client is the encoding of claims it built at a second that has
passed: `ClaimsArrive`, `CopyIsFaithful`, `KeysSeparateTokens`. `HonestTokensPass` uses the first two to
reduce `Outcome` to `Verdict` on the client's own values; the rest is arithmetic on the two
clocks, in which no sum may overflow (`NoOverflow` is part of `Honest`).

**GeneratorProofs.** `CallInv` (a call's claims are what it asked for, with its own nonce) is
inductive with the types. `KeysInv` (an entry's key is the `CacheKey` of its token) and `TokenInv` (a
token returned is the call's own or was in the cache for it) give `TokensFit` and `SharingNeedsCache`.
`UnwrapInv` (whoever is about to use the cache has it, unless it was disabled meanwhile)
gives `PanicsExplained`, and `UnwrapIsSafe`: whoever disables the cache only between calls (`DisabledBetweenCalls`)
never sees `unwrap` fail, so that `generator_disabled` has no other cause. `CachedInItsSecond` rests on
`KeysInv` (a token for the arguments of a call, with its times, is under the key the call looks up: `ReusableIsFound`) and
`MissInv` (a call that went on to sign a token had found none it could use). `SizeInv`, with the library's theorems on cardinality, `CacheIsBounded`.

**CliProofs.** `PlacesInv` says where each invocation may be. `UnmixedInv` (a file no two `init`s met in holds pieces of
one, the one at it if any is) and `MissingInv` (a missing piece of a file nobody stopped in has not been reached by some `init` at it)
are inductive together; `WriteCompletes` follows: whoever writes the last piece of such a file alone leaves it whole. They give
`OnlyWritersTear`, mixed files included, and with what the last `init` to finish there left (`SavedInv`), `SilenceIsHonest`. `LoadInv` follows
a command whose file does not change while it reads it: `SearchInv` (where it looks, and what it knows of the working directory by then), `FoundInv`
(when the file it has open is the one in `nearest`, and why it would fail otherwise) and `ContentInv`
(the pieces it has read are those of the file). It gives `NearestIsUsed` and `NotFoundIsTrue`.

Only model-checked: liveness (`CallsReturn`, `LookupEnds`), which the prover does not do. Every
invariant and action property of a passing run is a theorem, and so are both refinements. Of the
violations, `lifespan_wraps` has its theorem for builds with overflow checks, and three have one for the
use in which the sentence holds; `generator_ttl` has `CachedInItsSecond`, which says what holds in its place.

## Not modelled

- JSON as text: member order, duplicate members, escapes. Arrays are arrays of strings, and fractions are
  values of another type.
- A second `build` of one `ValidatorBuilder`, which panics at the empty option; the setters that
  only assign a field.
- `from_env` (of `Validator` and `Generator`), PEM and DER conversion, `auth_header`, error messages: configuration and formatting.
- The growth of `jti_seen`: nothing removes a nonce, and no document promises that anything does. What
  may feed it is `NoncesAreGenuine`.
- What `curl` does with its token, and its exit status, which `asap_cli` drops (`curl.rs` 17).
- Benchmarks and the crate root, which have no behaviour of their own.

## Plan

What could still be added, in this order:

1. `EndToEnd`: the token cache of `Generator` and `validate_jti` of `Validator` on top of `TokenExchange`: which
   cached tokens a server takes for replays.
2. `Validator` over `KeyLookup` instead of one answer per fetch, so that a key may be older than the
   answer that brings it.
