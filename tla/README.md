# Verification of the fizzbuzz service

This directory models the service of this repository in TLA+, checks the models
with TLC and proves the most important results with TLAPS. `PROJECT.json` lists
the components, the runs, the theorems, the hazards, and for each definition the
lines of the source that it stands for.

Two subjects carry the logic of the service: the statistics, which must count
each request exactly one time although processes, networks and Redis fail, and
the response stream, which must have the length that was announced before its
first byte. Around them are the decisions that a request meets (configuration,
parsing, validation, admission), what is observed of it (metrics, log), and the
web page, the client that this repository ships.

## The system

| Component | State | Operations | Interacts with |
|---|---|---|---|
| Handlers (`server.go`) | `inflight` (atomic) | `fizzbuzz`, `statistics`, `flushLoop` | a store, `WriteJSON`, the process |
| Process (`main.go`) | the HTTP server, the context of `flushLoop` | `run`: start, SIGTERM, `srv.Shutdown`, `stopFlush` | handlers |
| Memory store (`stats.go`) | two maps, the leader, the budget, `saturated`, one mutex | `Record`, `Flush` (nothing), `Top` | handlers |
| Redis store (`redis_store.go`) | pending hits, batch, sequence number, two mutexes; in Redis a sorted set, a byte count, a saturated flag, one sequence number per replica | `Record`, `Flush`, `Top`, two Lua scripts | handlers, other replicas through Redis |
| Validation and size (`size.go`, `params.go`) | none | `Validate`, `JSONSize`, `largestLimit` | handlers, `WriteJSON` |
| Stream (`write.go`) | a generator, a decimal counter, a buffer | `WriteJSON`, `writePeriodic` | handlers, `deadlineWriter` |
| Admission (`server.go`) | `inflight` | reserve, refuse, write, give back | `Validate` (the size), clients |
| Parsing (`server.go`, `query.go`) | none | `parseParams`, QUERY bodies | handlers, validation |
| Configuration (`config.go`) | none after start | `loadConfig` | gives the bounds of all others |
| Observation (`observe.go`) | `http_requests_total` and the durations | `observe` around each handler | handlers |
| Error log (`server.go`) | `lastErrLog` (atomic) | `logStoreErr` | `/stats` handlers, `flushLoop` |
| Web page (`web/app.js`) | the current run with its abort handle, the map, the button, the error, the status line | send, stop, read, paint, finish, refresh statistics | the service |
| Chart, compose file, load tests | - | - | - |

How they interact: a `/fizzbuzz` handler validates, reserves the exact size,
writes with a deadline for each write, and records the request in the store. A
`/stats` handler flushes the store, then asks it for the winner. `flushLoop`
flushes at each tick and one last time when the process ends. Handlers and loop
share `flushMu`; replicas share nothing but Redis.

What is hard to test here, and what makes each part correct:

* **Redis store.** A script call can get lost, run late, or run again, because
  go-redis repeats commands and each `Flush` can time out. Hits come in during a
  flush. Correct means: each hit is published exactly one time or the store is
  saturated for ever, the budgets are exact, saturation happens only if it must,
  and every hit is published in the end.
* **Service.** Handlers and loop compete for the lock, `Top` is two commands,
  SIGTERM comes at any step. Correct means: answers do not go back, a client sees
  its own hits, a shutdown leaves no hit behind, nobody waits for ever.
* **Memory store.** The leader is kept incrementally beside the counts; the keys
  pack two numbers in 64 bits. Correct means: it counts what its contract counts.
* **Stream and size.** One formula computes a length that two different loops
  must then produce. Correct means: exactly those bytes, in buffers that are large
  enough, and a prefix of them after an error.
* **Admission and observation.** The counter changes before the decision, the hit
  is recorded between the decision and the first byte, the metric after the last.
  Correct means: the limit holds, no byte leaks, the largest response can run, a
  client that reads is counted, and hits and metrics add up at any moment.
* **Parsing, configuration, validation.** Five parameters can be wrong at once, in
  the URL or in a body; settings must fit one another. Correct means: exactly the
  documented requests are accepted, the documented parameter is blamed, and what is
  accepted can be served and counted.
* **Error log.** Callers load a time stamp, stop, decide late, and write their line
  late. Correct means: lines keep their distance, and the limit never hides an outage.
* **Web page.** Responses, frames, aborts and clicks come in any order. Correct
  means: one response writes the map, the verdict is true, the page shows how the
  newest request ended and becomes usable again.

## Modules

| Module | Models | Remarks |
|---|---|---|
| `StatsStore` | what the `statsStore` interface promises | abstract specification: count, publish, saturate, discard |
| `Counter` | `counter` of `stats.go` | implements `StatsStore` with no local stores |
| `RedisStore` | `redis_store.go`, both Lua scripts, the network | implements `StatsStore` with one local store per replica |
| `StatsService` | `/fizzbuzz`, `/stats`, `flushLoop`, `Top`, the shutdown | extends `RedisStore`: the same actions, now with an owner |
| `ResponseSize` | `size.go` as operators, and the reference of the tests | no state |
| `Validate` | `Params.Validate`, `largestLimit` | extends `ResponseSize` |
| `Config` | `loadConfig` | operators, no state |
| `Query` | `query`, `parseParams` | operators, no state |
| `Request` | one `/fizzbuzz` request up to the decision of its handler | extends `Validate`, `Query`, `Config` |
| `Response` | the promise in the comment of `WriteJSON` | abstract specification |
| `WriteJSON` | the generator and both loops of `write.go` | implements `Response` |
| `DecimalCounter` | `dcounter` | increments digits in place |
| `ResponseStream` | `WriteJSON` and `DecimalCounter` together | both step at the same time |
| `Admission` | `inflight` and `deadlineWriter` | |
| `Server` | routes, handlers and `observe` | extends `Admission`: the same actions, now of a request |
| `ErrorLog` | `logStoreErr` | |
| `WebPage` | `send`, the tokenizer, `paint` and `finish` of `app.js` | |
| `CounterProofs`, `StatsServiceProofs`, `RequestProofs`, `WriteJSONProofs`, `ServerProofs`, `WebPageProofs` | | theorems about the module and those it extends; those about `ErrorLog` are in `ServerProofs` |
| `SizeProofs` | | theorems about the operators of `ResponseSize` |
| `SumProofs` | | lemmas about sums over finite sets and intervals |
| `MC*` | | instances for TLC |

How state and actions correspond to the code:

* In `Counter` one `Record` is one action, because the code holds its mutex for
  all of it. The 64-bit key is `id * Span + limit`, with a small `Span` instead
  of 2^32. The two checks of `loadConfig` that make the key exact are the
  assumption `ConfigAssumption`.
* In `RedisStore` one action is one critical section of `s.mu`, one run of a
  script (Redis runs scripts one at a time), or one event of the network.
  `phase` is the place of the `Flush` that holds `flushMu`. A call that is on its
  way is a member of `requests`; it can run, run and stay (another attempt),
  or get lost, and it can outlive the `Flush` that sent it. The mutex of a replica
  is not modelled: an action is atomic because the code holds it. A new process
  has a new random key (`SeqKey`), so a restart is another member of `Replicas`;
  with one key for all of them (`SharedKey`) Redis would take the batches of the one
  for retries of the other. `ExpireSeq` models the TTL of a sequence number under the
  assumption in the comment of `batchSeqTTLSeconds`: a batch that was not applied may
  wait when it ends, an applied one without its acknowledgement may not, and no call
  is on its way for a day.
* In `StatsService` a `Flush` belongs to the loop or to a `/stats` handler, and its
  result goes to that owner. `Top` is two actions (`Exists`, `ZRevRange`), because
  a pipeline is not a transaction. Each replica has one `/stats` request at a
  time; two of them only wait for each other. `Drained` and `Expires` are the two
  ends of `srv.Shutdown`.
* In `ResponseSize` a string is its number of bytes, whether it is UTF-8, and the
  number of its bytes after JSON escaping. Ints have the width `MaxInt` and wrap
  (`Word`), so the guards of `lcmCapped` and of the last decimal band matter, and so
  does whether the next multiple of the generator still fits an int.
* In `WriteJSON` a byte is an element and a place in that element, which is finer
  than its value: what the model finds equal is equal in the code. One action
  puts one element into the buffer or writes one buffer; a write can fail after
  any number of bytes. The pool of buffers is left out: a buffer belongs to one
  request at a time.
* In `Admission` `inflight.Add` is one action, the decision that it returns a
  part of it, and the second `Add` of a refused handler another action.
* In `Server` a handler reserves, records, streams and returns in actions of their
  own, so other handlers come in between; `Observe` is what the middleware does
  after `c.Next()`. A request that does not stream changes nothing but its own
  response, so it is one action. `/stats` can answer 200 or 503, for reasons that
  `StatsService` models. Paths are exact: the redirects of gin for a slash at the
  end are left out.
* In `Request` the raw request is what `net/http` passes on. A query string is
  malformed or gives each name a sequence of values, and a value is what
  `ParseInt` says of it and its text. `Parse` is `parseParams` and the call of
  `Validate`, whose own actions (`Check`, `Probe`, `SearchEnds`) follow. Status 200
  means that the handler goes on to `Server`. The environment is chosen in `Init`;
  a process that `loadConfig` refuses serves nothing ("refused"). A setting that
  does not parse still assigns, as in the code.
* In `ErrorLog` the two loads, the compare-and-swap and the line are four actions. A
  caller that stops after its swap writes its line late, maybe right before the next
  one, and meanwhile others leave their errors out because of a line that is not there
  yet. So lines are spaced by the times that the callers measured, and
  `SkipsAreJustified` has the case that the line is owed. The clock never steps back;
  the code uses the wall clock.
* In `WebPage` one action is a task of the browser with its microtasks. An abort
  ends a pending fetch or read in the same step; only the body of an error reports
  in a task of its own. An element is its text and its number (or -1), and arrives
  alone: where the chunks of the response begin and end makes no difference to the
  tokenizer. `form` is what the user has entered for each run.

## Runs

| Run | Question | Distinct states |
|---|---|---|
| `counter` | Is the leader exact, do keys stay distinct, is each charge exact, does the counter implement its contract? | 52,200 |
| `redis_tight` | Do replicas implement the contract with late, lost and repeated calls, with a budget that saturates in both ways? | 341,000 |
| `redis_roomy` | With a budget that never fills: is a hit ever lost, and does every hit arrive? | 166,000 |
| `service_one` | From start to SIGTERM or a kill: are fresh answers complete, does a clean stop lose nothing, does everybody come to an end? | 137,000 |
| `service_two` | Do answers of two replicas ever go back, and do warnings stay true? | 846,000 |
| `request` | Which requests are accepted, which parameter is blamed, is the size exact and the suggested limit the right one? | 87,300 |
| `write_json` | Do both loops write exactly the array of the reference, or a prefix of it? | 5,600 |
| `server` | Does the limit hold, does a byte leak, does each reservation end, do hits and metrics agree, is a reader counted? | 217,000 |
| `error_log` | Are lines spaced, and is each error that is left out near a line, or near one that is owed? | 453,000 |
| `web_page` | Does only one response write the map, is the verdict true, does the page show the newest request and become usable again? | 220,000 |

Two more runs show where the code does something else than its comments say.
Each has one property, which fails:

* `normal_stop` (`StopLosesNothing`). A `Flush` that finds an unacknowledged batch
  sends this batch and returns success, so the last flush of a shutdown can succeed
  and leave newer hits behind. `CleanStopLosesNothing` is what does hold.
* `null_answer` (`NullMeansNoHits`). A script of another replica between `EXISTS`
  and `ZREVRANGE` makes `/stats` answer that nothing was counted.

Other differences between what is said and what is done, which the models show but
no run is spent on:

* "a client sees its own hits on this replica" (server.go:110) has the exception of
  `normal_stop`: a `/stats` answer after a flush that retried a batch leaves out
  newer hits of the same replica. `FreshAnswersShowOwnHits` is what does hold.
* "the server logs it one time" (stats.go:18): a replica that learns from its batch
  that Redis is saturated records on, can overflow, and warns again; a replica that
  neither overflowed nor sent the batch never warns. `WarningsAreTrue` is what does
  hold.
* `loadConfig` "reports every bad value at once" (config.go:30), but the relations
  between settings are one `switch`: only the first is reported. A number that does
  not parse leaves 0 or the nearest integer, so it can add a relation that is not
  wrong, or hide one that is (`Conflict`). `AcceptedFits` is what does hold. Zero
  and negative values of most settings are accepted.
* On the page, a request that is aborted while the body of its error is read still
  reports that error, over the page of the newer request (app.js:60). The history
  variable `stale` of `WebPage` marks it. If `str1` and `str2` are equal, or one of
  them is the number of an element, the classes of the tokenizer overlap, and the
  page says that elements do not match although the response is right. It also
  accepts zeros before a number, and ignores elements after the last one.

Each property of a passing run has a mutant in `PROJECT.json`: an operator marked
`mutant` in its module, a plausible bug, with which TLC finds the property
violated in the same configuration.

### Bounds, and why they are enough

* `counter`: three prefixes and three limits make nine requests, each counted up to
  three times. The budget has room for each prefix with one limit, or for two
  prefixes with all their limits. So known and new prefixes, known and new limits,
  ties, and refusals all occur. With `Span = 4` both relations of `ConfigAssumption`
  hold with equality: the largest limit is the last that its half of the key can hold,
  and the budget has room for three prefixes, as many as the assumption permits. The
  IDs are 0 to 2; ID 3 is out of reach, as is 2^32 - 1 in the code.
  `KeysAlwaysDistinct` holds for every `Span`.
* `redis_*`: two replicas, two keys, two `Record` calls for each key. Two hits of
  a key can be in two batches of a replica, or one in a batch and one behind it,
  or in two replicas. The numbers of batches need no bound of their own: a batch
  needs a hit. One of the replicas can be killed; the other stays. With
  `MaxBytes = 3` key `a` fits, `b` fits in a replica and saturates Redis, both
  overflow a replica. With `MaxBytes = 6` all fits.
* `service_one`: one replica, one key, three hits: one in an old batch, one behind
  it, one while the process drains. More than one `/stats` request comes, one
  after another.
* `service_two`: two replicas that both answer `/stats`, two keys, one hit of each
  key, and a budget that the second key exceeds. The replicas and their roles
  are alike, so they are symmetric; the run has no liveness property.
* `request`: an int of 9 bits with a sign, a key of 7 bits. Divisors at, below and
  above each band, products that overflow, and limits up to the largest key. Each
  parameter is right or wrong in each way that the code tells apart, in all
  combinations; each QUERY body is combined with each URL. Four configurations that
  are accepted (default, a response of three bytes, the two budgets equal, Redis)
  and one for each problem.
* `write_json`: a buffer of three or four elements, divisors below, equal to and
  above the limit, strings longer than what the pooled buffers have room for, and
  limits within, at and after a period. One request counts to 101 for a third
  digit in place.
* `server`: three handlers and two sizes, so that one, two or three responses fit;
  four requests, one more than the handlers, of each kind that the properties tell
  apart.
* `error_log`: three callers and an interval of two ticks. A caller that decides
  late can meet a line that was written after its loads, or one that a second caller
  still owes, while a third one swaps again.
* `web_page`: three requests, of which two can be aborted, three elements and a map
  of two. Equal strings and a string that is a number are among the forms.

Deadlock is checked where the system cannot stop. A request and `WriteJSON` return,
the process of `service_one` ends, and the requests of `server` and `web_page` are
bounded.

### Fairness

* `RedisStore!Fairness`: a replica goes on with its `Flush` and its ticker (weak
  fairness); a call that is sent again and again gets a reply in the end (strong
  fairness of `Answered`). An outage can have any length, but it ends. Nothing is
  assumed of lost or repeated calls.
* `StatsService!ServiceFairness`: goroutines that can run do run; a call to Redis
  ends at its timeout or before. `TopFlushes` and `LastFlush` are strongly fair: a
  `sync.Mutex` hands over to a waiter after 1 ms, and `select` chooses at random
  among the channels that are ready. Redis need not answer at all.
* `ResponseStream!FairStream`: each `Write` returns, at the latest at the deadline.
* `Server!ServerFairness`: handlers run, and each write ends or fails at its
  deadline. The client need not read, and no request need come.
* `WebPage!Spec`: each response arrives and ends, or breaks. The server gives up on
  a client that does not read, and a browser on a server that does not answer. No
  frame need be painted and no button pressed. The number of requests is bounded
  (`MaxRuns`): a user who sends again and again keeps the button at Stop.

## Proofs

The proofs hold for every value of the constants that the assumptions of the
modules permit. Where a sum is involved, these say that the sets of handlers, keys and
replicas are finite. What else they assume is what the code gives:

* `WriteAssumption`: divisors fit an int, and so does two times the limit, because
  a limit is below 2^32 (config.go:91) and an int has 64 bits; a string has a byte
  or more; each number fits in `maxNumElem`.
* `StreamAssumption`: the array of `dcounter` has 64 bytes, and a number with its
  frame fits left of the closing quote.
* `RequestAssumption`: a raw request that parses, and each environment that is
  loaded, gives a request and limits of the types that `Validate` expects.

* **`SumProofs`.** What `MapThenSumSet` does when one value or one element changes,
  for parts and for larger values. The induction theorems of the library take a
  predicate, which the provers cannot instantiate. So the induction is by a smallest
  counterexample: the subsets for which a fact is false are a set, and a well-founded
  order on finite sets (`FS_StrictSubsetOrderingWellFounded`) gives it a minimum
  (`Descent`); numbers have `SmallestNat`. `Telescope`: a sum of differences is the
  difference of the ends.
* **`SizeProofs`.** `JSONSizeIsExact`: the closed formula of `size.go` is the sum of
  the sizes of the elements, for each valid request and each width of an int. A
  recursive function of the model is a `CHOOSE` of a solution of its equation, so
  the first lemma says when there is one: if the argument gets smaller by some rank,
  the solutions up to each rank can be put together (`Recursion`). Then the parts of
  the formula follow one by one. Euclid ends with a common divisor that each common
  divisor divides, so `lcmCapped` is the least common multiple, or 0 exactly if that is
  above the limit, and no product that it forms overflows (`LcmIsRight`). Events are
  added up by inclusion and exclusion, one multiple more at a time (`Telescope`). The
  bands of `numberBytes` cover the numbers without a gap, each with one number of
  digits, and the last one ends at the largest int without an overflow (`BandTop`). An
  element is an event or a plain number, which gives the sum of both.
  `JSONSizeGrows` ("JSONSize grows with limit", params.go:65) follows: each element
  adds a byte or more.
* **`CounterProofs`.** The inductive invariant `IInv` adds to the types: IDs are
  different and below the number of prefixes; the budget pays for each prefix, which
  bounds the IDs (`ConfigAssumption` then gives that packing is injective); each
  key in the map of counts belongs to a known prefix, so a new prefix cannot
  inherit hits; the leader has the largest count. From it follow `TypeCorrect`,
  `LeaderAlwaysExact`, `KeysAlwaysDistinct`, `AlwaysWithinBudget` and
  `CounterImplementsContract`. `ChargeAlwaysExact` (`ChargeInv`) needs the third fact
  again: the key of a new prefix is new, so the step that adds a prefix pays for it.
  None of the properties is inductive alone: distinct keys need the bound of the IDs,
  and that bound needs the budget.
* **`StatsServiceProofs`, the store.** The inductive invariant is `TypeOK /\ ExactlyOnceInv`:
  a batch is the part of the pending hits that is marked as sent; replies are true;
  a call on its way is the current batch, unchanged, or changes nothing. Any
  number of replicas, calls and keys. `RedisImplementsContract` then maps each
  step: a script that applies a batch publishes, an acknowledgement stutters (the
  hits left "waiting" when the script ran), a reply that reports saturation
  lets the contract discard. The key lemma is `OnlyTheBatchApplies`. `TypeCorrect`
  says more than its name: `n` and `sent` stay natural numbers, so the `uint64`
  subtraction of the code never wraps.
  Three more invariants stand on this one. `BudgetAlwaysExact` (`BudgetInv`): the keys
  of a replica are those with hits, so what an acknowledgement frees is the cost of
  the keys that leave, and a script charges the keys that were no members.
  `SaturationIsAlwaysJustified` (`CauseInv`): each hit anywhere, also in a call on
  its way, was recorded, and keys that are too large for a replica are too large for
  Redis, because each costs more there. `NoHitIsEverLost` (`PlaceInv`): a step of
  the contract moves a hit of one replica from waiting to visible, and a replica
  forgets an overflow only when Redis is saturated.
* **`StatsServiceProofs`, the service.** A step of the service is a step of the Redis store or
  leaves it alone (`ServiceUsesStore`), so the whole service implements `StatsStore`
  too. On top of the invariant of the store come the owner of the lock
  (`ServiceTypeOK`: a `Flush` in progress has one) and one invariant per result.
  `WarningsAlwaysTrue`: an overflow ends only when Redis is saturated, for ever.
  `AnswersNeverGoBackAlways` (`AnswerInv`): the best answer so far is at most what
  some key has in Redis, whose counts only grow until saturation, and after an
  answer "unavailable" no request gets past `EXISTS`. `CleanStopAlwaysLosesNothing`
  (`LastFlushInv`): the loop keeps the lock for its last flush, and after the drain
  nothing is recorded, so the last batch has all pending hits.
  `FreshAnswersAlwaysShowOwnHits` (`OwnHitsInv`): when no batch waited, the batch of
  the handler's own `Flush` leaves out only hits that came after the request; an
  acknowledged batch is applied, and what a replica published stays so until
  saturation (`PublishedGrows`), so also the flushes of the loop in between do no harm.
* **`RequestProofs`.** The binary search keeps that limits at or
  below `i` fit and that `j + 1` does not, if `j` is below the limit of the request.
  So `AdviceAlwaysTight` holds for any function in the place of `JSONSize`, also one
  that does not grow: the suggestion is valid, and one more is not. With `SizeProofs`
  the suggestion is the largest valid limit (`AdviceAlwaysLargest`), and the size that
  is compared is the length of the response (`SizeIsAlwaysExact`). A request is a
  behaviour of `Validate` (`RequestUsesValidate`), so the same holds at the end of a
  request. `BlameAlwaysFirst` needs that the verdict of `Validate` is about the
  parameters that were given, which the invariant carries from `Parse` to the answer.
  `AlwaysAcceptsExactlyValid` puts the two halves together: status 200 means that no
  part of the request is at fault, and then the size that was compared is the sum over
  the elements that the README of the service describes. `AcceptedAlwaysFits` adds what
  `loadConfig` checked of the environment.
* **`ServerProofs`.** The counter of bytes in transfer is the sum of what each handler
  added and did not give back yet (`AInv`), so `ReservationsAlwaysAddUp` and
  `TransfersAlwaysFit`: a handler that is refused still has its bytes in the counter,
  but transfers nothing. `LargestCanAlwaysRun` needs the sum to be 0 when all others are
  idle. A step of the server is a step of `Admission` or leaves it alone
  (`ServerUsesAdmission`), so these hold of whole requests (`ServerKeepsTheLimit`).
  `HitsAreAlwaysServed` counts: a return moves one request from the recorded handlers
  to the metrics, with the code 200.
* **`ServerProofs`, the log of errors.** For the distance (`SpacingInv`): no line and no
  swap is newer than the time stamp, and each swap that still owes its line is apart
  from the lines and from the other such swaps. A swap that succeeds measured against
  the newest of them. For what is left out (`SkipInv`): the line of the newest swap is
  owed or was written after it, and a caller whose load is out of date was overtaken by
  a swap after it read the clock.
* **`WebPageProofs`.** A run that fetches or reads is the current one, because `Send`
  ends the one before; the map belongs to the run that reads. If `wrong` is 0, each
  element follows the rule, and for strings that differ and are not numbers also the
  other way round; that needs that the number of a text is a function of the text
  (`PageAssumption`). For any number of runs and any forms.
* **`WriteJSONProofs`, the elements.** `next1` and `next2` are the first multiples at or
  after `i`, and `c = i`. With facts about the remainder, the generator never divides
  and still emits the element of the reference (`ElementsAlwaysRight`); the next
  multiples are at most two times the limit, so they fit an int. `AlwaysFitsBuffer`
  follows from `pos <= stop + maxElem` for strings of any length.
* **`WriteJSONProofs`, the bytes.** `AlwaysStreamsTheArray`: `WriteJSON` implements
  `Response`. A text is a run, the bytes of the elements `u + 1` to `u + v`; it can be
  cut at each element (`RunSplits`, from the recursion of `FlattenSeq`), and the run of
  the whole array has `JSONSize - 1` bytes, by `SizeProofs`. The comma before the first
  element is the bracket, so `Sent(pl, m)` is what the client has after `m` elements,
  and `Array` is `Sent` of all of them and the closing bracket. The inductive invariant
  (`WriteInv`) says at each place of the code how many elements were sent, and that the
  buffer is the next run. In `writePeriodic` a divisor is 1, so the elements repeat with
  the larger divisor (`ElementRepeats`): `j` copies of the first period are the first
  `j` periods (`CopiesAreWhole`), and what is sent of the chunk is the next run, also the
  whole periods after the last chunk and the part of a period at the end. A step then
  sends the next run, or part of it and an error, which is a step of `Response`, or it
  changes nothing that `Response` sees.
* **`WriteJSONProofs`, the digits.** `AlwaysShowsTheNumber`: `inc` works on bytes in
  place. `CarryRule` says what the digits of `x + 1` are, given those of `x`: the same up
  to a place, one more there, zeros after it, or a one before zeros only. The invariant
  (`Frame`) says that the array shows the digits of `c` with their frame, so the place
  where `inc` stops is that one (`CarryPlace`), and the frame moves only when all digits
  are nines.

Checked by TLC only: liveness, which is out of reach of the prover (`NoHitWaitsForever`,
`CallersEnd`, `Returns`, `ReservationsEnd`, `BusyEnds`). Every other
property of a passing run is proved.

Proved and not checked again by a run: the type invariants of `Counter`, `Validate`,
`Request`, `StatsService`, `ErrorLog` and `WebPage`, and `AlwaysWithinBudget`. The
types of `RedisStore` stay in a run, because they say that no unsigned count wraps;
those of `Server` and of `ResponseStream` are parts of `ServerTypeOK` and
`ShowsTheNumber`.

## Not modelled

* Assets, the chart and the load tests: declarative, constant, or clients of the
  service. The start of `main.go` (the ping of Redis, a port that is in use).
* The text of messages and strings, percent-encoding and escaping themselves, the
  lines and durations of the log and the metrics, and the pool of buffers.
* In the Redis store: an operator who deletes keys, a Redis that restarts from an
  old snapshot, and a TTL that ends while an applied batch waits for its
  acknowledgement or a call is on its way for so long (README.md:318 of the
  service says so too). What is promised then is not stated anywhere.
* On the page: the statistics line, whose requests are not ordered, the columns and
  colours of the map, the preview of the response, and the clipboard.

## How the modules were ordered, and what could follow

The contract came first (`StatsStore`), then what implements it (`Counter`,
`RedisStore`) and what runs it (`StatsService`); then the response (`ResponseSize`,
`Validate`, `WriteJSON`, `DecimalCounter`, `Admission`); then what composes these
(`Request` with `Config` and `Query`, `Server`); then `ErrorLog` and `WebPage`.

1. `RedisStore` with keys that are deleted and a Redis that loses its newest writes,
   as specifications of their own with the weaker promise that is left.
2. The statistics line of the page, if its requests get an order.
