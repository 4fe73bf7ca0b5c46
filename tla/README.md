# A TLA+ model of evoclaw-plugin-wechat

The plugin is a small Rust server (`src/src`).  WeChat POSTs the messages of an
Official Account to it and waits five seconds for an XML reply, with two
retries.  The plugin answers from word lists and a digest of events on disk, or
hands the message to one of several EvoClaw child processes over a pipe.  This
directory holds TLA+ modules of its concurrent and decision-making parts, TLC
configurations that check them on small instances, and TLAPS proofs of what
holds for instances of any size.

Line references such as `bridge.rs:285` are to `src/src/bridge.rs`; `handler.rs`
and `router.rs` are in `src/src/wechat`, `dict.rs`, `ai.rs` and `mod.rs` in
`src/src/intent`.

## 1. Inventory

| Component | State | Operations | Talks to | Hard part | What makes it correct |
|---|---|---|---|---|---|
| **Conversation serializer** `conv_serializer.rs`, `main.rs:229-276` | map conversation id -> (mutex, last seen) | `acquire`, `gc` | handler tasks lock the mutexes; a timer task sweeps | eviction races with a handler that holds a reference but no lock yet; dropped futures in the queue | one task per conversation, conversations independent, FIFO, the map shrinks |
| **Bridge** `bridge.rs:55-351` | pending map, alive flag, stdin mutex, two pipes, reader task | `ask`, `PendingGuard::drop`, reader loop, drain | callers' timeouts drop `ask`; the child answers in any order or dies | cancellation at any await, half-written lines, late replies, flag and drain against a concurrent `ask` | nothing leaks, replies stay in their conversation, a dead child fails its asks at once |
| **Bridge pool** `bridge.rs:353-506` | slots under RwLocks, shared counter, cooldown | `checkout` with respawn, `spawn` | handler tasks, classifier | check-then-act around the write lock, shared round robin, failing spawns | live bridges are not replaced, the walk ends, spawns are bounded |
| **Text path** `handler.rs:277-466` | reply cache, locks, asks in flight | `dispatch_and_reply`, `compute_text_payload`, `ask_with_timeout` | all of the above; session files of the children | retries, timeouts, disconnects and crashes at once; a child works on after its ask timed out | one LLM call per message, the right answer, one text per message, one writer per session file |
| **Webhook door** `handler.rs:185-262, 468-566` | nonce cache, reply cache | `handle_message`, `check_replay`, cache expiry, `gc_caches` | WeChat, two clocks, the timer task | late and repeated deliveries, adjusted clocks, entries that expire while a handler works | a request is let in once per window, expired replies are not served, caches empty |
| **Digest cache** `digest_cache.rs:110-272` | `last_mtime`, `inner` under two locks | `snapshot` | an offline job that moves a link | three file reads against a moving link, two locks stored one after the other | unsupported data is refused, the snapshot is current |
| **Intent, query, router** `intent/`, `digest_cache.rs:274-428`, `router.rs` | none | `classify`, `parse_intent`, `query`, `route` | text path, digest snapshot | calendar boundaries, four meanings of an absent field, noisy classifier output | the answer contains the rows asked for |
| **XML codec, signatures, AES envelope** `xml.rs`, `signature.rs`, `crypto.rs` | none | parse, build, sign, encrypt | webhook door | texts that contain the marks of their own quoting; lengths and padding that are read back from the data | what was written is read, and nothing else is accepted |
| **Configuration** `config.rs` | read once | defaults, `validate` | everything | timeouts that must fit in five seconds together | what is accepted can be served |
| **Start, command line, shutdown** `main.rs`, `bridge.rs:376-430` | phase of the process, children | `check`, `run`, signals | operating system, children | children that exit while the others are started; signals at any moment; handlers in progress at a shutdown | a broken start is noticed before serving, a shutdown ends |
| **Errors, helpers** `error.rs`, `util.rs` | none | clock readers | everything | | |
| **EvoClaw child, WeChat** | session files | external | | | |

The components interact through shared memory (locks and `Arc`s in
`HandlerState`), dropped futures (a timeout or a closed connection drops
everything below it), pipes, and files.  The list of hazards in
`PROJECT.json` names the lines where these interactions bite.

## 2. Modules

```
PerConvLock            one eternal FIFO lock per conversation (abstract)
  ^ implemented by     ConvSerializer      <- ConvSerializerProofs
  ^ used by            TextPath            <- TextPathProofs
Bridge                 <- BridgeProofs       one bridge and its child
BridgePool             <- BridgePoolProofs   checkout over N bridges
Webhook                <- WebhookProofs      replay guard, reply cache, clocks
DigestCache            <- DigestCacheProofs  reloads against a publisher
EventAnswer            <- AnswerProofs       classification, query, routing
Config                 keys, defaults, validate()
  ^ extended by        Startup               check, run, the pool's start, signals
  ^ extended by        Deadline              waits of a fan's messages against 5 s
      both composed by Service               <- ServiceProofs
Envelope               reply XML, its readers, the encrypted layout
Phrases                words in texts, JSON in texts
      both checked by  Codec  <- AnswerProofs  every text up to a length
MC<module>             constants of the TLC instances
```

Definitions whose comment says *Bug*, *Mutant* or *variant* are not part of a
specification.  Each is a plausible mistake in the definition that follows it;
replacing that definition by it must break the property it is kept for.

**PerConvLock, ConvSerializer.**  `locks` is the map; `Acquire` is one atomic
step because `acquire()` runs under the map's std mutex; `Gc` likewise.
`last_seen` is an age in ticks, cut off at `IdleLimit`, since `gc()` compares
ages with the limit only.  A mutex is an address: `Unallocated` allows an
address whose last reference is gone to be allocated again, so `strong_count`
is modelled by counting references and never by a number that could be wrong.
`ahead` is the wait queue of a tokio mutex, which is FIFO; `Join` is the first
poll of `lock_owned()`, `Release` and `Abandon` drop the guard or the future.

**Bridge.**  `pc[a]` walks through the awaits of `ask()`.  `Start` requires
that no ask of the same conversation is in flight, which is what
`ConvSerializer` guarantees (and what `ask` documents that it relies on).
`Cancel` may happen at every await after the guard exists, also between two
parts of a line: `WritePart` puts bytes in the pipe when it is full, and `tail`
keeps them when their writer is dropped.  The reader has its four steps:
read, leave the loop, lower the flag, drain.  `NotUtf8` is a line on which
`next_line()` fails.

**BridgePool.**  `Look`, `CheckCooldown`, `LockSlot` and the spawn are separate
steps as in `checkout()`; the cooldown is looked at before the write lock is
asked for.  A write lock is held exactly while its owner spawns.  `gen[s]`
changes when a bridge is replaced.  `steady`, `jumps` and `burned` are history:
`jumps` counts, up to two, how often the counter left the sequence that a walk
relies on, by another task's pick or by its wrap (`Disturbs`).  The counter wraps at `Wrap`, as the code's does at 2^64.  `Abandon` is a caller
that is dropped while it waits for a lock; `Bridge::spawn` never suspends, so
nobody leaves it.

**TextPath.**  A delivery `<<m, k>>` is the k-th POST of message `m`.  Its
handler waits for the conversation's lock (`PerConvLock`), looks in the cache,
routes, asks, stores and responds.  A message that is not in the cache is
classified and routed again on every POST, with the digest and the classifier's
answer of that moment, and a news reply is never cached: so the kind is chosen
out of `Kinds[m]` and the payload out of `Texts` or `Cards` at each POST.
Children are external: they load the session, save it and reply, in the order
of `tests/integration_session.rs` or, in the runs that begin with
`saveFirst = FALSE`, in the order of `docs/USAGE.md:726`.

**Webhook.**  Entries of both caches have ages; all of them grow with `Tick`.
The wall clock is that clock plus an offset `skew`, which `Adjust` may change.
`Retain` is the `retain` call that guard, lookup, store and sweep share.
`Admit` is all of `handle_message` up to the first await: the guard remembers
the nonce before the signature is looked at.  Signatures and decryption are
inputs (`Shapes`).

**DigestCache.**  One action per file access and per lock of `snapshot()`.  A
digest's number stands for its contents and its mtime.  `hit` and `overlap` are
history: the properties exempt what the code does not check on a cache hit and
calls that look at the cache while another reloads.

**EventAnswer.**  Days are integers with day 0 a Monday, rows have optional
fields, tags are values.  A message is which words occur in it.  `Matches`,
`DateRange`, `Query`, `PickTag`, `FromRaw` and `Route` are the functions of the
code; `Ask` applies them in the order of `compute_text_payload` while days pass
and snapshots change.

**Config.**  One record per section, with the keys of the file and their
defaults.  A text is what `validate()` or a later step can tell about it: empty,
a placeholder, of the right length, one that parses.  `Valid` has one conjunct
per section; `MaxTimeout` is the 4900 ms of `config.rs:611`.

**Startup.**  `phase` is the step of `run_server()` that comes next, in the
code's order: load and parse the address, decode the AES key, create the session
directory, spawn the children one after the other, wait for the grace, look at
the flags one after the other, wire the routes, bind.  `ChildExits` is the
environment; `Notice` is the reader task that lowers the flag.  `Fail` drops all
bridges, which ends their children; a signal before the server listens for it
does not.

**Deadline.**  The only module in which durations are compared.  A queue of
deliveries stands for the FIFO lock of one conversation, whose head is in one of
three stages; `timer` is the time that the stage has taken, `clock[d]` how long
WeChat has waited for `d`.  `Tick` may not happen while a wait is over and its
handler has not run: steps between waits take no time.  Every configured time is
a multiple of `TickMs`; one of 1 ms divides them all.  A child answers at any
tick or never.  `Drop` is the server that notices a closed connection, at any
time after it or never.

**Service.**  `Startup`, then `Deadline` under the same configuration, then the
graceful shutdown: after the signal nothing is accepted, handlers finish, and
the pool is dropped.

**Envelope, Phrases, Codec.**  Characters are strings of one character, and the
opening mark `<![CDATA[` counts as one; `]]>` is three, because `escape_cdata()`
splits it.  `Read` is an XML reader one character further and `ReadOn` the
reader over a text; `Sections` are its events for an element, of which `Whole`
puts the pieces together, as WeChat does, and `Kept` takes the last section, as
`parse_inbound()` does (`Bag`, `ParseInbound`).  `Encrypt` and `Decrypt` are
the layout around AES, which is left out with base64: bytes are small numbers,
the random prefix and the length have one each instead of 16 and 4, and `Block`,
16 in the code, is 2 in the run.  `Step` is the body of `extract_json()`'s loop
and `Scan` the loop.  A state of `Codec` is a text, a step makes it longer, so
the invariants range over all texts up to the bound.  `Nested` builds the JSON
objects level by level, from strings, other characters and the objects below.

## 3. Runs

Twelve configurations.  "States" are distinct states.

| Run | Question | Instance | States |
|---|---|---|---|
| `conv` | is the swept map an eternal FIFO lock per conversation, are waiters served, does the map shrink? | 3 tasks, 2 conversations, 3 mutexes, `IdleLimit` 1 | 4 310 |
| `bridge` | what may the pending map hold, who may fail, what gets mixed up, does a dead child end every ask? | 3 asks of 2 conversations, a stdin of 1 line, a stdout of 2 | 79 834 |
| `bridge_stale` | does an ask get the reply to its own message? **No** | as above | |
| `pool` | are live bridges kept, is the walk sound and finite, are spawns bounded? | 2 tasks, 2 slots, a counter that wraps at 5 | 449 996 |
| `text_rough` | what do timeouts, hang-ups, crashes and a changed mind leave of one call, one reply, one writer, no lost turn? | 2 messages of one fan, a retry that may become LLM, text or news, 2 texts, 2 cards, 2 workers, both orders of save and reply | 606 918 |
| `webhook` | how often is a request let in and a message worked on, do the caches empty? | 2 requests, 1 message, 2 handlers, window 3, TTL 2, skew 1 | 37 098 |
| `digest` | is anything unacceptable served, or anything older than the file looked at? | 2 tasks, 3 digests, one unsupported | 242 270 |
| `digest_race` | the same with concurrent reloads: **older data is served** | as above | |
| `answer` | do ranges, filters and limits give the rows asked for? | 9 days, 6 kinds of rows, 6 messages, 3 classifier answers | 3 670 |
| `answer_weekend` | is a question for the weekend answered with the weekend? **Not on weekdays** | as above | |
| `service` | does `check` see what `run` refuses, is a broken start noticed, who is late, does a shutdown end? | 8 configurations, 2 messages, 2 attempts, ticks of 500 ms | 299 587 |
| `codec` | is what was written read, is nothing else accepted, are words and JSON found? | all texts of up to 6 (XML), 8 (bytes), 6 (words) and 4 (JSON) characters | 94 716 |

Why the bounds suffice.  The interesting cases of `conv` need one holder, one
waiter and one task between `acquire` and `lock`, and a mutex that is reused
for the other conversation: three tasks, two conversations.  `IdleLimit` 1
distinguishes "seen since the cutoff" from the rest, and the proofs cover every
other value.  A bridge needs an ask that is cancelled, one that follows it in
the same conversation and one of another; a pipe of one line makes every
second write block.  A pool of two slots and two tasks has every
interleaving of a walk with one competitor.  `text_rough` has a message that is
sent again and understood anew, and a second message of the same fan, whose ask
may meet what the first left behind in either worker; two texts and two cards
tell a repeated payload from a recomputed one.  Fans share nothing but the
queues of the workers, and what a reply may reach is kept by fan; the theorems
cover any number of them.  `window` 3 with TTL 2 keeps the two limits apart, and a skew of 1
shifts a timestamp over the edge in both directions.  Nine days contain each
weekday, a weekend and the turn of a week.  `Wrap` 5 with two slots makes one
round out of order, as a wrap at 2^64 does for every `N` that is not a power of
two.  The `service` configurations lie on both sides of each condition of
`validate()` that is about the start or the budget: 4500 ms for answer and
classifier are accepted and exceed WeChat's 5000 ms together, 5500 ms are
refused; two attempts are the first POST and one retry, and the third differs
from the second in nothing but its number.  Six XML characters hold `]]>` twice
in a row and overlapping (`]]]>`), before and after a cut; eight bytes are a
message of up to three, its prefix and length, an AppID of two and the padding,
in four blocks; six characters hold a word twice with a boundary at one place
only; the JSON objects themselves have strings of up to two elements, two
members, and objects of one member among them, with four characters before or
after them.  Named bounds: `PipeCap`, `OutCap`,
`Wrap`, `MaxDigest`, `MaxTime`, `MaxDay`, `MaxSkew`, `MaxWorkers`,
`MaxAttempts`, `MaxLen`, `MaxString`, `MaxDepth`, `MaxMembers`; ages are cut off at the limit they are compared with.

Deadlock is checked except in `bridge`, `text_rough`, `service` and `codec`:
there asks, deliveries, the process or the texts come to an end.

Type correctness is an invariant of the `service` run, and a theorem for every
module that has a state other than a text.

`digest` and `digest_race` use the symmetry of tasks; no run with a liveness
property uses symmetry.

**Fairness.**  `conv`: a task that has the `Arc` polls the lock, a critical
section ends (the ask in it has a timeout), the clock runs and the interval
timer fires: weak fairness of `Join`, `Release`, `Tick`, `Gc`.  `bridge`: the
runtime polls tasks that can proceed: weak fairness of each ask and of the
reader; none of the child, none of timeouts.  `pool`: strong fairness of a
task's steps, because tokio's RwLock serves its waiters in order and spawning
ends.  `text_rough`: weak fairness of the handlers' steps, of which a timeout
is one; none of children, WeChat or disconnects.  `webhook`: time passes and
the sweep runs.  `service`: weak fairness of the handlers' own steps
(`HandlerStep`: a timeout is one, an answer is not), of time, of WeChat hanging
up and of the end of the process once nothing is in progress; none of children,
signals or new messages.

### What the violations say

* `bridge_stale`: the pending map is keyed by conversation, which is stable per
  fan.  After a timeout the late reply of the first message finds the fan's
  next ask.  `MismatchNeedsCancel` says that nothing else causes it.
* `digest_race`: two reloads around a publication may store the new mtime and
  the old snapshot.  `NotBehindStatAlone` says that a call that looks at the
  cache during another's reload is needed.
* `answer_weekend`: the range of "weekend" begins today on every weekday
  (`digest_cache.rs:418`, `sat.min(today)`), though the comment above it walks to
  Saturday (`405-406`).  `RangeAgreesWithDays` says what is true of the range:
  it has all of the weekend and nothing from outside the week.

Further disagreements between code and text, which the modules show but no run
is kept for; each can be seen by changing one constant or adding one property:

* on a timeout, a failure or a hang-up the lock is released while the first
  child still works on the session file, and the next message goes to another
  child, which may undo its turn (`config.example.toml:243`: the lock of a
  conversation keeps two messages from ever polluting one file).  With a child
  that replies before it saves (`docs/USAGE.md:726`) both happen without a
  timeout.  `OverlapIsLate` and `TurnLostIsLate` name exactly these cases, and
  without `CutShort` or `saveFirst` in them `text_rough` finds them violated;
* a nonce is forgotten at an age of 300 s while a timestamp of that age is still
  accepted (`handler.rs:492` against `496-497`), so that a repetition in that
  second is let in although no clock was set, against `handler.rs:197-198`.
  `RepeatsFarApart` says that none is let in earlier;
* a digest past `max_age_secs` is served as long as it is cached, because the
  age is checked on a reload only (`digest_cache.rs:171-179` against
  `config.rs:201-204`): `OnlyAcceptableServed` without `~hit[t]`;
* `ai_timeout_ms` may be as long as `timeout_ms` (`config.rs:645-655`), although
  the two waits follow each other and `config.example.toml:47` says that 500 ms
  of WeChat's five seconds are left: `LateNeedsCause` without `Overlong`;
* `check` accepts a key of 43 characters that is not base64 and an
  `endpoint_path` that axum refuses, which `run` then fails on: `CheckCatches`
  names both;
* `parse_inbound()` keeps the last CDATA section of an element only, so it does
  not read what `escape_cdata()` makes of `]]>`; `RepliesReadWhole` says where
  the two agree, and WeChat, which reads replies, is not concerned;
* `extract_json()` gives up on prose with an unbalanced "{" before the object
  (`ai.rs:163-164`: "Tolerates noisy LLM output"); `FindsTheObject` says where
  it works;
* without `[session].dir` the lock map is never swept (`main.rs:253, 268`
  against the comment at `229-233`): `Sweep = FALSE`, `QuietEntriesEvicted`;
* `checkout()` can fail next to a bridge that was alive all the time, against
  `bridge.rs:453`: add `ErrorMeansAllDead` to the pool run;
  `ErrorNeedsContention` states when;
* the cooldown is looked at before the write lock is waited for
  (`bridge.rs:474`, `docs/DEVELOPING-PLUGINS.md:405`), so a waiting task spawns
  right after another's failure;
* a write that is cancelled half way glues two lines together (`ai.rs:14-17`:
  "dropped cleanly"); `TornNeedsCancel` states when;
* a line that is not UTF-8 ends the reader of a living child
  (`bridge.rs:190`); an ask registered after the drain waits for its timeout,
  which is why `FailFast` and `DeadChildFailsFast` exclude such a line;
* a handler that is dropped caches nothing, so a retry asks the LLM again
  (`docs/USAGE.md:503`): `OneCallUnlessDropped` names the case;
* a retry of a message that was answered with a news card may be answered with
  another card or with a text: the digest and the classifier are asked again
  (`handler.rs:360-361`).  `RetrySameText` is about texts.

## 4. Proofs

All theorems are about the specification without fairness and use only the
assumption that the module names on its constants.

* **ConvSerializerProofs** (`Exclusion`, `Refinement`, `TypeCorrect`).  `MutualExclusion` is not inductive: it says nothing of tasks
  that have a reference but are not queued.  `IInv` adds `References` (whoever
  has an `Arc` has the one in the map: the sweep may not have evicted it),
  `OneEntryPerMutex`, and that `ahead` is a strict total order on each queue.
  The refinement maps `wants[t]` to the conversation of a queued task; `Join`
  implements `Enter`, `Release` and `Abandon` implement `Leave`, all else
  stutters.
* **BridgeProofs** (`NothingLeaks`, `Isolation`, `FailsOnlyWhenDead`,
  `LinesKeptApart`, `DrainIsComplete`, `MismatchOnlyAfterCancel`,
  `ExactWithoutCancel`, `BridgeTypeCorrect`).  `BInv` has three parts.  `CallInv`
  relates map, channels and program counters: an ask that waits with an open
  channel owns its entry (`Held`), a channel is closed only by the drain
  (`ClosedByDrain`).  `PipeInv` says who may own the unfinished line.  `EndInv`
  says why the reader went, from which `FailFast` follows.  `TokenInv` stands on
  them: a message is in one place at most between its writer and its awaiter
  (`Once`), so the reply that reaches an ask of the same conversation is its own
  unless another ask was cancelled.  `ExactWithoutCancel` is the property that
  `bridge_stale` refutes, under the assumption that nobody cancels.
* **BridgePoolProofs** (`KeepsLiveBridges`, `SpawnsBounded`,
  `GivesUpUnderContention`, `PoolTypeCorrect`).  `SlotFacts` collects what the
  wrapping counter needs of arithmetic.  `PInv`: a slot has one writer, who
  found it dead and still does (`SpawnsDead`), and a task that has failed knows
  that the cooldown is on (`BurnedInCooldown`).  `WInv` is about the 2N picks of
  a walk: as long as the counter left their sequence at most once, they are two
  runs of consecutive numbers, one of which has a pick of each slot.  The proof
  found that a wrap counts as another task's pick does, which `jumps` now says.
* **TextPathProofs** (`RetriesAgree`, `OneCallOrDropped`, `MisfitsAreLate`,
  `SessionsOverlapLate`, `TurnsLostLate`, `TextPathTypeCorrect`).  All of them
  are about every run: asks may time out, handlers may be dropped, children may
  crash and save before or after they reply.  `LockInv`: the handlers of a
  conversation are in a line, and one at most is past the lock.  `AskInv`: what
  is cached is what was answered, and `OneCallUnlessDropped`.  `TurnInv`: an
  earlier POST of a message is ahead in the line or over, so a card never
  follows a text (`NoCardAfterText`): its handler would have found the text.
  `QueueInv`: nobody has its own reply before its child has replied.
  `LateInv`: a reply that reaches another ask is of a handler that is over.
  `FileInv` is about conversations in which no ask was cut short: whoever sent a
  child what it has not replied to still waits, so by `LockInv` one child at
  most has work of the conversation (`OneChild`), and what it loaded is what the
  file holds (`SnapFresh`).
* **ServiceProofs** (`CheckIsEnough`, `EarlyExitsFail`, `LateHasCause`,
  `RetryLateHasCause`, `ServiceTypeCorrect`).  `StartInv` orders phases, children
  and probed slots.  `DeadlineInv` ties WeChat's clocks to the timer of the
  handler at the front of the line: a first POST that found the line empty
  stays at its front, so the time it has waited is the classifier's budget and
  the timer at most (`FirstInTime`); the second POST stands right behind it or
  finds its reply in the cache (`SecondInTime`).  The configurations are any
  that `validate()` accepts, times are any multiples of a tick.
* **WebhookProofs** (`AdmissionsFarApart`, `CallsFarApart`, `ServedIsYoung`,
  `WebhookTypeCorrect`).  The properties speak of the time since an event, the
  code of the age of an entry.  `Remembers` relates the two: an entry has the
  age of the last event, and is missing only if that never happened or its age
  has reached the limit.  Five lemmas show that each operation on a cache keeps
  it; the adjustments of the wall clock do not touch it.
* **DigestCacheProofs** (`AcceptableServed`, `CurrentAlone`,
  `DigestTypeCorrect`).  `OnlyAcceptableServed` speaks of returned snapshots
  only.  `DInv` follows a call: what it has read is at least as new as what its
  `stat()` saw, because `latest` only grows; what passed the check is `Sound`
  and the call was `Young`; and what is cached is sound.  Without an overlap at
  most one call reloads (`OneReload`), and the mark is ahead of `inner` at most
  while that call is between its two stores (`MarkInv`).  One lemma per action;
  `SameCallInv` says once that the other calls keep their invariant while
  digests are published and time goes by.
* **AnswerProofs** (`RangesAreDays`, `FewerConditions`, `FirstRows`,
  `OpensWhatItSealed`, `WordsAreWhole`, `FindsObject`, `RepliesAreWhole`,
  `AnswerTypeCorrect`).  The first two are
  facts about `Matches` on any row, filter and day.  `MeetOnADay` is their heart:
  two intervals meet iff one has a day of the other; `WeekAround` is what they
  need of the calendar.  `FirstRows` is about a loop over a digest of any
  length.  Its induction is made of first-order facts: proper inclusion of
  finite sets is well-founded, so a set of numbers has a least element
  (`LeastOf`), so a set that has 0 and the successors has them all (`UpTo`), so
  the function that a recursive definition describes exists (`StepByStep`) and
  the definition can be unrolled (`QueryLoop`).  `OpensWhatItSealed` is about
  messages, AppIDs and blocks of any length: there is one way to fill a block
  (`OneFilling`), and two texts of one layout are equal (`SameLayout`).
  `WordsAreWhole` is about any text and dictionary, on the assumption that no
  character is both an ASCII letter and beyond ASCII.  `FindsObject` unrolls the
  loop of `extract_json()` in the same way (`ScanLoop`), splits it where a text
  has two parts (`ScanOn`), and follows it through the grammar: a character, an
  element of a string, a string, the members of an object, an object
  (`CharLeads` to `ObjectLeads`).  `Leads` says that a text of n characters takes
  the loop from one state to another, so that the lemmas compose by `Onward`
  alone.  `NestedAreObjects` is an induction over the levels: what is an object
  inside is one more member outside (`ObjectPasses`).  It holds for strings,
  members and levels of any number, where the run has two, two and two, and for
  text in any alphabet.
  `RepliesAreWhole` follows `escape_cdata()` and the reader together, one
  character of the original text at a time.  `Follows` is the invariant: the
  sections that the reader has closed, and what it has of the open one, are the
  text so far (`Split`), and a section was closed only where the text has a
  mark.  A character that ends no mark of the text cannot close the open
  section, because that holds an end of the text so far (`SplitCloses`); one that
  does finds its own closing and opening mark written before it (`FollowsNext`).
  Then the closing mark of the element ends the last section, and the pieces are
  the text (`SectionsOf`, `WholeOf`).  It holds for texts of any length in any
  alphabet, with the opening mark or the ellipsis in it, and for every limit up
  to one more than the bound on texts, which is any number.

Every invariant and every action property of the passing runs is a theorem.
Only model-checked: the liveness properties (`NoStarvation`,
`QuietEntriesEvicted`, `DeadChildFailsFast`, `CheckoutReturns`,
`EveryPostAnswered`, `EntriesExpire`, `DrainEnds`), because TLAPS does not reach
fairness and ENABLED.

## 5. Not modelled

* AES, base64, SHA-1 and the comparison of signatures: their outcomes are inputs
  of `Webhook`, and `Envelope` has the layout that they protect.
* TOML and JSON syntax (serde), nested elements and entities in inbound XML.
* Templates, labels, titles and the wording of replies (`router.rs:131-543`),
  except for the limit on their length and for `]]>` in them.
* GET verification (`verify_url`), status codes, logging: no state.
* `init-config`, the path of the configuration, keys that no decision reads.
* The stderr ring of a bridge: diagnostic text only.
* Restart of the plugin: it keeps nothing on disk; every `Init` is a start.
* `error.rs` and `util.rs`: an enumeration and two clock readers.

## 6. Plan

Done: ConvSerializer and its abstraction, Bridge, BridgePool, TextPath on top of
them, DigestCache, EventAnswer, Webhook; Config, Startup and Deadline with their
composition Service; Envelope and Phrases; proofs about all of them in eight
modules.

Left: entities and nested elements of inbound XML, which `Envelope` has no
characters for, and the wording of the router's replies.
