# A specification of the C++ order book

TLA+ modules, TLC configurations and TLAPS proofs for the low-latency limit
order book in `src/include/lob/` and the pipelines in `src/bench/` that put it
to use. The source is the reference; file and line numbers below are those of
the commit this directory sits beside.

## The system

| component | source | state | operations | how it meets the others |
|---|---|---|---|---|
| matching engine | `order_book.hpp`, `order.hpp` | level array, two bitmaps, two cached best indices, arena, generation counters | `new_order`, `new_order_post_only`, `new_iceberg_order`, `cancel`, `reduce`, `apply` | owned by one thread; called by the gateways and the quote desk, read by the publishers |
| order arena | `memory_pool.hpp` | free list threaded through dead slots | `acquire`, `release`, `index_of`, `at` | inside the engine |
| level bitmap | `level_bitmap.hpp` | three levels of 64-bit words | `set`, `reset`, `test`, `next_set`, `prev_set`, `clear` | inside the engine, one per side |
| SPSC ring | `spsc_ring.hpp` | two indices, two cached copies, slots | `try_push`, `try_pop` | every queue between two threads |
| arena ring | `arena_ring.hpp` | the same, with private shadows of the indices | `try_acquire`, `publish`, `try_front`, `release` | feed thread to engine thread, payload read in place |
| flat hash map | `flat_hash.hpp` | slots of key and value, a count | `insert`, `find`, `erase` | exchange reference to engine id |
| BBO publisher | `bbo.hpp` | last snapshot, sequence number | `on_message_applied` | reads the engine, pushes to an SPSC ring |
| signal publisher | `signals.hpp` | last snapshot, running order flow imbalance | `on_message_applied` | as the BBO publisher |
| risk gateway | `risk.hpp` | open lots per side, position, accept times | `check`, `on_cancel`, `on_fill` | strategy thread, in front of the order ring |
| journal, replay | `journal.hpp` | mapped file, offset, commit watermark | `append`, `flush`; open and read back | feed thread writes, a recovering process reads |
| ITCH parser | `itch.hpp` | a cursor | `next` | engine thread, replay |
| feed generator, gateways | `pipeline_common.hpp`, `bench_flat_hash.cpp` | the generator's open orders and statistics; a reference table, fill counters | `generate_feed`, the sinks, `apply` | generator writes the feed, engine thread applies it |
| pipeline sessions | `bench_itch_pipeline.cpp`, `bench_zero_copy.cpp`, `bench_flat_hash.cpp`, `bench_signals.cpp`, `bench_journal.cpp` | two or three threads, a ring or an arena, the time stamps | producer, engine and drain loops; two sessions per program | compose parser, gateways, rings, publishers, journal |
| trading loop | `bench_trading_loop.cpp` | three threads and main, three rings, quote desk, stop flag | the threads' loops | composes engine, publisher, risk gateway |

What is hard in it: two threads on one ring with cached, stale indices; a sweep
that walks a list while refilled orders are spliced behind it; caches of the
best price that no call recomputes; ids that must die with their order although
slots and generations are reused; a full queue that drops, retries or blocks; a
shutdown in which three threads wait for each other; a file that is read back
after its writer stopped in the middle; a time stamp that is matched with its
message by counting.

What makes each part correct:

* engine: price-time priority, never crossed, caches and aggregates exact,
  slots and ids accounted for, every call returns;
* its storage: links, free list and bitmap words are queues, a stack and a set;
* rings: no race on a slot, FIFO without loss, everything delivered;
* hash map: what a map promises, up to its load cap;
* publishers: a subscriber that drains its ring ends with the current top, and
  the imbalance it reads accounts for updates it never saw;
* risk gateway: exposure and rate never beyond their limits;
* journal: what is replayed is what the engine applied, up to where it stopped;
* sessions: generator and engine agree, samples are of their own message, both
  sessions end;
* trading loop: quotes never trade, one per side rests, the newest wins, the
  run ends.

## Modules

| module | what it is |
|---|---|
| `PriceTimeBook` | what a price-time book promises: two ladders of FIFO queues and nothing else |
| `OrderBook` | the engine as it is written, and its properties |
| `Ladder` | what the engine asks of its storage: a queue per level, a set of levels, a stack of slots |
| `OrderBookRefinement` | `OrderBook` implements `PriceTimeBook`, and uses its storage as a `Ladder` |
| `OrderBookProofs` | theorems about `OrderBook` |
| `LadderStorage` | the intrusive lists, the free list in the dead slots, the bitmap's words; it implements `Ladder` |
| `LadderProofs` | theorems about `LadderStorage` |
| `BoundedQueue` | what a ring promises: a FIFO channel of bounded capacity |
| `SpscRing` | the SPSC ring, split at its shared accesses, and its properties |
| `SpscRingProofs` | theorems about `SpscRing` |
| `ArenaRing` | the zero-copy ring with its fences, and its properties |
| `ArenaRingProofs` | theorems about `ArenaRing` |
| `KeyValueMap` | what the hash map promises: a map of bounded size |
| `FlatHash` | the open-addressing table, and its properties |
| `FlatHashProofs` | theorems about `FlatHash` |
| `RiskGateway` | the gateway and the venue its orders go to, and its properties |
| `BboFeed` | publisher, ring and subscriber, and their properties |
| `SignalFeed` | `BboFeed` with the imbalance and the micro-price |
| `Journal` | feed thread, journal, engine, a stop, and the replay, and their properties |
| `JournalProofs` | theorems about `Journal` |
| `FeedEngine` | the generator of the feed, the sinks, the dense and the hashed gateway |
| `FeedSession` | the ten sessions of five programs over `FeedEngine` |
| `SessionProofs` | theorems about `FeedSession` |
| `TradingLoop` | the closed loop over `BboFeed` |
| `TradingLoopProofs` | theorems about `BboFeed`, `SignalFeed`, `RiskGateway` and `TradingLoop` |
| `MC*` | the instances TLC checks |

### The engine

`levels`, `totalQty`, `bids`, `asks`, `bestBid`, `bestAsk`, `gens`, `free` and
`order` are the members of `OrderBook` and of its arena. Prices are ladder
indices: the code subtracts `base_` once and compares the unsigned result with
`NumTicks`, so one value above the ladder stands for every price off it. A
level's list is the sequence of its slots. `pc`, `taker`, `sweep` and `reload`
are the locals of a running call.

`new_order` and `new_iceberg_order` are split at every iteration of their loops
(`NewOrder`/`NewIceberg`, `EnterSweep`, `FillPart`/`FillReload`/`FillRelease`,
`LeaveSweep`, `Rest`/`RestExhausted`/`TakerFilled`), although one thread runs
them, because what makes the loops right has to be stated between two
iterations. `cancel` and `reduce` are one step each. `apply` only dispatches.

### The engine's storage

Two abstractions of `OrderBook` are discharged rather than assumed. `Ladder` is
the interface: a queue of slots per level, the occupied levels, a stack of free
slots, and a sweep that takes makers or keeps them for the back. `UsesLadder`
says that every step of `OrderBook` is one of its operations;
`ImplementsLadder` that the code's lists, free list and bits do them.
`LadderStorage` has the links as the code writes them: `node[s].word` is the
first eight bytes of a slot, which hold a live order's quantity or a dead slot's
link; the rest of a dead slot is `Garbage`, so a use after release shows. A word
of the bitmap is the set of its one bits; shifts are the sets `Above` and
`Below`, which are empty when nothing is left of the mask. Quantities are left
out: when a sweep stops and what it does with a maker is any choice. One side
is modelled, the two sides having a bitmap each and sharing the level array.

### The ring

Each action of `SpscRing` is one access to memory the other thread uses, with
the private work before it. A load of the peer's index may return any value
stored since the one loaded last; an acquire load also makes visible what
preceded that store, which `knownHead` and `knownTail` record. A read of a slot
whose write is not visible yields `Torn`.

`ArenaRing` is the same protocol with the access to the slot outside the ring's
own code: the caller writes the frame between `try_acquire` and `publish`, and
reads it between `try_front` and `release`, a word per step. The head index is
relaxed on both sides, so a store carries only the slot writes before the last
release fence (`carried`) and they become visible at the acquire fence
(`FrontFence`), not at the load. It implements the channel of whole frames.

### The hash map

A probe is one step (`ProbeStops`): the table has one writer and no reader
beside it. `erase` is split at every turn of its shift loop, with the hole `i`
and the cursor `j` as locals, so that the loop's end is a liveness property:
`ImplementsMap` includes that every `erase` of the map returns. The hash is a
function from keys to home slots, one of `Homes`, chosen in the initial state.
`older` remembers in which order the stored keys were inserted, to say what the
source claims of deletion: as if the key had never been there.

### The risk gateway

`open`, `net_pos`, `n_sent` and `stamps` are the members. Around them stands the
venue, which the repository leaves to its callers: an accepted order rests,
fills or is cancelled lot by lot, and `on_fill` and `on_cancel` run later, in any
order. `clock` has counted one window before the start: the stamps begin at 0
and the code is handed a timestamp counter, which is far from 0.

### The publishers and their subscriber

`on_message_applied` is `Unchanged`, `Publish` or `Drop`. The ring is a sequence
that refuses a push when full, as `SpscRing` implements; `Receive` is the head of
the strategy's loop. In `BboFeed` a top of book is a value that is compared and
copied whole. `SignalFeed` looks inside (`BookTops` are the tops a book can
report): each change adds the four indicator
terms to `ofi`, before the push is tried, and computes the micro-price.
`history` records the changes, so that the flow between two reads can be
computed from the tops alone (`BidFlow`, `AskFlow`) and compared with the
difference of the running sums.

### The journal

The feed thread lands a frame in an arena slot, appends it cell by cell
(`Copy`, in any order), stores the watermark (`Commit`) and publishes the slot.
`Crash` stops the process anywhere; the file, being mapped pages, stays. The
reader may open the file at any moment (`ReplayOpen`) and parses what the
watermark it saw covers. The length of a frame is in its first cell.

### The sessions

`FeedEngine` has the generator, one action per bucket of its dice, with its open
orders (`live`) and its statistics (`st`), and the two gateways as functions from
a gateway and a message to a gateway. Of the book a gateway holds what the
messages ask of it: the lots each engine id has open, an id that is dead or was
never given having none, as `StaleIdRejected` says of the engine. The feed's
bids lie below its asks, so no add trades.

`FeedSession` runs any feed the generator can emit through one of five programs.
Each has two sessions, one after the other (`NewSession`, `SecondSession`), with
threads, gateway and samples of their own over the same ring or arena. What the
producers and the engines share is written once; what tells the programs apart
(stamp or none, pop or read in place, journal, publisher) is in the action named
for the program's thread. `t0` holds which stamps are this session's.
`ReplayFrame` is the replay of the journal into a fresh gateway.

### The trading loop

`TradingLoop` extends `BboFeed`: the engine's step after a frame is
`on_message_applied` with the top of a book that is here a book, lots of the feed
and of the firm per level. `DeskApply` is the quote desk: it cancels the firm's
resting quote on that side and enters the new one. The strategy's loop is split
where it meets the others: the pop, the look at `stop`, one step per side, the
push that spins while the order ring is full. `my_px` and `open` are what the
strategy and its gateway believe; `desk` and `own` are what the engine has.
`quoted` says that a quote changed the book since the last frame. `RiskGateway`
is represented by what the loop depends on: it refuses prices off the collar,
may refuse any quote for the rate, and counts the lots. `on_fill` is never
called by this program, which is right as long as `NothingCrosses` holds.

## Runs

| run | instance | states | what it shows |
|---|---|---|---|
| `book_levels` | 3 ticks, 3 slots, quantities to 2 | 2.8 M | caches, bitmaps, levels, aggregates and arena agree at every point of every call; never crossed |
| `book_implements` | 2 ticks, 2 slots, quantities to 3 | 267 k | `PriceTimeBook` is implemented, call by call; `Ladder` is all the engine asks of its storage; refusals and ids as promised; every call returns |
| `book_iceberg_reduce` | 1 slot | | violated: `reduce` reports less than it removed |
| `storage` | 27 ticks in words of 3 bits, 3 slots | 241 k | `Ladder` is implemented; both bitmap searches exact from every level |
| `spsc` | 2 slots, 5 pushes | 3.4 k | no race; `BoundedQueue` is implemented, delivery included |
| `arena` | 2 slots of 2 words, 5 frames | 9.5 k | the same, for whole frames |
| `hash` | 4 slots, load cap 3, 4 keys, 2 values | 554 k | `KeyValueMap` is implemented, an erased key leaves no trace, an empty slot is left, every `erase` ends |
| `risk` | limit 3 lots, 2 messages per 2 ticks, 4 accepts | 689 k | the true exposure and the rate stay within their limits; refusals for the rate are exact |
| `signals` | ring of 2, 6 changes among 6 tops | 833 k | gaps exact, a drained subscriber is current, imbalance and micro-price are what they mean, drops and empty sides included |
| `journal_replay` | 5 cells, 4 frames of 1 to 3 | 12 k | nothing torn, nothing the engine applied is missing, every hole is counted |
| `gateway` | 4 messages, rings of 2, hashed gateway of 2 references, 10 sessions | 472 k | generator and engine agree, samples are paired, signals drained, replay equals the live state, orphans only at the load cap, both sessions end |
| `trading_loop` | 4 frames, 3 feed levels, arena of 1, BBO ring of 1, order ring of 3 | 245 k | nothing crosses, newest quote wins, exposure counted, top current, the loop ends when the order ring has room |

Bounds. `MaxGen` bounds how often slots are reused: orders are accepted while
every slot stays below it, three generations being a rest, a removal and a rest
of the same slot. `MaxQty` bounds the quantity of a call: two separates partial
from full fills, three gives an iceberg a clip that is refilled in full and one
that is refilled in part. Three ticks let a level lie between two others, so a
hop passes over one. Two of a kind are enough for the queue of a level to have
an order, three for one to be overtaken. `GenMod` is the code's 2^32; in every
run no generation reaches it, so what follows a wrap (2^31 rests and removals of
one slot, after which an old id matches a new order) is not checked.

`storage`: three bits are the shortest word with a bit in the middle, and 27
levels fill one summary word on top of three on top of nine, so a search climbs
both levels and comes down in a word at either end. Three slots put an order
between two others and leave one untouched behind two that are refilled.

`MaxSeq` is two and a half laps of the ring in `spsc` and `arena`; in `arena`,
two words are what a tear needs. In the hash table four keys on four slots try
the load cap (the table holds three) with chains of every shape, most of which
wrap. Keys differ by their homes alone, so `SortedHomes` takes one of the
assignments that are permutations of each other. In `risk` two orders of one
side exceed the limit and a position on the other side makes room; the clock
passes two windows after its first, and quantities and prices include some that
are refused. In `signals` the tops are empty, one-sided either way, two of the
same prices and different sizes, and one that moved on both sides; six changes
through a ring of two drop runs of several updates between deliveries. In the
journal the file holds two frames of most sizes and drops a long one while a
short one still fits.

`gateway`: four messages are an add, a partial cancel, a fill in full and a
delete or an add behind it, and three adds exceed the hashed gateway's two
references. The channel of two fills up, and so does the ring of signals of one.
`trading_loop`: one level of distance on the bid side, so the firm's quote can
be at the touch, behind it, or alone; the market moves at each of four frames
while a quote waits in every place it can wait; each ring fills up. Every
message, frame and change has a number below its bound (`NMsgs`, `MaxSeq`).

Fairness. `WF(Engine)` in `OrderBook`: the thread that made a call runs on until
it returns; no call waits for anything. `SpscRing!Fairness`: every consumer loop
of the repository polls, a `try_push` that began goes on, and a store becomes
visible to a thread that keeps loading; producers need not push.
`ArenaRing!Fairness` is the same, with the frame written once its slot is
claimed. `FlatHash`: `WF(Shift \/ EraseEnd)`, a thread runs on in its loop.
`FeedSession` and `TradingLoop`: weak fairness of each thread, all of which spin
and none of which ever sleeps or takes a lock. The other modules state safety
alone. Deadlock is checked in every run.

### Where the code and its words part

`book_iceberg_reduce` is a run: `order_book.hpp:228` says `reduce` returns the
quantity actually removed; for an iceberg whose clip it consumes it removes the
reserve too and returns the clip.

The others were met while modelling and show in how a property is worded:

* `bbo.hpp:13-14` says the top is compared with the last published state; the
  snapshot is overwritten (`bbo.hpp:87`) before the push is tried, so it is
  compared with the last state, dropped or not, and a subscriber may keep an old
  top although the ring has room again. Hence `DrainedIsCurrent` exempts a newest
  change that was dropped.
* `journal.hpp:18` calls the journal a byte-identical copy of the stream; after
  a frame that did not fit (`journal.hpp:141`) a shorter one may still be
  appended. Hence `DropsCounted` says that every hole is counted and
  `ReplayCoversEngine` speaks of the frames that were not dropped.
* The header of `bench_trading_loop.cpp` (lines 22-30) says that the market
  maker quotes one tick behind the touch, and why; the code (lines 213-221)
  joins the touch on one side. `NothingCrosses` holds for what the code does.
* `bench_trading_loop.cpp:194`: the strategy spins on a full order ring, which
  nobody drains between the engine's last frame and the strategy's join. With
  room for what the waiting updates cause the loop ends (`LoopEnds`); without,
  it may not: the BBO ring of the program holds 2^15 updates and its order ring
  2^12 quotes.

## Proofs

Every theorem is for every value of the constants, under the assumption its
module's constants carry (`BookAssumption`, `RingAssumption`, `HashAssumption`,
...): sizes are positive, sentinels are not members of the sets they are missing
from, and what the code asserts or computes at compile time. The bounds that
only cap the runs (`MaxQty`, `MaxSeq`, `MaxFrames`, `NMsgs`, ...) may be any
number. Where a theorem needs more, it says so as a hypothesis of its own:
`MaxGen < GenMod` in three of the engine's.

### The engine (`OrderBookProofs`)

* `TypeCorrect`: `TypeOK` is inductive by itself.
* `NeverCrossed`, `BestCachesExact`: the inductive invariant (`BestInv`) is that
  the caches are the extreme bits, that the book is not crossed, and that a
  running sweep is at the best level (`SweepAtBest`). Without the last, leaving a
  sweep could clear a bit above the best price and hop past it. `PrevSetGreatest`
  and `NextSetLeast` say what the bitmap searches return.
* `LevelsKept`, `TotalsKept`, `SlotsAccounted`, `NeverUnlinksFree`,
  `TradedCanRest`: `BookInv` says that a slot is in one place, the free list or
  the queue of its order's level; that a bit stands exactly over a queue of
  that side's orders (or over the level a sweep has just emptied); that the
  order of a held slot is what its queue, its bit and its level's total
  say; and that an odd generation is a held slot. One lemma for each thing the
  code does to the book (take a slot and append, unlink and release, fill, drop
  the front, reload at the back, leave a level) shows that it keeps this.
* `StaleIdsMiss`: no generation passes `MaxGen` by more than the release of a
  last order (`GensBounded`), so with `MaxGen < GenMod` the ids handed out are
  distinct modulo `GenMod`. Without the hypothesis the theorem is false: a
  generation that has wrapped matches an old id.
* `LadderUsed`: the engine asks of its levels and arena only what `Ladder` allows.
* `PromisesKept`, `EngineKeepsPromise`: every step maps to a step of
  `PriceTimeBook` or a stutter. A sweep's fills are the trades of the abstract
  book, its moves between levels are not seen; an append, a reload or an unlink
  is the same on the abstract queues (`FillReloadTrades`, `RestIsRest`,
  `UnlinkTakesOut` and their neighbours). The abstract queues are the engine's, one side or the other by
  the bitmap's bit rather than by filtering each queue for a side: `BookInv`
  makes the two the same, and the prover knows nothing of `SelectSeq`.
  `PriceTimeBook!Spec` is safety alone; `FairSpec` adds that a call returns,
  which `ImplementsPriceTimeBook` has and TLC checks.

### The engine's storage (`LadderProofs`)

* `SearchesCorrect`: a bit is set on each of the two upper levels exactly when
  the word below it has one (`BitsExact`, kept by `SetExact` and `ResetExact`).
  Splitting a tick in its two or three digits keeps the order (`Digits`,
  `Lexicographic`), so what the climb finds and the descent completes is the
  nearest occupied tick (`NextFinds`, `PrevFinds`).
* `StorageCorrect`: `Layout` says that three kinds of sequences of slots can be
  read off the links (`Path`): the free list along the words of dead slots, a
  queue per level along `next`, and the makers the running sweep keeps. The
  back links agree with them except at the first maker the sweep has not come to,
  whose `prev` still names one it has; heads and tails are the ends; a slot
  with a live word is in exactly one of the last two, every other on the free
  list. The links alone are not inductive:
  that an unlinked neighbour is not a slot of another list, or that a released
  slot is not still somebody's `next`, needs the whole sequences. One lemma for
  each thing the code does: `RestStep`, `UnlinkStep`, `EnterStep`,
  `ReleaseStep`, `ReloadStep`, `LeaveStep`.
* `StorageImplements`: the sequences of `Layout` are the ones `Chain` computes
  (`ChainIs`), so every step is the step of `Ladder` its lemma names. Together
  with `LadderUsed` this carries the theorems on `OrderBook`'s sequences and sets
  down to links and words.

A live slot's word is its quantity, which is left out; the assumption that `Lots`
is no link only keeps the model's two uses of that word apart, and the code never
reads one as the other.

### The rings (`SpscRingProofs`, `ArenaRingProofs`)

* `RingTypes`, `RaceFree`, `ThreadsApart`, `StrictFifo`: the invariant `RingInv`
  orders the six indices (`tailCache <= tail <= headCache <= head`, at most a
  lap apart), ties what a thread may touch to what its last acquire made
  visible, and says what the occupied slots hold. `SlotInjective` is the fact
  that numbers less than a lap apart have different slots.
* `ImplementsChannel`: publishing is the channel's `Push`, releasing its `Pop`,
  every other step stutters.
* `ArenaTypes`, `FencesSuffice`, `InPlaceReadsSafe`, `ArenaImplementsChannel`:
  the same for the arena, whose indices are relaxed. `ArenaInv` adds what a
  relaxed store carries (`Fences`: all that was written before the last release
  fence, which is everything below the new index), that the consumer knows of
  what it has seen unless it stands before its own fence, and what every word of
  a half written and a half read slot is.

### The hash map (`FlatHashProofs`)

* `TableTypes`, `NeverFull`: `size` counts the occupied slots while the hole of a
  running shift counts as occupied (`TableInv`), and the load cap is below the
  capacity (`LoadCapBelow`).
* `OlderKept`: in `ProbeInv` every slot on the way of an entry is taken by an
  older one, except for the hole of a running erase, and that only for entries
  the scan has still to come to. A turn that moves an entry uncovers a slot that
  is at most on the ways of entries further on (`ProbeMove`); when the scan
  meets an empty slot no such entry is left, because its way would have held
  that slot (`ProbeEnd`). `DistSplit` and `DistPassing` are the arithmetic of
  distances that wrap.
* `TableIsMap`: the refinement. While an erase runs, the hole holds the erased
  key's entry or a stale copy of the one that moved last (`HoleStale`), so a
  scan finds at most one value a key (`ScanReads`); the key is forgotten at the
  first move, or at the end.

### The journal, the gateway, the feed, the loop (`JournalProofs`, `TradingLoopProofs`)

* `ExposureBounded`: open lots are the lots resting plus those whose report is
  due, and the true position is the booked one plus the fills due (`Conserved`);
  so the worst case the gateway tests (`WorstCase`) bounds every position the
  venue can bring about.
* `RateBounded`, `RateExact`: accepts `RateWindowMsgs` apart are a window apart
  (`Spaced`) and the ring of stamps holds the last ones (`Ring`), or 0 where
  nothing was accepted yet, which is a window old when the clock starts.
* `PrefixWhole`, `CrashLosesNothing`, `NoSilentHole`: `JournalInv` says that the
  frame every cell below the watermark belongs to lies below it whole
  (`AllWhole`), that a reader's watermark and cursor are where frames start
  (`Reading`), that a frame of the journal is the one published under its
  number (`AllSame`), and that the numbers have no hole while nothing was
  dropped (`NoHole`). For the bytes, `Accounted` has a running total of the
  frames published that is off and dropped but for the frame in hand; the
  recursive `Total` of `DropsCounted` is that one, two sums of the same lengths
  being the same (`OneTotal`).
* `FeedTypesKept`, `GapsCounted`, `DrainedSeesLast`: `FeedInv` accounts for every
  number the publisher used: received, queued in order, or lost.
* `WindowsAdd`: `SignalInv` has a running total of the flows of all changes so
  far (`Cumulates`), of which the publisher's imbalance is the last and each
  queued or received one is the one at its number (`Carried`). The flow over a
  window is then a difference of two totals, whatever was dropped in between
  (`WindowIs`). `SignalAssumption`: the empty top has no price and no quantity.
  `Turn` shows that the code's four indicator terms are the flow of the two
  sides for every top a book can report (`BookTops`: a side without a price has
  no quantity).
* `MicroLeans`: the weighted mean of two prices lies between them and on the
  heavier side of their middle, truncation included (`Quotient`, `Leans`).
* `FlowsNeverCross`, `ExposureCoversBook`, `RememberedWins`, `PublishedKept`,
  `LoopKeepsFeed` (from `LoopAssumption`: all of the feed's bids are two levels
  below all its asks, which `gen_feed`'s middle price leaves between them): every
  bid anybody knows of, resting, published, remembered or under way, is at or
  below one the feed has used, and every ask at or above one.

### The sessions (`SessionProofs`)

* `SamplesArePaired`: `ControlInv` numbers the frames on their way: the engine
  has applied the first ones in order, the channel holds the next, and the
  producer stands at the one after with its stamp written or not. It is the same
  for all ten sessions because their threads take the same few steps
  (`ProducerSteps`, `EngineSteps`), and a session starts on an empty channel
  because the one before it had joined both threads (`JoinedIsIdle`). The stamps
  of the session before are never read: a frame is stamped before it is handed
  over.
* `SignalsDrained`: the drain thread sees stop only after the engine is through
  (`DrainInv`), so nothing is published behind its back.
* `EndsAgree`: the generator's ledger after every frame is a history `h`
  (`History`), each entry made from the one before by a frame that was legal
  (`Legal`: an execution takes no more than is open, a cancel leaves a lot). The
  gateway that has applied n frames agrees with `h[n]` (`Agrees`): order for
  order, but for those it holds under no reference, and in its counts as long as
  there are none of those (`ApplyAgrees`, for both gateways). What the remaining
  frames add is an induction along `h` (`LotsStay`, `CountsExecutions`).
* `OrphansForever`: from `Agrees`, orphans are orders that were refused a
  reference, which only an add at the load cap makes; no later frame reaches one.
* `ReplayMatches`: the gateways after 0, 1, 2, ... frames are one sequence
  (`Replays`), the live gateway is at its end and the replayed one at the
  replay's position.

### What stays with TLC

Liveness, which speaks of enabledness: every call and every `erase` returns
(`CallReturns`, part of `ImplementsPriceTimeBook` and `ImplementsMap`),
deliveries (part of `ImplementsBoundedQueue`), ends of sessions and of the loop
(`SessionEnds`, `LoopEnds`). Every safety property of a passing run, and the
safety of every refinement, is a theorem. The library's induction rules cannot
be used, so what would need induction (a total over a queue, the first frame a
reader misses, a ledger after n frames) is proved from a least counterexample:
the order of the naturals is well-founded (`NatLeast`).

## Not modelled

Timing, pacing, cache placement, trade callbacks (they run inside the fill and
may not call the book), the wire layout of ITCH. `size_approx` reads two indices
at different times; nothing uses it to decide. Of the journal `close`, `flush`
and the opening of a file that exists, which concern a crash of the machine or a
second writer, and neither is handled in the repository. Of the programs, the
single-threaded measurements (`bench_rdtsc.cpp`, `bench_advanced_orders.cpp`,
`bench_risk.cpp`, the micro-benchmarks inside the others): loops that call one
component with random input and have no state of their own, and reports.

The wrap of the 32-bit generations is not checked: `StaleIdRejected` holds below
it and not beyond. The strategy of the trading loop may leave an update unread
when it sees `stop` (`bench_trading_loop.cpp:199-200`); the model has that
interleaving, and no property speaks of it, because nothing is promised of it.

## Plan

The models are complete as far as they are planned, and every safety property
the runs check is proved. What remains is upkeep: a property about the update the
strategy may leave unread, should the program ever promise one, and the models
of whatever the programs add.
