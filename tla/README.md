# Verification of market_square

`market_square` is a lock-free, bounded, multi-producer multi-consumer broadcast
"area": writers shout messages into a ring buffer, every reader hears each message
published since it entered, any thread may clean up what nobody will read any more,
and the last handle out frees the area. This directory models its algorithms in TLA+,
checks them with TLC on small instances, and proves the central safety properties with
TLAPS for every number of threads, slots and cells. Line numbers refer to `src/`
(`area.rs` is `src/src/area.rs`).

## 1. Inventory

| Component | State it keeps | Operations |
|---|---|---|
| Counters and ring (`AreaInner`, area.rs:160-440) | `free_gen <= last_valid_gen <= read_gen <= write_gen`, `buffer_capacity` cells | the loads and CASes of the others |
| Writers (`AreaWriter`, `Reservation`, area.rs:318-440, 850-1275) | `write_gen`, `read_gen`, the cells of a reservation | `reserve`, `reserve_best_effort`, `get_mut`, `split_at_mut`, `publish`, `publish_spin`, `disarm`, drop; `get_slot_ptr` and `publish_slots` of a bare range |
| Readers (`AreaReader`, `ReadSlice`, area.rs:442-680, 1300-1430, 1504-1790) | one word per reader in the map: a generation and the suspended bit | `create_reader`, `read`, `read_at_most`, `read_with_check`, dropping a slice (advances), `suspend`, `resume`, `resume_at`, drop |
| Cleanup (`try_cleanup_old_slots`, area.rs:681-829) | `last_valid_gen`, `free_gen`, the words of suspended slots | one call, from any handle, any number at a time |
| Teardown (the `Drop`s, area.rs:1066-1095, 1427-1502) | `writers_count`, `destroy_stages`, two ticket counters | dropping handles, creating them meanwhile |
| Reader map (`SimpleLPHashMap`, map.rs) | an atomic key and a word per slot | claim by probing, remove |
| Generation arithmetic (arithmetics.rs) | none | comparison, addition, distance modulo `2^(bits-1)` |
| Reservation iterator (iter.rs) | `written_count`, a cursor | yielding slots, publishing what was written |
| Construction (`area`, `finish_init`, `AreaInner::init`) | the initial state | runs before anything is shared |
| Exclusive single-writer mode | the same counters | stores in place of CASes |
| Storage (storage.rs) | which parts of an area are boxed | `deallocate` |
| Cache padding, examples | none of their own | - |

How they interact. Everything is shared memory: there is no lock and no message. A
writer takes room between `write_gen` and `free_gen + capacity` by a CAS of `write_gen`,
fills it without synchronisation, and publishes by a CAS of `read_gen` that succeeds
in the order of reservation. A reader reads between its own word and `read_gen`, and its
word is its claim on what follows. A cleanup scans all words while readers come, go,
suspend and resume under it; it *forces forward* the suspended words behind its minimum so
that nobody resumes into messages about to be dropped, claims `[last_valid_gen, min)`
by a CAS, drops those messages, and hands the cells back by a CAS of `free_gen` that
succeeds in the order of the claims. Readers read, load and store their words plainly where
they rely on nobody else touching an active word. The destructors decide, without a count of
readers, who is last.

What is hard: every decision is taken on values loaded some steps before; two cleanups,
or two reservations, overlap and finish in any order; a slot of the map passes from one
handle to the next with whatever word it holds; a reader registers or resumes behind the
scan that would have seen it; three loops wait for other threads; and the destructors
look for other handles while those come and go. Generations wrap, and the ring index with them;
a reservation may be split, iterated, refused by `publish` and dropped in any order; and user
code (`T::drop`) runs, and may panic, in the middle of a cleanup.

What makes each part correct:

- counters and writers: the counters stay ordered and at most the capacity apart; no two
  reservations share a cell; no filled cell is filled again before it is dropped; only
  filled cells are published, and over a range that waits for its publication nothing is; publication
  returns;
- readers: a slice covers published messages only, and they stay there until it is dropped;
  a claim never goes back and nobody else touches it while active; registering finds the slot
  suspended; nobody enters past what is published; entering is retried only for a cleanup that moved the word;
- cleanup: it never passes a claim, drops each message once and where it lies, and returns;
- reservations in parts: at any moment what is reserved and unpublished has one owner each, or
  none, and then it waits for whoever publishes its range;
- reader map: ids are unique and lead to their slot without a search; a slot that is left can be
  had again; a refusal is true;
- teardown: each part freed exactly once, after everybody's last access and after every message
  went to a cleanup; a reader that is told that the writers are gone has heard them out.

`PROJECT.json` lists the hazards, each at its line, with the properties that would notice.

## 2. The modules

**`Broadcast`** is the abstract specification: a counter of published messages, a counter of
dropped ones, and a position per present reader. `Publish`, `Enter`, `Hear`, `Leave`, `Drop`
are its steps. It has no atomics, ring, map or suspended bit. ALG.md's single guarantee
(what a present reader wants is not gone) is `NothingWantedIsGone`: its guards are that
guarantee, and section 4 proves it of the code.

**`Area`** is the lock-free code. One action is one atomic access with the local
computation around it, and the program counters (`wpc`, `rpc`, `cpc`) say which access comes
next, so every interleaving is a behaviour.

| Actions | Code |
|---|---|
| `ReserveLoadFree`, `ReserveExactly`/`ReserveBestEffort`, `Grab` | the load of `free_gen`, the load of `write_gen` with the room computed from both, the CAS of `write_gen` (`try_reserve_slots[_best_effort]`) |
| `Fill`, `Publish` | writing through `get_mut`, the CAS of `read_gen` in `publish_spin` |
| `Register`, `RegisterLoad`, `EnterCas` | claiming a key, then the load/CAS loop of `register_reader` |
| `Resume`, `ResumeLoad`, `EnterCas` | `resume`, `resume_at` and their loop |
| `SuspendLoad`, `SuspendStore` | `suspend`: a load and a plain store |
| `ReadStart`, `ReadEnd`/`ReadEndAtMost`, `DropDisarmed`/`DropArmed`, `SetGenLoad`, `SetGenStore` | `read`, `read_at_most`, the slice's drop (which panics if the word moved), `set_reader_gen` |
| `Unregister`, `UnregisterStore`, `UnregisterRemove` | `unregister_reader` in the reader's drop |
| `CleanupLoadLast`, `CleanupLoadRead`, `ScanSlot`, `ForceForward`, `CleanupTooLate`, `CleanupClaim`, `DropMessage`, `CleanupFree` | `try_cleanup_old_slots`, access by access, drop by drop |

A member of `Writers` is a reservation in flight and one of `Cleaners` a call of cleanup: both
take `&self`, so their number is that of concurrent calls and not of handles. A member of
`Readers` is an `AreaReader`, whose operations take `&mut self`, so each runs one at a time.
`buffer[i]` is the generation of the message in cell `i`, or `Uninit`.

Six modelling decisions matter to a reader of the code:

- memory is sequentially consistent. The orderings in the code are not examined;
- generations are natural numbers. `SpanAssumption` says the run is shorter than half the
  span of the masked generations; then the comparisons of arithmetics.rs are those of
  numbers, which `GenArithProofs` proves. `GenDist` is kept where its argument can be negative
  (`ReadSlice::len`, `read_at_most`). What wraps is in `Reservations`;
- a registration may find any free slot, which covers every seed and every probe order, and a
  handle keeps its slot. One that finds none returns `ReaderCapacityReached` and changes
  nothing. `ReaderMap` is the detail;
- a failed attempt to publish changes nothing, so `Publish` is the attempt that succeeds
  (the doc of `publish`, area.rs:1173, says that it fails only in the `Exclusive` case;
  with `E = ()` it fails whenever an earlier reservation is unpublished, which is what
  `publish_spin` loops over);
- `T` needs drop. The `SPIN_LIMIT` panics (debug builds, `usize::MAX` turns) are left out;
- `E = Exclusive` has no actions of its own. It stores where `E = ()` compares and
  swaps, on the caller's word that no other call of the kind is active, and then no CAS fails.

**`AreaFaults`** is `Area` with calls that fail halfway. `DropPanics`: a message's own
drop panics in a cleanup, which unwinds out of its claimed range; `free_gen` never passes it.
`Abandon`: a reservation is dropped, with a panic or disarmed, unpublished, and its range given up
for good. (A program that publishes the range later, with `publish_slots`, is for this module a
writer that still holds it; `Reservations` has that operation.) Both block the area, which the code documents
(area.rs:1134, 1263); the question is what they do to the *safety* of everybody else: the run
`area_cleaners` is of `FaultSpec`, and so are the theorems of `AreaBufferProofs`, but for `SomebodyIsAlwaysNext`. The liveness
properties are of `FairSpec`, where every reservation is published and every drop returns.

**`GenArith`** has the operators of arithmetics.rs, masked, over a span `Msb`.

**`Reservations`** is what a program does with room once it has it, over generations that do
wrap: one action per method of `Reservation` and `ReservationIter`, `ReservationSlot` and their
drops, for any number of places (`Handles`) that hold a reservation, an iterator or nothing.
A reservation that is gone, disarmed and dropped or unwound by a panic, leaves its generations in
`unheld`: whoever knows them can still fill a cell (`FillUnheld`, by `get_slot_ptr`) and publish a
range of them (`PublishUnheld`, the `publish_slots` of `AreaWriterTrait`), as
`test_reservation_disarm_and_deferred_publish` (area.rs:2526) does. A bare range from
`try_reserve_slots` is the same, without the reservation. Like that of `publish`, the caller of
`publish_slots` vouches that the range is filled; unlike `publish` it is not marked unsafe.
Reserving is one step here, and so is all that lets go of the oldest message (`Release`):
their interleavings are `Area`'s. `publish` fails where it is not its turn and the handle comes
back unchanged. `SlotsBorrow` is whether a slot keeps its iterator from being used:
TRUE is what the comment in `next()` says, FALSE what its signature lets a program do
(finding 5). `Get` and `AsSlices` are the two ways in which a `ReadSlice` gives out its
messages.

**`ReaderMap`** is `SimpleLPHashMap` as an area uses it: one action per access to a key, so
that registrations probe, claim and lose slots around each other and around removals.
`FoldedKey` is the key the map makes up for the slot it is at, `Index` and `RemoveIndex` where
it looks. `churn` is a ghost: did anybody leave during this probe? It separates a true
`ReaderCapacityReached` from one next to a slot that was freed behind the probe. (The doc of
`get_or_insert_concurrent`, map.rs:200, says that the table *is* full then; under removals it
was full slot by slot, at different moments.) **`Registry`** is what the map promises:
each slot is nobody's or one reader's, a reader without a slot may be given any that is free, at
one moment, and keeps it until it gives it up. `ImplementsRegistry` says that `ReaderMap` does
no more than that, which is why `Area` and `Teardown` register a reader in one step.

**`Teardown`** is tournament-style reference counting. It composes with `Area` only through
the map, so it keeps of a handle no more than its life: created, polling, dropping, at which
step of ALG.md's protocol. `has_readers` is one action per key, and creating handles is
possible at any moment. `CreateDuringDrop` says whether `create_reader` may overlap another
reader's drop (see finding 3). The area is freed part by part (`AfterFree` is the order,
`Deallocate` one call of `deallocate`), with any of the `Layouts` of parts in boxed and static
storage; `Uses` is what the next access of each handle goes through. `PollRead`, `PollCount`
and `PollAgain` are `read_with_check`: the read, the look at `writers_count`, the second read.
Of cleanups it keeps how far they took messages (`cleaned`, the code's `last_valid_gen`) and whether
one died of a message that panics (`stuck`: `free_gen` will not get to `last_valid_gen`). `CleanUp` is one on a
live handle; `FinalCleanup` is that of the last handle, which takes what is left, if anything is;
`FinalPanic` is the same with a message that panics or, after an earlier panic, with the failed
assertion on `free_gen` (area.rs:809), where nothing is deallocated. A claimed slot stands for an
active word, so a cleanup takes no more than every registered reader has heard; the words are in
`Area`. A cleanup of a live handle that would spin for ever on a stuck `free_gen` returns here,
which leaves the handle more steps than it has.

The **faults** at the head of the modules (`BlindCas`, `NeverForced`, `NoSecondLook`,
`Unfolded`...) are not used by the specifications. Each stands in for one definition
(a CAS replaced by a store, a check dropped, a wait on the wrong counter, a boundary off by
one), and `PROJECT.json` names, for every property, the fault that makes TLC find it violated:
no property here holds by the shape of the model.

**`AreaMC`** adds the symmetry of reservations and of cleanup calls to `AreaFaults`,
**`ReservationsMC`** that of the places.

The proofs are in modules of their own. **`AreaProofs`** has the types and the counters of
`Area`, **`AreaSafetyProofs`** the claims of its readers, **`AreaBufferProofs`** what the cells
hold, who is next, what the faults leave alone, and the refinement of `Broadcast`. **`TeardownProofs`**,
**`ReservationsProofs`** and **`ReaderMapProofs`** are about these modules;
**`GenArithProofs`** is about the masked operators, from lemmas on remainders in
**`ModularArith`**.

## 3. The runs

| Run | Instance | Distinct states | Shows |
|---|---|---|---|
| `area_cleaners` | 1 writer, 1 reader, 2 cleanups, 2 slots, 2 cells, 3 messages, with faults | 1.33 M | two overlapping cleanups, any of which may die of a drop that panics, run over no claim, drop nothing twice, drop nothing under a slice and hand back no cell before it is empty (`CountersInOrder`, `ClaimsHold`, `DropsItsMessage`, `SliceIsLive`, `ReservedCellsAreEmpty`) |
| `area_writers` | 2 writers, 1 reader, 1 cleanup, 1 slot, 2 cells, 3 messages | 155 k | overlapping reservations: the room computed from stale loads is there (`CountersInOrder`), cells are reused when empty and published when filled (`ReservedCellsAreEmpty`, `PublishedIsFilled`), and `read_gen` always waits for a reservation in flight (`SomebodyIsNext`), so publication returns (`PublishReturns`); entering is retried only for a cleanup that moved the word (`RetriesArePaidFor`), and ends unless publication never does (`EnterReturns`) |
| `area_readers` | 1 writer, 2 readers, 1 cleanup, 2 slots, 2 cells, 2 messages | 789 k | registering, suspending, resuming, reading and leaving against a scan, slots reused by another handle (`SliceIsPublished`, `SliceDropsInPlace`, `RegisterFindsSuspended`, `NobodyAhead`, `ClaimsNeverGoBack`, `ActiveWordIsOwned`); each step is a step of `Broadcast`, or none |
| `area_liveness` | 1 writer, 1 reader, 2 cleanups, 1 slot, 2 cells, 2 messages | 58 k | `free_gen` always waits for a cleanup in flight (`SomebodyIsNext`), and the loop on it ends: `CleanupReturns` |
| `reservations` | 3 places, 3 cells, generations wrapping at 6 | 414 k | reservations split, iterated, published out of turn, dropped: what is published is filled and stays so until released (`PublishedIsFilled`), what is pending has one owner each or none (`PiecesTile`), and then it waits for its own publication (`DeferredWaits`), `as_slices` is `get` (`SlicesAgree`) |
| `reader_map` | 3 readers, 2 slots, keys of 4 bits, 3 seeds | 49 k | ids are unique and find their slot (`UniqueIds`, `LookupFindsOwn`), no slot is lost (`NoSlotLost`), a refusal is true (`RefusedMeansFull`), and the map implements `Registry`'s choice of any free slot (`ImplementsRegistry`) |
| `teardown` | 2 writers, 3 readers, 2 slots, 1 message, which may panic, all boxed or all static | 157 k | each part freed once, by the last, never used after it (`FreedOnceByTheLast`, `UsesOnlyWhatExists`, `FoundNobodyMeansNobody`), after every message went to a cleanup (`NothingLeftBehind`); destructors return, and nothing but a panic keeps the area from being freed (`DropReturns`, `LastOutFrees`); `read_with_check` misses nothing (`ToldHeardAll`) |
| `suspended_read`, `resume_ahead`, `teardown_race`, `wrap_capacity`, `slot_outlives` | the smallest that shows it | - | the five findings below |

**Bounds.** `MaxGen` ends the supply of room (a reservation past it is not begun);
`MaxBatch` bounds what one call asks for; a run has as many concurrent calls as `Writers` and
`Cleaners` have members, and these may be made again and again. The messages exceed the cells
where a property speaks of cells (`area_cleaners`, `area_writers`), so cells are reused and a
late thread meets the next generation in the same cell. `area_readers`, about words and the
counters they are compared with, and `area_liveness`, about two cleanups that wait for each
other, need two messages, which two cleanups can claim one each. Two is enough for every pair of
actors to overlap, and the protocol couples no three of one kind: a lost CAS is lost to one
winner, and the waits follow the order of the counters. Two slots let a scan have a slot behind it
and one ahead, which is where readers slip past it; `area_readers` has as many readers as
slots, so a slot left is claimed by the other. `Reservations` has no bound on the number of
messages: its generations wrap, again and again, and its ring is the largest that the span
allows, half of it, which is where full and empty, and ahead and behind, are closest; three
cells divide the span of six, as powers of two do the real one. Three
places hold both halves of a split and one reservation behind them. `ReaderMap` has more
readers than slots, and seeds that are 0, that have the reserved bit, and whose probe runs
into it. `Teardown` has one message: with a second, the last handle can also find messages left
after an earlier one panicked, and then its assertion fails, which leaves what `FinalPanic`
leaves when its own message panics. (The run with two messages, 667 k states, ends without an error
too.) `area_cleaners` has one reservation at a time, so it is `area_writers` that has `write_gen` moved
between another call's loads and its CAS. What the theorems of section 4 cover does not
depend on these bounds.

`ResumeAhead` is the one constant that restricts the *program*: how far past `read_gen` it
asks `resume_at` to go. The passing runs set it to 0 (it asks for nothing unpublished); with 1
the run `resume_ahead` shows what goes wrong. Section 4 says which theorems need that 0.

**Fairness.** `FairSpec` has weak fairness of the steps of a call that has begun: a
scheduler that runs every thread justifies it. Beginning a call is never fair: a program
may stop calling, never clean up, hold a slice for ever, or never resume. The step from a
reservation to its publication is fair too, since the docs of `Reservation` require that it be
filled and published. Weak fairness is enough: the loop over `read_gen` and that over
`free_gen` stay enabled once their turn has come, and the CAS retries of a reader end because
a word moves only when `min_held_gen` grew. They are lock-free and not wait-free: with publication
going on, a cleanup may force the word between each load and CAS of `register_reader` or of
`resume` (area.rs:489-506, 603-624), for ever. `EnterReturns` therefore says that the loop ends, *or*
`read_gen` grows for ever; with `MaxGen` every behaviour of the run is of the first kind. What does
not depend on `MaxGen` is `RetriesArePaidFor`, proved for any: a retry has been paid for by a cleanup, which
moved the word closer to `read_gen`. The other two loops have no such exception: what they wait for
are finitely many calls, those before theirs in the order of the counters, whatever `MaxGen`.
`Teardown` assumes weak fairness of destructors and polls that have begun. `ReaderMap` and `Reservations` state no liveness: a probe is a loop
of as many turns as there are slots, and the operations of a reservation return at once.

**Deadlock** is checked in all runs but those of `Teardown`: a program can always make another
call (of `Reservations`, a `reserve_best_effort` or the drop of what it got, even where a
range that nobody publishes blocks the ring). `Teardown`
stops when all handles are gone, so its runs do not check it; `LastOutFrees` and
`DropReturns` say instead that destructors do not wait for each other for ever.

### Findings

1. `suspended_read`: `read()` ignores the suspended bit (area.rs:1689). On a
   suspended reader it returns a slice of messages nobody holds; a cleanup drops them under
   the slice, and the slice's drop may panic for a reader nobody advanced. Every slice of a
   reader that is *not* suspended is safe (`SliceIsLive`).
2. `resume_ahead`: `resume_at` checks that the entry is not too old, not that it is published
   (area.rs:631). The next slice starts past its end, and its `len()` is the masked distance,
   nearly the whole span.
3. `teardown_race`: `has_readers` looks at one key after another. `create_reader` on a
   second handle can claim a slot behind the scan while that handle leaves from a slot ahead of
   it; the scan finds nobody although a reader lives, and the area may be freed under it
   (area.rs:832). The run `teardown` shows that the protocol is right when no reader is
   created between another's unregistration and the end of its scan.
4. `wrap_capacity`: the ring index is `generation % buffer_capacity` (area.rs:276) while
   generations wrap at a power of two, and only the reader capacity is asked to be one
   (area.rs:198-203). With a capacity that does not divide the span, the generations around the
   wrap share cells: after 2^31 messages with `small-gen` (2^63 without) a writer overwrites
   unread messages. `PublishedStaysFilled` and `SlicesAlwaysAgree` are the proof that divisibility
   is enough, for every capacity up to half the span.
5. `slot_outlives`: `ReservationSlot`'s reference to `written_count` has the lifetime of the
   area's borrow, not that of `next()`'s (iter.rs:214). A program may keep a slot
   while it advances, publishes or moves its iterator, all in safe code; written late, the slot
   counts for the iterator that is in that place by then, whose `publish`, safe because it
   counted, lets out a cell that nobody wrote. Where slots are dropped before the iterator is
   used again, as in the `for` loops of the docs, publication is safe (`reservations`).

## 4. The proofs

Assumed: the constants' `ASSUME`s. In `Area`, a positive capacity and number of slots,
natural bounds, a generation span more than twice the run, `FirstReader` a reader, `Empty`
not one, `Uninit` not a generation; nothing is assumed of how many threads there are. `ReaderMap`
asks that the number of slots divide the reserved bit, as a power of two does, and be less than
it, and that `EMPTY` is no reader; `GenArith` that the span be even; `Reservations` that the
capacity be at most half of it; `Teardown`, which counts its handles, that they be finitely many
and that a writer be no reader.

Some theorems have one hypothesis more, named in the last column. Each is what a run shows to be
needed, by violating the property without it: `ResumeAhead = 0` (the program never asks
`resume_at` for more than is published, else finding 2), `CreateDuringDrop = FALSE`
(finding 3), `Msb % Capacity = 0` (finding 4), `SlotsBorrow = TRUE` (finding 5). The last is
also a hypothesis of `ReservationsTypeCorrect`, as a slot that outlives its iterator may count
for another one past its length.

| Theorem | Module | States | If |
|---|---|---|---|
| `TypeCorrect` | `AreaProofs` | `Spec => []TypeOK` | |
| `CountersAlwaysInOrder` | `AreaProofs` | `Spec => []CountersInOrder` | |
| `ClaimsAlwaysHold` | `AreaSafetyProofs` | `Spec => []ClaimsHold` | |
| `RegisterAlwaysFindsSuspended` | `AreaSafetyProofs` | `Spec => []RegisterFindsSuspended` | |
| `SliceAlwaysDropsInPlace` | `AreaSafetyProofs` | `Spec => []SliceDropsInPlace` | |
| `ClaimsOnlyAdvance` | `AreaSafetyProofs` | `Spec => ClaimsNeverGoBack` | |
| `ActiveWordsAreOwned` | `AreaSafetyProofs` | `Spec => ActiveWordIsOwned` | |
| `RetriesAlwaysPaidFor` | `AreaBufferProofs` | `FaultSpec => []RetriesArePaidFor` | |
| `FaultsAreSafe` | `AreaBufferProofs` | `FaultSpec => [](CountersInOrder /\ ClaimsHold)` | |
| `FaultsLeaveReadersAlone` | `AreaBufferProofs` | `FaultSpec => [](TypeOK /\ RegisterFindsSuspended /\ SliceDropsInPlace)` | |
| `FaultsMoveNoWord` | `AreaBufferProofs` | `FaultSpec => ClaimsNeverGoBack /\ ActiveWordIsOwned` | |
| `PublishedAlwaysFilled` | `AreaBufferProofs` | `FaultSpec => []PublishedIsFilled` | |
| `DropsAlwaysFindTheirMessage` | `AreaBufferProofs` | `FaultSpec => []DropsItsMessage` | |
| `ReservedCellsAlwaysEmpty` | `AreaBufferProofs` | `FaultSpec => []ReservedCellsAreEmpty` | |
| `SomebodyIsAlwaysNext` | `AreaBufferProofs` | `Spec => []SomebodyIsNext` | |
| `NobodyEverAhead` | `AreaBufferProofs` | `FaultSpec => []NobodyAhead` | `ResumeAhead = 0` |
| `SlicesAlwaysPublished` | `AreaBufferProofs` | `FaultSpec => []SliceIsPublished` | `ResumeAhead = 0` |
| `SlicesAlwaysLive` | `AreaBufferProofs` | `FaultSpec => []SliceIsLive` | `ResumeAhead = 0` |
| `AreaImplementsBroadcast` | `AreaBufferProofs` | `FaultSpec => ImplementsBroadcast` | `ResumeAhead = 0` |
| `NothingWantedIsEverGone` | `AreaBufferProofs` | `FaultSpec => []Abstract!NothingWantedIsGone` | `ResumeAhead = 0` |
| `TeardownTypeCorrect` | `TeardownProofs` | `Spec => []TypeOK` | `CreateDuringDrop = FALSE` |
| `FoundNobodyIsRight` | `TeardownProofs` | `Spec => []FoundNobodyMeansNobody` | `CreateDuringDrop = FALSE` |
| `FreedOnlyOnce` | `TeardownProofs` | `Spec => []FreedOnceByTheLast` | `CreateDuringDrop = FALSE` |
| `UsesAlwaysExist` | `TeardownProofs` | `Spec => []UsesOnlyWhatExists` | `CreateDuringDrop = FALSE` |
| `NothingIsLeftBehind` | `TeardownProofs` | `Spec => []NothingLeftBehind` | `CreateDuringDrop = FALSE` |
| `ToldAlwaysHeardAll` | `TeardownProofs` | `Spec => []ToldHeardAll` | `CreateDuringDrop = FALSE` |
| `PiecesAlwaysTile` | `ReservationsProofs` | `Spec => []PiecesTile` | |
| `DeferredAlwaysWaits` | `ReservationsProofs` | `Spec => []DeferredWaits` | `Msb % Capacity = 0`, `SlotsBorrow = TRUE` |
| `SlicesAlwaysAgree` | `ReservationsProofs` | `Spec => []SlicesAgree` | `Msb % Capacity = 0` |
| `PublishedStaysFilled` | `ReservationsProofs` | `Spec => []PublishedIsFilled` | `Msb % Capacity = 0`, `SlotsBorrow = TRUE` |
| `ReservationsTypeCorrect` | `ReservationsProofs` | `Spec => []TypeOK` | `SlotsBorrow = TRUE` |
| `MapTypeCorrect` | `ReaderMapProofs` | `Spec => []TypeOK` | |
| `IdsAlwaysUnique` | `ReaderMapProofs` | `Spec => []UniqueIds` | |
| `LookupAlwaysFindsOwn` | `ReaderMapProofs` | `Spec => []LookupFindsOwn` | |
| `SlotsNeverLost` | `ReaderMapProofs` | `Spec => []NoSlotLost` | |
| `RefusedAlwaysFull` | `ReaderMapProofs` | `Spec => []RefusedMeansFull` | |
| `MapImplementsRegistry` | `ReaderMapProofs` | `Spec => ImplementsRegistry` | |
| `DistanceIsExact`, `SumIsExact`, `OrderIsExact` | `GenArithProofs` | the masked operators are those of numbers, for numbers that are close | |
| `CellsAreContinuous` | `GenArithProofs` | the ring index is continuous over the wrap | the capacity divides the span |

Every invariant and every action property that a passing run checks is one of these theorems,
and so are the two refinements.

The argument, invariant by invariant:

- **`TypeInv`** = `TypeOK` and that a handle has a slot, a scan is at one, and no reservation
  ends past `MaxGen`. The first two make `slot[...]` defined; the last makes the masked
  distance of `read_at_most` a difference (`GenDistNat`).
- **`CountersInv`** adds what remains true of the old values a thread holds. Counters only
  grow, so a reservation that fits behind the `free_gen` it loaded fits behind the present one
  (`wend <= wfree + BufferCapacity`, `wfree <= free_gen`); the minimum of a scan was
  published when it was loaded and so it still is (`cmin <= read_gen`); a range about to be freed
  was claimed (`clast < cmin <= last_valid_gen`). Each CAS then turns such a fact about old
  values into one about the counters. `CountersInOrder` alone is not inductive, for `Grab` and
  `CleanupClaim` store values loaded earlier.
- **`ClaimsInv`** adds three families of facts. `Owned`: the key of a handle's slot is
  the handle, and a slot nobody owns is suspended; so no two handles share a word, and what a new
  owner finds is suspended. `WordFits(r)`: between its load and its store, a reader's word is
  what it loaded if that was active, and stays suspended if it was suspended; what it will store
  does not lie behind. This is why a plain store is enough in `suspend` and
  `set_reader_gen`. `ScanFits(c)`: the minimum of a scan lies behind every slot it has
  passed. Readers keep that, whatever they do, because no word goes back, and forcing
  a suspended word is what makes it true of those. At the end of a scan it is true of all
  slots, which is `ClaimsHold` at the moment `last_valid_gen` is moved. A reader that enters
  or resumes *behind* a scan needs no further argument: its word was forced forward already.
- **`CellsInv`** adds to `CountersInv` what the cells hold. The ring is the window
  `[free_gen, free_gen + BufferCapacity)` of generations, no two of which share a cell
  (`CellsApart`). From its oldest end: the ranges that cleanups claimed, empty up to where each
  has dropped and filled from there (`CleanerCells`); what is published, filled; the ranges that
  reservations took, filled up to where each has written and empty from there (`WriterCells`);
  what nobody has reserved, empty (`Unreserved`). Ranges of two reservations, or of two
  cleanups, are disjoint (`WritersApart`, `CleanersApart`), so what one writes or drops leaves
  the others' parts alone. A range that was abandoned, or that a panic left half dropped, is
  said nothing of, which is why the faults keep it: nobody's range reaches there again, since
  `read_gen`, or `free_gen`, never passes it. `free_gen` moves over a range that is empty
  throughout, and its cells join the window again as those of the next lap (`CellAgain`).
- **`InFlightInv`** adds to `CellsInv` that the ranges in flight leave nothing out: each
  generation from `read_gen` to `write_gen` is in the range of some reservation, and each from
  `free_gen` to `last_valid_gen` in that of some cleanup. `Grab` and `CleanupClaim` extend what is
  covered by the mover's own range; `Publish` and `CleanupFree` uncover just the range they give
  up. As no range starts before `read_gen`, or `free_gen`, the one that covers it starts there:
  `SomebodyIsNext`. It is the safety half of `PublishReturns` and `CleanupReturns`, proved for any
  number of calls, where the liveness itself is only model-checked. The faults break it, so it is
  a theorem of `Spec` and not of `FaultSpec`.
- **`BehindInv`** adds that every word, and what each reader is about to store, is at most
  `read_gen`. It is what `ResumeAhead = 0` is for. A slice then lies between its reader's word
  and `read_gen`, by `ClaimsHold` at or after `last_valid_gen`, and `PublishedIsFilled` says that
  it is there.
- **`AreaImplementsBroadcast`**. `read_gen` and `last_valid_gen` are the two counters of
  `Broadcast`, and a reader's position is the generation of its word while that is active and
  its own, else it is away (`Wants`). `Publish` is a `Publish`; the winning `EnterCas` an
  `Enter`; the stores of a slice's drop, of `suspend` and of leaving are `Hear` and `Leave`;
  the winning `CleanupClaim` is `Drop`, which `ClaimsInv` lets pass every reader's position.
  All else stutters: what a reader loaded and not yet stored, the forcing of suspended words,
  a claim's drops one by one, and the faults. `NothingWantedIsEverGone` is ALG.md's guarantee
  carried back to the code.
- **`RetriesAlwaysPaidFor`** compares a reader's word with the one it loaded (`PaidFor`). Its
  own steps make them equal or end the loop, no other reader touches the word of its slot, and a
  cleanup that changes it stores the minimum of its scan, which lies ahead of the word it found and
  at most at `read_gen`.
- **`TeardownInv`**. `WriterSide` and `ReaderSide` say what each counter counts (live writers;
  readers between taking a ticket and giving it back; readers that compete for the stage), that
  a reader has its key in the map from creation to unregistration and in one slot, and what a
  scan has seen behind it: empty slots, which stay empty while nobody is created. So a scan
  that finds nobody is right. One that finds somebody leaves somebody: `SomebodyStays`, a reader
  that still has its scan before it, or competes. Whoever is elected is alone on its side
  (`LastReaderAlone`); `Stages` counts the sides that have yet to give up theirs, so only one
  handle ends the area, and `Ends` lists the parts that it has yet to free, for each of its
  steps. As no key is left by then, its cleanup may take all that is published (`FinalTakesAll`), and
  it gets past it only without a panic: `NothingLeftBehind`.
- **`TileInv`** of `Reservations`. What is unread and what is pending are one window, no longer
  than the capacity (`Window`), and a piece that is not empty is one run of the pending part,
  written as an offset from `read_gen` and a length (`Fits`). Then disjointness, order and
  `publish`'s moving of `read_gen` are facts about numbers, and the masked operators enter only
  through `DistSum` (distances add up past the wrap) and `RangeIs`. It needs no hypothesis: a
  slot that outlives its iterator can spoil what is counted and filled, not who owns what.
- **`IterInv`** and **`FilledInv`**, where slots borrow. At most one slot of an iterator is out,
  the last it yielded, and `written`, with that one, is at most what was yielded; if it *is* that
  much, all that was yielded is filled, but for the slot that is out (`IterFilled`). So
  `AllWritten` means filled. That `written` may fall behind for good, when a slot is dropped
  unwritten, is why the invariant is an implication. A write stays in its cell since two
  generations of the window have different cells (`WindowCells`), which is where divisibility
  is used. `CellsInv` of `DeferredAlwaysWaits` adds that a cell of the window holds its own
  generation's message or none.

- **`MapInv`** of `ReaderMap`. What makes ids unique without any coordination is that a folded
  key has the index of its slot in its low bits: `IndexFor(FoldedKey(r)) = Index(r)`, for
  every seed and probe distance, and also when the carry into the reserved bit is lost or the
  key would be 0 and the capacity is added, because the number of slots divides both. So
  readers in different slots have different ids, an id leads back to its slot, and as each key
  is that of one reader (`NoSlotLost`), nobody empties the slot of another. `RefusedMeansFull`
  needs one more family: where nobody left since a probe began, the slots it has passed are
  still taken, and a probe of as many steps as there are slots has passed them all.
- **`MapImplementsRegistry`** rests on `MapInv`. The holder of a slot is the reader whose id is
  its key; ids are unique, so there is one, and an id leads to its slot, so a reader holds no
  other. Only the CAS of `Insert` and that of `Remove` change a holder: the first of a slot
  that was empty, the second of the leaving reader's own. All other steps stutter.

The masked operators are proved from a few facts about `%` and `\div` on multiples of the
span (`ModularArith`: a remainder is unique, and a multiple of the modulus does not change
it). They are why `Area` may count in natural numbers, under `SpanAssumption`.

Each step of `Next` has a proof step of its own; in the modules about `Area`, `QuietStep`,
`StoreStep`, `QuietCleaner`, `WriterAlone` and `CleanerAlone` carry what all quiet steps, and
all steps of one kind of actor, have in common. The inductive invariants `CellsInv`, `TeardownInv`,
`TileInv` and `FilledInv` were invariants of TLC runs before they were proved.

Only model-checked: the liveness properties, `PublishReturns`, `EnterReturns`, `CleanupReturns`,
`DropReturns` and `LastOutFrees`. They need fairness and `ENABLED`, which are
beyond the prover. The five findings are counterexamples, and runs only.

## 5. Not modelled, and the plan

Not modelled:

- **weak memory**. An `Acquire`/`Release` argument is made in ALG.md; nothing here checks it;
- **a call that stalls for a whole span of generations**: a CAS of `write_gen` that succeeds
  because the counter came round again, with room computed from a `free_gen` of long ago;
- **a capacity above half the span**: `Available` and the comparisons assume less, and nothing
  in the code checks it. With 64-bit generations no such ring fits in memory; with `small-gen` it
  needs more than 2^30 cells, which small messages leave possible;
- **casts that truncate**. `n as NumericType` (area.rs:330, 377) keeps the low 32 bits of a larger
  `n` under `small-gen` on a 64-bit target, so such a `reserve(n)` may succeed with fewer cells: the
  models ask for no more than a generation can hold. `generation as usize` (area.rs:276) keeps the low 32
  bits of a 64-bit generation on a 32-bit target, which is a second wrap with the same condition on
  the capacity as finding 4;
- **what is never dropped**. A message that panics leaves those after it in its cleanup's range, and
  `NothingLeftBehind` counts them as taken; if it panics in the last handle's cleanup, or an
  earlier one did and messages are left, the whole area stays allocated (`LastOutFrees` excepts it). A
  message in a range that was filled and never published lies past `read_gen`, and no cleanup
  goes there: it is freed as memory, without its drop;
- **`E = Exclusive` where the caller's promise is broken**: undefined by its contract;
- **the map with `fold = false`** inserting or probing: no code of the crate calls it so;
- **a static `AreaInner` whose map is boxed**: the map is dropped with the box of `AreaInner`
  only, so its slots would leak; `teardown` checks the two layouts that the crate offers;
- the construction macros of lib.rs, cache padding, the examples and benchmarks: no state, or
  none after construction.

Every safety property that a passing run checks is proved. What is left to prove are lemmas on
the way to liveness, whose temporal part stays with TLC:

1. of `Teardown`: that whoever waits in a destructor waits for a handle that has a step
   to take (the safety half of `DropReturns` and `LastOutFrees`);
2. of a cleanup's scan, what `RetriesAlwaysPaidFor` says of `EnterCas`: that its CAS fails only
   where a reader or another cleanup moved the word, which is what bounds the retries of `CleanupReturns`.
