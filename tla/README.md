# Verification of Atmoph Window 2 Remote

TLA+ models of the Home Assistant integration in `src/custom_components/atmoph_window`,
TLC runs that check them on small instances, and TLAPS proofs of the results
that matter most for every instance. `PROJECT.json` lists which definition
models which lines, which run checks which property, and the hazards the
properties are for.

## The system

A window is driven over Bluetooth Low Energy. It accepts one central, rotates its
address every few tens of seconds, and offers a *toggle* for its display, not a
switch. The integration runs on Home Assistant's event loop: coroutines
interleave only where they await, and callbacks of the Bluetooth stack are
handed to the loop with `call_soon_threadsafe`.

| Component | State | Operations | What makes it hard |
|---|---|---|---|
| `AtmophClient.set_power` (`client.py`) | `state.power`, the lock | look, toggle, poll, retry | two calls overlap; the display confirms late, drops toggles, answers garbage; the lock delays the toggle after its look |
| `AtmophCoordinator` (`coordinator.py`) | `_bleak`, `_client`, `last_update_success` | ensure_client, refresh, commands, disconnect, shutdown, the two callbacks | no lock across the awaits; late callbacks; unloading in the middle |
| Identity (`identity.py`, `config_flow.py`, `__init__.py`) | config entry, entity registry, device registry | configure, rename, adopt a UUID, rekey, unload | three stores written at different times; crashes; names shared or changed |
| Client session (`client.py`, `protocol.py`) | `AtmophState`, view-id support | refresh, notifications, copy on reconnect | reads against newer notifications; what a reconnect inherits |
| Quick settings (`protocol.py`, `client.py`, `coordinator.py`, `number.py`, `switch.py`, `media_player.py`) | the settings document | merge, replace, optimistic write, clamp | echo against write against poll; bounds that move; a write carries no type |
| Services (`services.py`) | none | validate, read what is not known, fan out | windows that differ; one of several fails |
| Reassembly (`protocol.py`) | buffers, decoders | feed, reset | splits anywhere, loss, the size limit |
| Write test (`tools/atmoph_diag.py`) | the dump, the watcher | connect, subscribe, read, provoke, write, await the echo, restore | all it learns comes through reassembly; others at the window |
| Scan (`tools/atmoph_diag.py`) | what was heard by address | merge, choose | service and name come in separate packets |
| Buttons, sensors, diagnostics download | none | read the coordinator | none of their own |
| Other tools | files | survey, decode, catalogue | none that steps could get wrong |

Interactions: entities and services call the coordinator; the coordinator owns one
`AtmophClient` over one `BleakClient`, replaced at every reconnect; the client
pushes notified state back through `_handle_state`; the link reports its loss
through `_disconnected`; `async_setup_entry` runs the first refresh and then
identity adoption before entities exist; the config flow rewrites entries that
are loaded. Settings reach the published state by three ways that overtake one
another: notifications, the poll's read, and the value a write records itself. The
write test reuses the integration's `JsonObjectStream`.

## Modules

| Module | Models | Proved in |
|---|---|---|
| `PowerControl` | what "set the display power" promises: the abstract side of `DisplayPower` | |
| `DisplayPower` | `set_power`, `_await_power`, the client's lock, and the display | `DisplayPowerProofs` |
| `Connection` | `_async_ensure_client`, `_async_disconnect`, `_mark_disconnected`, `_publish_pushed_state`, `async_shutdown`, and the tasks that use them | `ConnectionProofs` |
| `Session` | `initialize` and `refresh` read by read, `_notification`, `AtmophState`'s `apply_*` and `copy`, and when the coordinator publishes which state | `SessionProofs` |
| `Identity` | `async_adopt_device_uuid` and what it calls, `async_device_key`, the config flow's effect on entries, setup and unload, the three stores | `IdentityProofs` |
| `QuickSettings` | one setting of several windows: `apply_quick_settings`, `replace_quick_settings`, `apply_setting_write`, the poll's read, entities and the service writing it; `Level`'s arithmetic | `QuickSettingsProofs` |
| `Streams` | `JsonObjectStream` and `TextStream`: the decoder, the loop over `raw_decode`, the limit | `StreamsProofs` |
| `WriteTest` | `atmoph_diag`'s dump of one window with `SettingsWatcher` and `_run_write_test`; composes `Streams` | `WriteTestProofs`, `ResyncProofs` |
| `Scan` | `discover` and `_resolve_targets` as operators | |
| `MCDisplayPower`, `MCConnection`, `MCSession`, `MCIdentity`, `MCQuickSettings`, `MCWriteTest` | symmetry sets and constant values for TLC; the last two also compare pure operators with reference definitions, as an `ASSUME` | |

Operators introduced by a comment that starts "A slip" are deliberate mistakes, used
to confirm that a property would notice the mistake; no specification uses them.

### DisplayPower

One step of a caller is the code between two awaits. `pc[c]` says which await the call
is in: `look` (about to read, `client.py:315`), `send` (deciding done, waiting for
the lock, `:318`), `await` (sleeping between polls, `:329`), `pause` (sleeping
before the retry, `:309`). `Look` is the read with its comparison, `Send` the
locked write, `Poll` one round of `_await_power` with what `set_power` does when
the last one fails, `Resume` the end of the pause. `Break` and `SendUnanswered`
are a read or write that raises and a write whose response is lost. `RefreshStart`
and `RefreshEnd` are `refresh` as far as it holds the lock. The lock is first come, first
served: a refresh does not overtake a toggle that waits, except one that asked before it, while the
write of another call held the lock (`JustSent`). A write itself takes no time of its own: one that
is long under way delays its response, which the polls count from.

Time is counted in ticks of half a second (`_POWER_POLL_INTERVAL`); a sleep may
end late and never early, so `Tick` does not wait for sleepers. `Tick` is barred
only where the code has no suspension point (between the look and an unlocked
send) and where a constant bounds the environment (`ConfirmMax`, `PollHold`).
The display (`panel`, `report`, `since`, `ToggleWindow`, `Report`) is external:
modelled from `docs/PROTOCOL.md`, `tests/window.py` and how `client.py` uses it.

`landed` and `clean` are history variables: toggles of a call that took effect, and
whether it began over a settled display.

`PromiseKept` is the refinement: hide `report`, the timers and the polls, read
`asking` as `pc # "idle"`, and every behaviour of `DisplayPower` is one of
`PowerControl` - a call moves the panel only from the opposite state to what it
asked for, and ends only when the panel is there. `EveryCallEnds` is asked elsewhere, of a display that
confirms after all polls, drops toggles and does not confirm at all, and of requests that fail.

### Connection

`link`s are `BleakClient` objects; `open` is the set of those that are connected, whoever
refers to them. `bleak` and `client` are the coordinator's references. A task has
a phase (`clear`, `dial`, `init`, `use`, and `abandon` and `giveup` for the two
cleanups) and the link it holds in a local variable. `queue` is the loop's queue
of callbacks, first in first out, so a callback can run after the state it
describes is gone.

`Detach` is the synchronous half of `_async_disconnect`, `Close`, `Disconnect` and
`HungUp` the rest, one step per await. A link that is down already is not waited for (`close` and `disconnect` then
do not suspend), so a push of it may still be on the loop. `Raise` is the `except` clause: an update disconnects
before it raises `UpdateFailed`, a call only translates the error. `UseSwallows` is
`_read_view_id`'s bare `except`, at the end of an update's refresh or a call's. `Start` and `Unreachable` are the two ways into
`_async_ensure_client`. `Links` must hold as many objects as are referred to at
once; a link nothing refers to is used again, and `Dialled` takes any, since
which one makes no difference.

`groundless` is a history variable: the entities are available over nothing, and no mark will say so. It becomes TRUE in
the three ways the code has: a call finds the link down before the loss is marked and clears the
references, so that the mark is ignored (`coordinator.py:284-285`); a push that waited on the loop is published after
its link was given up (`:287-291`); a refresh takes the loss of the link for a window without a view id
(`client.py:285-291`). `Grounded` says that there is no fourth - whenever the loop is quiet, entities that are available have an open
link behind them unless `groundless` - and `GroundlessEnds` that the three last only until the next poll.

Taken from Home Assistant (external): updates of one coordinator do not overlap (the
debouncer's lock); unloading runs `async_shutdown`, cancels the refresh an
advertisement started, and neither cancels nor awaits service calls.

### Session

One connection at a time and one task on it (the client's lock keeps reads and writes
apart; fights over the connection are `Connection`'s). `phase` says what the task
awaits: the reads of `initialize` (`init`), its write (`greet`), the reads of a later
refresh, a command's write, and of `set_power` the look, the toggle and the poll (one look and one poll stand for all of
them, since what they bring to the state is the same: `Looked`, `Polled`). A read has three moments: the request (`field`), the
window's answer (`Answer`, which takes the value of that moment) and the resumption of
the coroutine (`Apply`); notifications are handled between any of them, so each may
overtake the other. `state` is the client's `AtmophState`; `data` is the coordinator's,
and `Live` when the two are one object, as they are once something was published over
the connection. A lost link leaves availability as it is: `lost` says that its mark is on the loop
and will count, and `Mark` runs it. `Dial` makes it void, as does a task that gives the connection up
(`HangUp`): then only an update makes the entities unavailable, and a push still on the loop may undo even
that (`DropUpdating`). `Finish` is the end of `refresh` with what follows before the next
await: the identity check of `initialize`, or publication. `Raise` is `refresh` raising:
`initialize` and an update disconnect, a call does not.

A UUID is the window that has it, and texts carry the window they are from, so that
"a stranger's" can be said of a value. `title` stands for the four texts that are
handled alike; their subscriptions fail as a first read does. Optional: the view id's
notifications. Publication of a notification is taken together with its arrival;
`Connection` has the queue between.

### Identity

An entry's key is its UUID if it has one, else its name. `entities` and `devices` are
registry rows; a row that is rekeyed keeps its history, so "history is kept" is
"the row the entity uses is the one there was". `disk` holds what each of the
three stores last wrote; `Crash` goes back to it. `Adopt` is setup up to the
platforms, `Forward` the platforms creating entities and the device: the entry
may be renamed, unloaded or lost between the two. `Reports[e]` is what a first
refresh may find as UUID: a reliable window, none (empty or garbled identity), or
another window that answers to the same name. A refused setup changes nothing
and is no step.

Abstracted: the address (a rename is recognised or it is not), titles, the flow's forms.
Names are kept distinct between entries, as the flow's unique id does; a rename
onto another entry's name is left out. `HastyRenames` FALSE assumes that a window
is renamed only once its adoption is on disk in all three stores; with TRUE `NoStranded`
fails, which is what `hasty_rename` shows: reconciliation knows the new name only (`identity.py:50`), while
`tests/homeassistant/test_config_flow.py:137` says that a rename must not cost a window its history. A lost entry that is configured again is a new entry,
with rows of its own.

### QuickSettings

`shown` is what each window has, `known` what `state.quick_settings` holds for it, which is
published as it is. A setting is a flag or a level; a level carries its bounds, and only
a report tells them: `Bare` is an integer recorded where no report was, and `mixed` a level whose value was overwritten
by a switch's flag. `op` is the client's
lock, with what it is held for: a read has the document of the moment it was answered
(`Read`), and `ReadApplied` is the coroutine going on with it; a write has reached the
window (`Send`) before `Written` records it. Between the two anything may be announced
and handled. `call` is a task's way through a call: `look` (the service about to validate
for the next window, `services.py:94`), `write` (waiting for the lock), `busy` (its request
is under way); `todo` are the windows left. `Number`, `Switch`, `VolumeStep` and `VolumeSet`
are what the entities do before they wait: the target is computed there, so two
presses may compute one target. `Switch` has no guard: the code writes the flag whatever the window reports
(`switch.py:100-110`). In the code a key has a switch or a slider, never both; here any entity may
write the one setting, which is more than can happen. `TypedWrites` is therefore about the service and the sliders, and excepts
windows of which a switch's flag was recorded where nothing had been reported (`guessed`), which the
service takes for a report. `ReadApplied` releases the lock with the read; the code reads the view id
under it first, which changes nothing a setting can see.

`overtaken` is a history variable: a notification was lost, or a response or answer came when the
window had changed again and had announced it already, so that what is known went back behind
it. It ends with the next read. `Touched` are the windows on which everything happens;
the others only take calls, which is what the fan-out needs; they are not polled, and what
they announce is left out.

External: the window clamps a write to its bounds, whichever way round they are, and ignores a write
of a setting it does not report, and one of a type that the setting has not got (`Taken`).

`MCQuickSettings` compares `Rounded`, `AtFraction`, `Fraction` and `Stepped` with what they ought to be, for bounds
and values in -3..3.

### Streams, WriteTest, Scan

A document is a sequence of ten units: braces, keys, one value that stands for all (the function from keys
to values), and one character of two bytes. A cut between the two is a cut inside a
character. `Feed` is `JsonObjectStream.feed`: decode with the pending byte, append, check the limit,
take whole objects off the front. `raw_decode` is `Ends`, by depth of braces and
what JSON lets follow what. A packet that gives no valid UTF-8 is the unit `bad`.

`pc` is what `collect_dump` awaits: `connect`, `start` (subscribing), `gatt` (the reads), `provoke` and `provoked` (the empty
change that makes the window announce), then per setting `write`, `echo`, `restore`,
`confirm`, `next`, and `stop`. `Receive` is the notification callback, `SettingsWatcher.feed`, between any
two of those. `Take` is one document of the queue in `wait_for_key`; `TimesOut` is its
timeout, which runs over all documents passed over. `Found` is what the tool takes
for the old value. A write may reach the window and its response be lost.

History: `missed` counts documents in a row that passed and gave nothing, `lost` that a packet was
lost (and not merely garbled), `outcome` what the window did with the last write, `clean` that at
that write nothing older was on its way and nobody has touched the window since. `excused` marks what the
test cannot make up for: a setting somebody else changed, one whose value it never learnt, a
write that landed though its response was lost, a restoring write that did not arrive, a setting tested
twice with an echo of the first test still to come.

Garbled packets are told apart from lost ones on purpose: the decoder notices the first, and `Resyncs` is
what that is worth. A lost packet is noticed by nothing; `SpoiltBriefly` is what the
limit is worth then. With two losses an object can be put together from two
documents, which nothing in the format would tell; no property excludes it.

`Scan` folds what is heard over `Detected`. A name heard before the service is not kept
(`discover` returns before it stores), which `ScanReference` says in so many words.
`MCWriteTest` checks it for all sequences of up to four advertisements from two addresses, and `TextFeed` for
all cuts of a text in three.

## Runs

| Run | Result | Shows |
|---|---|---|
| `lone_caller` | pass | one call at a time, confirmation up to 5 of 6 polls late, refreshes holding the lock up to 2 ticks: refines `PowerControl` |
| `late_display` | pass | confirmation up to 9 ticks late (after all polls and before the retry's look), failing requests and lost responses: at most one toggle lands, and every call ends, confirmed or not |
| `prompt_display` | pass | 2 callers, faults, lost responses and a user at the panel, display reporting within its drop time: never inverted |
| `two_callers` | violation | the second call looks after the first one's toggle, at a report that does not show it yet, waits for the lock a refresh holds until the display takes toggles again, and turns it back |
| `link_serial` | pass | one task at a time, faults, late callbacks, unload between tasks: no orphan, no second link, no healthy link given up, no entities available without a connection but in the three ways above, reconnection |
| `link_shared` | pass | two tasks, unload at any time, cancellation, failing disconnects: entities available over no connection stay so until the next poll at most |
| `two_dials` | violation | two tasks dial together and one link is orphaned |
| `session` | pass | home window and a stranger of the same name, reads and notifications overtaking each other, lost, garbled, links lost, reloads: nothing written to the stranger or published of it, no power published that the connection was not told itself, and what is published comes to be true |
| `identity` | pass | 2 entries that may be for one window, one reliable, one late, silent or answered for by a foreign window, renames, 2 crashes: no UUID twice, all entities served, nothing left on the name of an entry loaded on its UUID; no row stranded and one device as long as nothing crashed or the window is reliable |
| `hasty_rename` | violation | a window renamed before its UUID is adopted leaves its rows, and their history, under the old name |
| `settings` | pass | a level whose bounds change and turn over and a flag, one caller with the poll, lost notifications, garbled reads, failing requests: published values stay in published bounds, are true once everything has arrived and come to be true; neither the service nor a slider writes a window another's type or a value outside all its bounds |
| `write_test` | pass | two settings tested once, or one twice, over documents cut in two places, one fault, somebody else at the window: documents in order, losses cost what the limit says, verdicts true, settings put back, and the tool ends |

Bounds. *DisplayPower*: the code's own `Attempts` 2, `Polls` 6, `RetryTicks` 4; `DropTicks`
2 is the "roughly a second" of `client.py:303`; `Cap` only has to exceed every
comparison. Two callers suffice for an interleaving: an inversion needs one
toggle behind another's back. The theorems cover every other number.
*Connection*: one task for the serial runs, two for the shared one; two or three faults reach
a failed dial, a failed cleanup and a drop in one behaviour; `QueueMax` bounds
only pushes, never disconnect callbacks. `link_shared` has one fault and no pushes: the
loss of one link, which a call and an update then meet in any order; a late push is `link_serial`'s.
*Session*: two windows; two views, one change of what is shown, so that it may overtake or be
overtaken at every await; two faults, one to lose a notification or garble a read and one
to lose the link and inherit from it, or to reach the stranger and come back; one service call.
*Identity*: two entries, so that one's rows stand in the other's way; two UUIDs, the second
a foreign window; three names, one to rename to; three device ids, since an entry has at most a name-keyed and
a UUID-keyed device in memory or on disk. Two crashes, so that one may strike
while the loss of another is being repaired.

*QuickSettings*: bounds 0..1 and 0..-1 differ in what matters: a value of the one may lie outside the other, in whose
report the bounds are the wrong way round. Two documents in the air are enough for one to be newer than a read and one
older. One caller and the poll are two holders of the lock; a second window, with the
flag, is where a service call's validation of the first could go wrong.
*WriteTest*: the cuts leave one packet boundary inside the object and one inside
the character. `MaxSize` 20 is two decoded documents of nine units and some, so that a spoilt buffer
runs into the limit, and in the middle of a document. One fault keeps the
run short; the theorems cover any number. `missed` is counted up to one more than what `MaxFaults` faults may cost (`MissTop`). `Top` 1 with a write of 2 is a value the window limits.

`CHECK_DEADLOCK FALSE` in the Connection runs (an unloaded entry whose callbacks have run
does nothing more), in `settings` (bounded announcements may fill the air over
requests that wait) and in `write_test` (the tool ends).

Fairness. *DisplayPower*: each call's steps, time, the display's report and the end of a
refresh - the loop runs what is due and a write is answered or raises. Nobody is
obliged to call, touch or fail. *Connection*: each task's steps, the loop's
callbacks, a shutdown once begun, and the poll (`update_interval`), strongly, for tasks come and go in its way - unless
calls that succeed keep coming for ever (`PutsOff`): `async_set_updated_data` (`coordinator.py:263-268`) then starts the interval anew
each time. A call that fails does not reach it and puts nothing off. Dropping,
failing and unloading are never obliged. `MaxFaults` makes faults cease, which is
what `Reconnects` is conditioned on. *Session*: the link answers or is lost, the loop resumes and delivers,
the poll comes, and a reachable window is dialled again. Calls are bounded, since
`async_set_updated_data` puts the poll off and calls without end would do so for ever.

*QuickSettings*: the poll is strongly fair, because the lock is an `asyncio.Lock`, which is passed on in the order
of asking, and the poll asks again and again; requests end and what was announced arrives, weakly.
Nobody is obliged to call. *WriteTest*: the tool's own steps and its timeouts; nothing about
the window, which may stay silent or announce for ever.

## Proofs

Each theorem holds for every value of the constants its module's assumptions allow. What is
listed as an inductive invariant was checked by TLC on the run's instance before it was
proved. An extra hypothesis of a theorem is named with it, with the reason it is needed.

`DisplayPowerProofs` (any callers, any timings satisfying `TimingAssumption`):

- `TypeCorrect`: `Spec => []TypeOK`.
- `PromptNeverInverts`: under `Prompt` (report within the drop time, no lock wait, readable looks),
  `Spec => NeverInverts`. `NeverInverts` speaks of the toggle's step, so it needs
  to be known beforehand that a toggle decided on a wrong look will be dropped:
  `PromptInv` says that whoever is about to send either sees a panel in the
  other state or is within the drop time, and that an unreported change is young.
- `LoneCallerKeepsPromise`: under `Lone` (one caller, confirmation within the polls, the
  retry past the drop time, nothing failing), `Spec => Promise!SafeSpec`. `LoneInv` ties the age
  of the last toggle to the poll count and the timer, so that by the last poll
  everything is reported and by the second attempt nothing is dropped.
- `LateDisplayOneToggle`: under `Late` (confirmation within polls and pause), `Spec => []OneToggleLands`.
- `PromptInvAlways`, `LoneInvAlways`, `LateInvAlways`: the three inductive invariants,
  which the runs check as well, under the same hypotheses.

`ConnectionProofs` (any tasks, links, kinds of task, faults and callbacks):

- `TypeCorrect` (`TypeOK`) and `QueueOrdered`, however tasks overlap: a loss that waits on the loop
  is of a link that is down and stays so, and what that link pushed comes first.
- Under `Serial` - one task, an unload only between two of its runs, disconnects that do what they
  are asked - `OneLinkAlways`, `NoOrphanAlways`, `LossIsNoticedAlways`, `ShutdownReleasesAlways` and
  `HealthyLinkKeptAlways`. The hypothesis is the code's own condition: with two tasks `NoOrphan`
  fails (`two_dials`), and an unload during a dial orphans its link. None of the five is inductive. `Held` is: it says for
  each place of the code which of `hand`, `closing`, `bleak` and the shutdown's copy may refer to the one link that is up,
  that a client is published only over `bleak`, and that the loss of that link is on the loop
  if it is down. It rests on `QueueOrdered`, for a callback that ran for a link
  already replaced would otherwise have to be told from one that means the present link.
- `GroundedAlways`: under `Serial`, `Spec => []Grounded`, whatever callbacks are late. Behind it is `TruthInv`: while the
  entry is loaded and its entities are available on good grounds, there is a published client or an update under way. With
  `Held` its link is up or the mark of its loss is on the loop, and a quiet loop has none.

`SessionProofs` (any windows, views and bounds):

- `TypeCorrect` (`TypeOK`).
- `OnlyOwnWindowAlways` and `OnlyOwnDataAlways`: if every foreign window gives its UUID when asked (`Honest`),
  nothing is written to one and nothing it said is published. Neither is inductive: a
  stranger's values do enter the state of the connection that reached it. `OwnInv` says
  that they stay there - past the first read such a state holds the stranger's UUID, so
  the check will refuse it, and published and inherited states are the entry's own -
  and `LiveInv` that a state is published only after the check.
- `PowerIsHeardAlways` (`PowerIsHeard`), with no hypothesis. It is about what a connection publishes: what an
  earlier one published may stay while the next one proves itself. An inherited power does sit in that one's state until it
  has read its own, so what is inductive, `HeardInv`, speaks of the states past that read; `LiveInv` adds that only those are published.

`IdentityProofs` (any entries, names, UUIDs, suffixes and crashes):

- `TypeCorrect` (`TypeOK`) and `OneOwnerAlways` (`OneOwner`). `OneOwner` speaks of memory and disk together, which
  is what makes it inductive across a crash.
- `ServedAlways`: without hasty renames, `Spec => []Served`. `ServedInv` adds that names and UUIDs are
  distinct in memory and on disk and that a loaded entry still has the key it was
  loaded with, so two loaded entries never share a key and `Forward` takes no row
  a loaded entity uses.
- `RepairedAlways`, `NoStrandedAlways` and `OneDeviceAlways`, without hasty renames (with them `NoStranded` is false, see
  below), and `AllOnUuidAlways`: an entry that is up on its UUID has all its rows there, if its window reports one UUID
  or none, whatever crashed. A crash may bring back any store as it last was, so what is inductive is about memory and
  disk: every row on a name is on its entry's (`NameInv`); what a row on disk was, memory
  has, and no row on the UUID stands in the way of one still on the name (`MoveInv`, which is
  why the repair at setup is never refused); rows are on no UUID but the one the window reports, and
  without a crash on none but the entry's (`UuidInv`); there is one device per key, and a loaded
  entry's entities are on it (`DeviceInv`).

`QuickSettingsProofs` (any windows, bounds, values, callers and service calls):

- `SliderExact`, `SliderNearest`, `StepMoves`: what `Level` promises of its arithmetic, for all integers and bounds either way round.
  The slider's ends are the range's, its shown position is the level's, between them it gives the
  nearest value (`RoundedNearest`: of two, the even), and a step goes the way it was asked.

- `TypeCorrect` (`TypeOK`), `InBoundsAlways` (`InBounds`) and `TypedWritesAlways` (`TypedWrites`). None is inductive
  alone: what is known has to be what the window may have (`Sound`: bounds included, or in the place of a level a bare
  integer or a switch's flag), for an entity computes its target from it; a call about to write has to have a value that its next
  window may be written (`Ready`, `Allowed`: one that fits, a switch's flag, or the service's where a switch's was taken for a report, which
  once so stays so: `Rising`);
  and a caller that holds a lock has to be on its way to that window (`Holding`), for the response is
  recorded there.
- Under them lie `RoundedUp`, `RoundedDown`, `AtFractionBetween`, `SteppedBetween` and `ClampBetween`: wherever the slider is put,
  however far a step goes and whichever way round the bounds are, the result is between them.
- `SettledIsTrueAlways` (`SettledIsTrue`). `SettledInv` adds to it, for windows it speaks of, that the latest document on its
  way is what the window has (`Latest`), and that a window told once more what it took would take the same
  (`Echoed`): the value recorded by a write is then what the echo said, or will say. A switch's flag may stand in the place of a level's
  value (`Agrees`).

`StreamsProofs` (payloads of any length, any content):

- `FeedMade`: what comes out of `feed` or stays in it went into it; what comes out is whole objects, from a brace
  to the one that closes it; what stays is at most a half character and `MaxSize` of text.
- `FeedInOrder`: a document fed in any pieces comes out with its last byte, as it was announced, and nothing
  before; the stream is then as good as new. `MaxSize >= 9` says that the limit has room for one document, as
  the code's 16 KiB (`protocol.py:239`) have.
- `TextCut`, for `TextFeed`: a payload that stops inside a character gives no text, and the next payload does what
  the two in one would have done, malformed or not; any other cut makes two texts of one. `DecodesCut` and `DecodedCut` say it of the decoder.
- Lemmas on what the loop makes of parts of documents, for `ResyncProofs`: of the beginning of one (`StartDrained`), of
  what is left of one whose beginning is lost, of an object without end with a document behind it, of a document that
  was held up. Where the loop stops is found from the set of texts it can go through: its rounds shorten the text, so
  it leaves that set or the loop (`LoopEnds`, `LoopText`).

The recursions of `Decoded` and `Drained` are over positions in one text, and the set of positions at which something
holds is a set of naturals: the smallest one outside it (`Least`, from the library's
`NatLessThanWellFounded` and `WFMin`, which take sets and no operators) is what induction needs.

`WriteTestProofs` (any settings, plans, cuts and bounds, any number of faults):

- `TypeCorrect` (`TypeOK`). That the watcher's settings are ones that were announced
  needs `FeedMade`: `TypeInv` adds that the buffer holds nothing but units of documents.
- `VerdictTrueAlways` (`VerdictTrue`). `EchoInv`: while the echo of a write over a quiet channel is awaited, all that is on
  its way, in the buffer or in the queue is what the window made of that write - or, if it ignored the
  write, nothing. An object put together from pieces of two documents is one, since both are the same.
- `InOrderAlways` (`InOrder`), with `MaxSize >= 9`. `SyncInv`: until the first fault, the buffer is what has been sent of the
  document on its way, as the decoder holds it.
- `PutsBackAlways` (`PutsBack`), with `MaxSize >= 9`. A test restores what it was told, so `UntouchedInv` says that unless `excused`
  everything on its way or remembered tells the truth about every setting not written yet, and the window differs
  from what it was only while a test runs, which then has the old value. A setting tested twice needs `CurrentInv` too:
  until the first fault, the latest the tool was told, or is being told, is what the window is set to.

`ResyncProofs` (any settings, cuts and bounds, any number of faults; `MaxSize >= 18`):

- `ResyncsAlways` (`Resyncs`) and `SpoiltBrieflyAlways` (`SpoiltBriefly`). Both count documents in a row that gave nothing,
  so neither is inductive: what a step adds depends on what the buffer holds. `MissInv` says two things of it.
  First, whatever came, the stream holds one of four kinds of text (`Settled`): nothing, an object that has begun and not ended,
  a whole document held up behind something skipped, or the rest of a document from its inner object on. That is all that
  a packet can leave of them (`SettledDrained`), a packet that is lost or garbled included.
  Second, each costs a number of documents before the stream is in step with the window again: none, one for the rest of a
  document, two for a stream emptied in the middle of one, and for an object that lost its end the documents that fit the limit
  behind it and two more (`Stuck`, `Spare`). `Covers` says that this number and the documents already missed stay within what
  the faults so far account for (`Allowance`); `HeardPaid` that a packet that arrives never costs more than that, `FaultPaid` that a
  fault accounts for what it does. Until a packet is lost there is no object without end, which is why `Resyncs` gets by with two.
- `MaxSize >= 18` is room for two documents, which the code's 16 KiB have. It is needed: with 17, cuts {1, 9} and two faults TLC finds
  both properties violated. A document that was held up and the next one, if that
  comes in one packet, exceed the limit together, and both are lost.
- TLC checked `MissInv` on the run's instance, and with two faults, before it was proved.

Model-checked only:

- Liveness, which is out of the prover's reach: `EveryCallEnds` and the fair part of `PromiseKept`, `GroundlessEnds`, `Reconnects`,
  both `Converges`, `TestEnds`.
- `Scan`: it folds over what was heard, and `MCWriteTest` compares it with what it ought to return for small inputs. A proof would be an induction
  over data, through the library's recursive folds. The same for `TextFeed` of a text in more than two payloads (`TextCut` is one step of it).

## What the violations say

The three violating runs are behaviours the repository's own words exclude; `PROJECT.json`
quotes them. More came up that have no run of their own:

- An unreadable look toggles a display that needed nothing: a power value that cannot be
  read is stored as None, and None is unequal to either state (`client.py:256`, `:316`). `NeverInverts` fails in
  every DisplayPower configuration with `Garbled` TRUE.
- After something broken was skipped, `feed` leaves its loop (`protocol.py:272`), so a whole object behind it is
  returned with the next packet only; hence the 2 in `Resyncs`.
- Bounds the wrong way round: a write recorded after its echo is held to the maximum (`protocol.py:222`), unlike
  `Level.stepped`. `SettledIsTrue` excepts such bounds; `Converges` shows that the next report repairs it.
- The write test's verdict is on the next document that has the key (`atmoph_diag.py:333`), which may
  have been announced before the write. `VerdictTrue` speaks of writes over a quiet channel only.
- A write whose response is lost counts as rejected and is not undone (`atmoph_diag.py:319`); a setting tested twice
  may be restored to the first test's value when the last echo of that is late (`:416`). `PutsBack` excepts both.
- Two presses of volume up before the first write returns move the volume by one (`media_player.py:134`).
- A service call checks once, before it waits, that its entries are loaded (`services.py:142`); one unloaded
  meanwhile is dialled again.
- Two tasks can keep disconnecting each other's fresh link for as long as calls keep
  coming, so `Reconnects` is checked for one task only.
- An unload during a connection attempt leaves the link the attempt makes open
  (`link_serial` unloads between tasks).
- A view-id read swallows the loss of the link, a call that notices a lost link
  before its callback runs makes that callback ignore the loss, and a late push makes entities available again after
  `UpdateFailed`: each way they stay available over no connection. `Grounded` excepts just these, and
  `GroundlessEnds` says how long they last. Meanwhile what the lost connection published stays, its power included:
  `PowerIsHeard` is about the connection that published it.
- A view id that never decodes is not taken for a missing one: it raises out of `refresh` (`client.py:285-291` reads it
  inside the `try`, `:213` decodes it), so every update fails and the entry does not load. `Converges` fails in
  `session` with `ViewIds` {"garbled"}.
- A switch writes its flag whatever type the window reports (`switch.py:100-110`), and puts it in the place of a level's value.
- One failed view-id read stops the reads for every later connection, since
  `view_id_supported` is copied, and the last view id stays published: `Converges`
  leaves the view id out then.
- A foreign window whose identity is garbled passes the check on the UUID the
  connection inherited: the theorems of `SessionProofs` assume `Honest`.
- A crash that keeps the registries' move but loses the entry's, followed by a setup
  that reads no UUID, strands rows for good: `NoStranded` speaks, after a crash, of reliable windows only.

## Not modelled

Bytes, JSON text, logging, translations, the entities' display attributes. Buttons and sensors
are views and single commands; the diagnostics download is a snapshot with redaction. `send_command`
of the services differs from `set_setting` in nothing but having no validation by
window, and resolving targets reads Home Assistant's registries at one moment: neither is an action. Of `atmoph_diag`, the
command line and the report are formatting. `atmoph_netscan` opens sockets
and collects what answers, each probe on its own. `atmoph_dump`, `atmoph_catalog`, `atmoph_wire` and
`generate_brand` turn one file into another. The version migration of `__init__.py` sets one field to None once. Three attempts inside
`establish_connection` are one dial.

## Plan

Every safety property the runs check is proved. What is left is outside what a proof here can reach (above), or outside the model:

1. `view_id_supported` across connections, as a property of `Session` and `Connection` composed, which needs a
   specification of the two together.
2. The entities' own writes (`media_player.py:134`) with several presses under way, as a property of `QuickSettings`.
3. `Scan` as a specification of its own, one step per advertisement, so that what `MCWriteTest` compares for small inputs is an
   invariant and can be proved for all.
