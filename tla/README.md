# A TLA+ verification of the user settings library

This directory holds TLA+ models of `irnas-usersettings-lib`, a library that
keeps an application's settings in RAM, writes them through to the flash of
Zephyr's settings subsystem (NVS), and lets JSON, a shell and a Bluetooth
service read and write them. The modules are translated from `src/library`;
`PROJECT.json` maps each definition to the lines it stands for.

    tlc -config Serial.cfg MCUserSettings       # one of the runs below
    tlapm UserSettings_proofs.tla               # the proofs

## 1. Inventory

### Settings list and heap (`user_settings_list.c`)

* State: a singly linked list of `struct user_setting` in the order of the
  adds, a private heap with three blocks per setting (the struct, the value,
  the default), and one iterator context per loop of a caller.
* Operations: add (assert the id and the key are new, allocate three blocks,
  append), look up by id or key, iterate, free (test teardown).
* Hard: iterators of several threads run while settings are added and while
  flags change; the heap may be full.
* Correct when: an iteration returns each setting that was in the list when it
  started, once, in order; an exhausted iterator stays exhausted; what a reader
  finds in the list is complete.

### User settings core (`user_settings.c`)

* State: the fields `data`, `is_set`, `default_data`, `default_is_set`,
  `has_changed_recently` and the callbacks of every setting; `prv_is_loaded`;
  the global on-change callback; in flash, the subtrees `user_default`, `user`
  and `user_changed`.
* Operations: init and add, load, set, set_default, restore one or all, the
  changed flag (set, clear, clear all), the callback registrations, the getters.
* Interaction: a write first goes to RAM through `settings_runtime_set`, which
  calls the `h_set` handlers registered at init, which run the application's
  callbacks; then to flash through `settings_save_one`. A load calls the same
  handlers for every entry of flash.
* Hard: no lock anywhere; RAM before flash, value before flag, default before
  value at load; saves that fail, power cuts between two saves, payloads of
  zero bytes, errors inside the loops over the list.
* Correct when: a reboot gives back what `get` returned; a call that returns 0
  is stored; a default is written once; only accepted values are written;
  consumers that follow a setting end with its value; no change loses its flag;
  every call ends.

### The front ends

| part | state | operations | hard | correct when |
|---|---|---|---|---|
| JSON (`user_settings_json.c`) | none | import, export all, export changed | runs setting by setting beside other threads; errors of single elements; a full cJSON heap | an import passes over what it may and stops at nothing else; an export misses no changed setting; numbers survive the way out and in |
| Shell (`user_settings_shell.c`) | none | list, list_changed, get, set, set_default, restore, restore_one, clear_changed, clear_changed_one | the same loops; conversion of text | a command that succeeds did what it says |
| Protocol executor | none | decode a command, call the API, encode and write the responses | lists that end half way; link and settings change between responses | a success is complete; an error tells its cause |
| Binary codec | none | decode a command, encode a setting | lengths in one byte; a response buffer that just fits | a client that reads the protocol's README reads the setting |
| Bluetooth service (`bt_uss.c`) | the served connection | enable, disable, write, notify | the link drops during a command, and the disconnected handler runs on another thread | a response is what its client asked for, also at the limits of a byte; a command ends with an answer |
| Validation helpers | none | range and exact-size callbacks | payloads shorter than the type | the range is inclusive at both ends and holds for what `get` returns |
| Zephyr settings/NVS, `k_heap`, cJSON, GATT | external | as the library uses them | | assumptions below |
| Samples, tests, CI | | | | read for intended use; not modelled |

## 2. Plan

| modules | models | state |
|---|---|---|
| `UserSettings`, `UserSettingsInv`, `MCUserSettings` | the core, step by step, with its faults | done |
| `SettingsRegistry`, `SettingsList`, `MCSettingsList` | the list and its heap, refining an abstract registry | done |
| `SettingsStore`, `UserSettingsStore` | the durable store the core implements | done |
| `TypedSetting`, `MCTypedSetting` | the bytes of one setting: types, conversions, validation helpers, `max_size` | done |
| `SettingsApi` | the API as one-step calls, for the front ends | done |
| `BinaryCodec`, `SettingsProtocol`, `MCSettingsProtocol` | codec, executor and Bluetooth service | done |
| `SettingsJson`, `SettingsShell`, `FrontEnds`, `MCFrontEnds` | JSON and shell, and both beside each other | done |
| `UserSettings_proofs`, `CoreProperties_proofs` | type correctness and the safety properties of the core | done |
| `StoreRefinement_proofs` | the core implements the durable store | done |
| `BinaryCodec_proofs` | the encoding can be read back | done |
| `SettingsProtocolInv`, `SettingsProtocol_proofs` | the safety properties of codec, executor and service together | done |
| `FrontEndsInv`, `FrontEnds_proofs` | the safety properties of JSON, shell and the copy | done |
| `SettingsListInv`, `SettingsList_proofs` | the safety properties of the list, and that it implements the registry | done |
| `TypedSettingInv`, `TypedSetting_proofs` | what happens to the bytes of a setting | done |

Every safety property and action property of a passing run is proved; what stays
with TLC is liveness. Sections 3 to 7 say what each property means, section 8
what is proved. The modules declare no RECURSIVE operator, so that all of them
can be proved about.

`UserSettings` uses the list only through "the settings `1..N` in order", which
`SettingsList` justifies. The front ends use the API through `SettingsApi`, whose
calls are one step: what happens inside a call, and between two calls on one
setting, is the business of `UserSettings`.

## 3. `UserSettings`: the core

### State and code

| variable | code |
|---|---|
| `us[s]` | `struct user_setting` of the s-th setting: `data` with `data_len` (one payload), `is_set`, `default_data`, `default_is_set`, `has_changed_recently`, the set its `validate_cb` accepts, whether `on_change_cb` is registered |
| `isLoaded`, `globalCb` | `prv_is_loaded`, `prv_global_on_change_cb` |
| `nvs[a][s]` | the flash entry of `s` in a subtree |
| `th[t]` | the call thread `t` is in: function, setting, payload, next step |
| `diverged`, `base`, `shown` | observers: they record history for the properties and guard no step |

A payload is a `(data, len)` pair taken as one value. `Empty` is the payload of
zero bytes, which the code treats specially: the handler returns without a
change and the save deletes the entry.

A call is cut at every point where another thread or a power cut can tell the
difference: `CheckValue` (length, same value, validation), `ValueSetCb`
(RAM), `Notify` (callbacks), `SaveValue` (flash), then `CheckFlag`,
`FlagSetCb`, `SaveFlag`; likewise `CheckDefault`, `DefaultSetCb`,
`SaveDefault`; `Load` reads the three subtrees one by one; `restore_defaults`
and `clear_changed` are `Iterate` around the steps for one setting. `Return`
says which results the code drops. `Crash` is a power cut at any point: RAM is
lost, flash stays.

### Assumptions

* `settings_save_one` is atomic (NVS writes an entry completely or not at all)
  and a failed one leaves the old entry; a save of zero bytes deletes it.
* A failing `settings_load_subtree` has delivered some subset of its entries.
* The assertions on `prv_is_loaded` and on known keys hold: they are guards.
* One thread boots the library; it may reload it later.
* Threads are preempted between library steps; a torn `memcpy` is not modelled.
* A restore's payload is read when it starts (`CheckRestore`).
* A consumer reads its setting with `user_settings_get` when it registers, if the
  library is loaded, and in its callback.
* `Serialized`: the application never overlaps two calls on one setting. It is
  a parameter: the run `Free` does without it.

### What the runs check

`t1`, `t2` are threads; payloads are `a`, `b` (fit), `big` (longer than
`max_size`) and `Empty`. Two values are enough to tell old from new and one
too long value to take the length check; one setting shows everything that is
per setting, two are needed for loops and for calls that run beside each other.

| run | instance | shows |
|---|---|---|
| `Serial` | 1 thread, 1 setting, all calls, all payloads and faults | `TypeOK`; `FlashAgrees`: a reboot gives back what get returned, except in the recorded cases; `ConsumersFollow` (for settings that are set), `DefaultWriteOnce`, `OnlyAccepted` |
| `Pair` | 2 threads, 2 settings, overwrite allowed, power cuts, reloads | `FlashAgrees` with calls that run beside each other, and the inductive invariant `Inv` of the proof |
| `Loops` | 2 settings, failing saves, validators that may refuse the default, fair threads | `LoopsAreComplete`: an error on one setting does not end `restore_defaults` or `clear_changed`; `EveryCallReturns` |
| `Free` | 2 threads on 1 setting that set, set defaults and flag, no discipline | the flag and the consumers survive every interleaving (flash does not, see below) |
| `Dependable` | flash never fails, no zero-length payload, no restore | `SuccessIsStored`, `ImplementsStore` |

`Loops` has no power cut, reload or callback, so nothing the program does depends
on flash or the observers: the run tells states apart by the rest of them only
(`VIEW program`). Both properties and the fairness, whose steps always change the
thread, speak of that rest.

Liveness assumes `WF_vars(Step(t))` for each thread: a thread inside a call is
not suspended for ever. The library never blocks (no lock, no queue), so the
scheduler of the RTOS gives exactly this to every thread that is not starved by
a higher priority; nothing is assumed of the start of a call.

### Where code and documentation differ

A run that TLC refutes; `PROJECT.json` quotes the line.

* `FailedSave`: after a `set` that failed with `-EIO`, RAM already holds the
  value, so the retry returns 0 by the "same value" shortcut and stores nothing.
* `LateDisconnect`, `LongList`: the Bluetooth service and the codec, see section 5.

Met while modelling and not kept as runs:

* `restore_default` of a setting without a default deletes the flash entry but not
  the value in RAM (the handler returns at `user_settings.c:99`); the header says
  `get` returns NULL (`user_settings.h:143`);
* the load runs no callbacks (`user_settings.c:108`), the comment at
  `samples/callbacks/src/main.c:170` says it does;
* `README.md:127` says an import sets all settings with an existing key and a
  correct type; it stops at the first value that is too long or not saved
  (`user_settings_json.c:263`);
* `user_settings_json.h:55` and `:66` list `-ENOMEM` for exports; without memory for
  a single setting they leave it out and return 0 (`user_settings_json.c:287`);
* with two links the responses go to the device that connected last, whoever wrote
  the command, and the reference on the first is never given back
  (`bt_uss.c:131`); `bt_uss.c:47` speaks of the connected device;
* a `set_default` of a setting that is not set changes what `get` returns, and no
  callback tells the consumers: `ConsumersFollow` speaks of settings that are set,
  and would fail in `Serial` without that;
* two overlapping sets of one setting may both return 0 and leave flash and RAM
  with different values (`FlashAgrees` fails in the instance of `Free`);
* a power cut between the two saves of a set keeps the value and loses the flag,
  which the change log calls persistent (`ChangedIsMarked` with power cuts);
* `restore_default` returns 0 when its save failed (`user_settings.c:438` drops
  the result); `restore_defaults` deletes the flash entry of a setting without a
  default although `user_settings.h:134` says the value remains unchanged;
  `is_set` ignores the default although `user_settings.h:411` counts it;
* a payload shorter than its integer type passes the range check with the bytes
  that follow it and is stored with the old bytes behind it, so that `get` may
  return a value out of the range (`WholeRangeHolds` without `Whole`);
* an exported unsigned number of 2^31 or more is negative, and neither JSON nor
  the shell can set one.

### The durable store: `SettingsStore` and `UserSettingsStore`

`SettingsStore` says what an application may rely on: a call takes effect once,
between its start and its return, or not at all; it has done so if it returns 0
and not if it returns an error; a power cut loses nothing stored. Only the value
and the flag of a set are two effects. `UserSettingsStore` maps the core to it:
flash is the store, and `CallOf` reads off a thread which call it is in and
whether its value is stored. `ImplementsStore` is checked in `Dependable`: with
the same-value shortcuts, reloads and power cuts at every step, an effect is
never early, doubled or missing. It needs dependable flash (see `FailedSave`),
no zero-length payload and no restore, which without a default
deletes in flash only, and calls that do not overlap on a setting.


## 4. `SettingsRegistry` and `SettingsList`: the list

`SettingsRegistry` is the abstract promise: a sequence of settings with distinct
ids and keys, iterators with a position that advances by one and stays at the
end. `SettingsList` is the code: `head`, `tail` and `next` are the `sys_slist_t`
and its nodes, `us[n]` the struct at address `n` with the heap blocks it owns,
`changed` the flags, `left` the free units of the heap, `add` the call of
`prv_user_settings_list_add` in progress, `ctx[i]` an iterator context. An add
is one step per allocation and one per pointer write of `sys_slist_append`, so
an iterator can run between any two of them. `Flag` is another thread setting or
clearing a flag. `seen` and `due` are observers.

Assumptions: adds do not overlap (they are made at start-up by one thread; the
code checks and appends without a lock); assertions stop the program, so a full
heap leaves the add where it is; `user_settings_list_free` runs when nobody
iterates, and reads the next pointer of a block it has just freed, which the
heap leaves intact.

The run `List` has three addresses, ids and keys, settings of one or two units
and a heap of nine: three small settings fill it exactly, two larger ones leave
the third add without room for its struct or one of its buffers. Three elements
are the smallest list with a first, a middle and a last one. One iterator is
enough for iterator properties: a context is written only by its own caller.
The run checks

* `IterationIsComplete`, `ChangedAreReturned`: iterations beside an add and
  beside changing flags skip and repeat nothing;
* `ListedAreWhole`: what is reachable has its buffers and unique names;
* `NothingLeaks`: after a teardown the heap is whole;
* `ImplementsRegistry`: under the mapping `Registry` (the sequence read from the
  head, the index of the iterator's node) each pointer step is a step of the
  abstract registry or a stutter. The add takes effect at the one write that
  links the node to the head or to the last element;
* `ListInv`: the inductive invariant of the proofs (section 8).

`NullAssumption` says that the value that stands for "no setting" is no setting.

## 5. `SettingsApi`, `BinaryCodec` and `SettingsProtocol`

`SettingsApi` is the API as the front ends see it: `SetCall`, `SetDefaultCall`,
`RestoreCall` and `FlagCall` relate RAM before and after a call to its result, in
the order of the code's tests. A save may fail (`FlashFails`) and leaves RAM
changed. A value is a payload of at least one byte.

`BinaryCodec` decodes commands and encodes settings byte by byte, with a byte
(`Octet`) being `0..Radix-1` and an id (`IdRange`) two of them, and has the
client's side from the protocol's README, the reference both are checked against.
`SettingsProtocol` puts it under the executor and the Bluetooth service:

| variable | code |
|---|---|
| `job` | the command the receive thread executes: the decoded `cmd`, the position in its loop (`done`), `resp_buffer`, the result |
| `served`, `refs` | `prv_bt_conn`, the references `bt_conn_ref` took |
| `link`, `subscribed` | Zephyr's connections and their CCC values |
| `got`, `held`, `hindered` | observers |

A response is four steps: `Fetch` (look up, encode) and the three reads of
`prv_bt_conn` in `prv_send_notification`: `CheckServed` for the NULL test,
`CheckSubscribed`, and `Notify`. A lost link, the disconnected handler and another
thread's sets may come between any two steps. If the handler clears `prv_bt_conn`
between the first two, `bt_gatt_is_subscribed` gets NULL. That is undefined:
`CheckSubscribed` lets it stop the receive thread (`pc = "fault"`) or find no
subscription. The same goes for a list whose ids do not fit the `value` of the
decoded command (`Overruns`). A stopped receive thread may leave nothing to do,
so the protocol's runs do not check for deadlock.

`Conns` is the stack's pool of connection objects, `CONFIG_BT_MAX_CONN` of them.
A new link gets an object that nobody refers to, and the service holds a reference
from `bt_uss_enable` until the disconnected handler has run `bt_uss_disable`. With
one object, the sample's configuration, a new link therefore always comes after
the handler of the last; with two, `bt_uss_enable` runs over a connection it still
serves. The runs and the proofs are about one.

Assumptions: Zephyr's one receive thread runs the write handler, the connected
handlers and the CCC writes, so none of them runs during a command; the
disconnected handler runs on another thread; `max_size` is below `Radix`, as the
protocol's types say; a client gives SET at least the bytes its length byte
announces, so only the malformed writes the decoder refuses are in the inputs;
`bt_conn_unref(NULL)`, which a second disconnected handler would call after
`bt_uss_disable` has cleared the connection, is a failed assertion and no step.

The run `Protocol` has one connection object and two settings, the second with the
longest value that one length byte can tell, a buffer of 24 bytes that the full
form of it just fits and a longer one does not, and requests of every command,
with unknown ids, refused and too long values. With `Radix = 16` a length byte
counts 7 ids: `LIST_SOME` comes with 7, with 8, whose length wraps (128 of the
code), and with 9, which do not fit the command (129). `Meddling = 2` bounds the
states other threads give a setting during one command, so that there is an old
and a new one. It shows

* `ResponsesAreMeant`: what is sent is, read as the protocol's README says, the
  setting at its place in the request, as it was during the command;
* `SuccessIsComplete`, `FailureHasACause`: a success is all of it, but for lists
  the decoder can not count (`Countable`), and a client that gets an error can
  tell from the code and the responses where it stopped;
* `ProtocolInv`: the inductive invariant of the proofs (section 8); its
  `RefsBalance` says that the service holds one reference, on the connection
  whose link is up or whose handler is due;
* `CommandsEnd`, under weak fairness of the receive thread (`Execute`) and of the
  disconnected handler, neither of which blocks in the library: a command ends
  but for the two undefined cases above.

Two runs are refuted by TLC, as the code does not do what is written of it:

* `LateDisconnect`: `bt_uss.h` says a write that fails returns an error; the
  handler between the two tests of a notification may leave it unanswered
  (`EveryWriteIsAnswered`). No list is too long in this run;
* `LongList`: a `LIST_SOME` of 128 or more ids is answered with success after the
  responses for their number modulo 128, as the length of the ids is kept in a
  byte (`SuccessMeansAll`).

## 6. `TypedSetting`: bytes and conversions

One setting as its buffer of `max_size` bytes, `data_len`, `is_set`, flash entry
and validation helper, set with raw payloads (protocol or C callers), JSON items
and shell arguments, and booted by firmware that gives it the same or another
`max_size`. Conversions are what they do: integers are little endian, narrowing
keeps the low bits, cJSON's `valueint` and `strtol` clamp to 32 bits, hex digits
go through `(c % 32 + 9) % 25` and come back as `%02X`.

In the run `Typed` a byte is `0..3`: a u16 then has 16 values and every type its
proper size, so the limits of each type, of `int` and of `long long` are among
29 numbers. The texts have both cases of hex digits and characters that are none,
the raw payloads are shorter, equal and longer than the types and share prefixes,
strings without a NUL and with one inside among them. It shows

* `TypedInv`, the inductive invariant of the proofs (section 8), with
  `BufferIsStored`: RAM and flash agree on the bytes;
* `ReadsSurviveReboot`: a reader reads the same after a reboot, for values with
  the length of their type; the exact-size helper ensures that, the range helper
  does not;
* `WholeRangeHolds`: what `get` returns is in the range, under the same condition;
* `NumbersArrive`, `ExportsImport`: what JSON and the shell can express arrives
  unchanged, and export followed by import is the identity on everything an
  `int` can carry. Not for what no text stands for (`WellFormed`): a string
  that does not end with its only NUL and a bool that is neither 0 nor 1, which
  the protocol and C callers may write;
* `UpgradesKeepValues`: a value outlives firmware in which it does not fit.

## 7. `SettingsJson`, `SettingsShell` and `FrontEnds`

`SettingsJson` is a thread in `user_settings_set_from_json` or in an export,
`SettingsShell` the shell thread in a command; a loop makes one API call per
step, and the export tests a flag and reads the value in two. `FrontEnds` runs
both, with the application around them: it keeps a copy of the settings up to
date with the two functions the library has for it, the export of the changed
settings and then `user_settings_clear_changed`. That cycle is the application's
and external; it shows what the functions are good for together.

The run has two settings, the first of which takes one value and refuses
another, documents with an unknown key, a wrong type, an invalid element, a
refused and a too long value and a setting named twice, the longer of them with
always_mark_changed, every command, failing
saves and a failing cJSON heap. The shell makes at most one change (`Meddling`)
during one JSON call or cycle; the application any number during a command.

* `ImportIsComplete`: whatever stands between them, the right elements are
  applied, the last for a setting holds, always_mark_changed marks, and an
  import that stops keeps what it did;
* `WalksAreComplete`: exports and listings are in order, without repetition, with
  every setting flagged throughout and none that never was;
* `CommandsDoAsTold`: a command that returns 0 did what it says;
* `CopyFollows`: between two cycles a setting that is not flagged is the same in
  the copy. A change is lost in the cases of `Lost` and no other: a set that
  failed before its flag, a change between export and clear, an export without
  memory, a flag cleared by a user;
* `FrontInv`: the inductive invariant of the proofs (section 8).

A document is what cJSON made of the text: `None` when it is no JSON, else a
sequence of elements (`ImportsAssumption`). A set is one step here; one that is
under way between its write to RAM and its flag while a cycle exports and clears
counts as a change between the two.

## 8. Proofs

Checked by TLAPS for every number of settings and threads, every set of values,
every subset of calls and faults. A theorem's hypotheses are named in the table;
the constants have no other assumptions than the ones the modules declare.

### The core

| theorem | says | needs |
|---|---|---|
| `TypeCorrect` | `[]TypeOK` | |
| `Invariant`, `FlashAgreement` | `[]Inv`, `[]FlashAgrees` | `Serialized` |
| `ProvisionedOnce` | `DefaultWriteOnce` | `Serialized`, `~Overwrite` |
| `AcceptedOnly` | `OnlyAccepted` | `Serialized` |
| `LoopsComplete` | `LoopsAreComplete` | `Serialized` |
| `ConsumersUpToDate` | `[]ConsumersFollow`: of settings that are set | |
| `ChangesAreMarked` | `[]ChangedIsMarked` | no failed save, no power cut, no reload |
| `SuccessStored` | `SuccessIsStored` | `Serialized`, `DependableFlash` |
| `Refinement` | `ImplementsStore` | `Serialized`, `DependableFlash` |

Why the hypotheses: without `Serialized` a second call changes what the first has
checked (the instance of `Free` refutes `FlashAgrees`); an overwrite is what
`CONFIG_USER_SETTINGS_DEFAULT_OVERWRITE` permits; a failed save, a power cut
between the saves of a set, or a reload that brings back the old flag lose a
flag; `DependableFlash` (no failed save, no zero-length payload, no restore) is
explained in section 3. Each of them is met by a run, so none is vacuous:
`Serialized` by all but `Free`, `DependableFlash` by `Dependable`, the third by
`Free`.

The invariants, all in `UserSettingsInv`:

* `ThreadShape`: `TypeOK` alone is not inductive, `SaveFlag` writes
  `nvs["changed"][th[t].s]`, which needs `th[t].s` in the list. A call is at a
  step of its own function, on a setting of the list.
* `Inv`, for `FlashAgrees` (also an invariant of the run `Pair`):
  - `Kept`: what a call has checked or written stays true while it runs. It
    fails without the discipline: this is why `Serialized` is a hypothesis;
  - `Disjoint`: the discipline as a fact about the calls under way;
  - `DataFits`: lengths and `is_set` agree and everything stored fits, so that a
    load never refuses an entry the library wrote;
  - `RamFromFlash`: before the library is loaded RAM holds only what came from
    flash, so a load that fails and is repeated is harmless;
  - `Covered`: for each subtree and setting, the load has not read it yet, or a
    call is about to save it, or `diverged` records it, or RAM and flash agree.

  `Covered` and the guard `isLoaded` give `FlashAgrees`.
* `DefaultInv`, for `DefaultWriteOnce`: from the moment a load has read the
  defaults, a default in flash is set in RAM too, even where the two differ
  after a failed save; so a call past its test of `default_is_set` found none in
  flash, and the discipline keeps it so until its save.
* `Vetted`, for `OnlyAccepted`: between the validation and the write neither the
  payload nor the validator changes.
* `LoopInv`, for `LoopsAreComplete`: the settings behind the loop are done, and
  the one it is at is done once its write is; no error takes the loop out early.
* `ConsumerInv`, for `ConsumersFollow`: a call past its entry means that the
  library is loaded, and who is not registered has been told nothing. It needs no
  discipline: the callback reads what `get` returns then, not the value its call
  wrote. A setting that is set stays set, and `get` then returns its value.
* `MarkInv`, for `ChangedIsMarked`: the one load reads a blank flash.
* `StoredInv`, for the store: nothing ever diverges, and a set that is past its
  first save has its value in flash. With `Inv` it makes the same-value
  shortcut of `CheckValue` an effect of the abstract store rather than a lie;
  the refinement then goes action by action, each one a step of `SettingsStore`
  or a stutter.

Each proof has one step per action and, under it, one per conjunct that the
action can disturb.

### The protocol

`BinaryCodec_proofs` proves, for every radix and every setting whose lengths fit
one byte, that a client reads from a response what was encoded (`ReadsBack`): the
two forms, keys up to their NUL, values and defaults of any length including
none. It also has what the decoder makes of each kind of command (`Decodes...`)
and that what it refuses is left zeroed, as lemmas for the proofs below. These
are facts about arithmetic and positions in sequences, proved without induction.

`SettingsProtocol_proofs` has, for any settings, requests, buffer size and radix:

| theorem | says | needs |
|---|---|---|
| `TypeCorrect` | `[]TypeOK`: records decoded and responses encoded fit, no reference is dropped that is not held | |
| `ProtocolInvariant` | `[]ProtocolInv` | `OneLink` |
| `MeantResponses` | `[]ResponsesAreMeant` | `OneLink` |
| `CompleteSuccess` | `SuccessIsComplete`: lists the decoder can count | `OneLink` |
| `FailureExplained` | `FailureHasACause` | `OneLink` |

`OneLink` says that there is one connection object, the configuration the service
is made for (section 5). With two, `RefsBalance` and `Reachable` fail: the
service forgets a reference, and serves a link the command did not come from. Lists of any length are
in the requests: what a list that is too long does is covered by all but
`CompleteSuccess`, whose `Countable` leaves it out. The inductive invariant
(`SettingsProtocolInv`, an invariant of the run `Protocol`) adds to the types:

* `Referred`: the served connection is referred to, so that dropping a reference
  never takes a count below zero;
* `RefsBalance`: what the service refers to is the connection that has a link or
  whose disconnected handler is due;
* `Reachable`: unless the link was lost or something was not sent (`hindered`), the
  client can be notified;
* `Faulted`: only what is undefined stops the receive thread;
* `Understood`: the decoded command is what the client asked for, or the first of
  the ids if there are too many to count (`Goes`), and the executor is at a step
  of that command;
* `Told`: each response sent, and the one in `resp_buffer`, describes the
  setting at its place in the request, with its fields as they stood together at
  one moment of the command (`held`). `ReadsBack` turns this into what the
  client reads, `ResponsesAreMeant`;
* `Justified`: the result the executor keeps is the reason it stopped.

### The front ends

`FrontEnds_proofs` has, for any settings, validators, documents, commands and
faults, and any number of changes by the two threads to each other:

| theorem | says | needs |
|---|---|---|
| `TypeCorrect` | `[]TypeOK` | |
| `FrontInvariant` | `[]FrontInv` | |
| `CopyUpToDate` | `[]CopyFollows` | |
| `ImportComplete` | `ImportIsComplete` | |
| `WalksComplete` | `WalksAreComplete` | |
| `CommandsDone` | `CommandsDoAsTold` | |

None has a hypothesis: what limits a property (no write by the shell during an
import, none by the application during a command) is part of the property and
recorded by `shellWrites` and `jsonWrote`. The first lemmas say what each call
of `SettingsApi` does to the setting it is for and that it leaves the others
alone. The inductive invariant (`FrontEndsInv`) has five parts:

* `AtPlace`: an element is marked, or a setting read, only at a place the loop
  has chosen. `TypeOK` is not inductive without it: the mark indexes the
  document and the read the list;
* `CycleInv`, for `CopyFollows`: at every step of a cycle an unflagged setting is
  the same in the copy, or about to be by the export, or recorded in `behind`.
  During the clear the claim is stronger for the settings the loop has not
  reached, since they lose their flag next. It needs that the export a cycle
  waits for is its own (`InPhase`);
* `ImportInv`, for `ImportIsComplete`: what is behind the import holds. Between
  the set of an element and its mark the value is there and the flag is not, and
  an older element for the same setting is already overwritten;
* `WalkInv`, for `WalksAreComplete`: what a walk has named so far agrees with the
  flags as they were since it started; those only grow, so the claim outlives
  changes by the other thread behind the walk;
* `CommandInv`, for `CommandsDoAsTold`: the settings behind a loop of the shell
  are done.

### The list

`SettingsList_proofs` has, for any number of nodes, ids, keys and iterators, any
sizes and any heap:

| theorem | says | needs |
|---|---|---|
| `TypeCorrect` | `[]TypeOK` | |
| `ListInvariant` | `[](TypeOK /\ ListInv)` | |
| `WholeInList` | `[]ListedAreWhole` | |
| `HeapWhole` | `[]NothingLeaks` | |
| `IterationComplete` | `[]IterationIsComplete` | |
| `ChangedReturned` | `[]ChangedAreReturned` | |
| `Refinement` | `ImplementsRegistry` | |

`TypeOK` needs no more than itself but for the teardown, where the units that come
back must fit the heap: that is `Balance`. The inductive invariant
(`SettingsListInv`) has, besides `ListedAreWhole`,

* `Adding`: at each step of the add the new setting is the one of the call, with
  the blocks it has been given so far, not in the list, and its id and key are
  still new. That is why nothing becomes wrong when it is linked;
* `Linked`: the `next` pointers lead from the head to NULL without a repetition
  (`Chain`), and where the tail is at each step of the append: one element behind
  between the two writes;
* `Owned`: what has memory is the list and the setting that is added;
* `Balance`: free units, the units of the add under way and those of the list
  make up the heap;
* `Iterating`: for every iterator there is a number of settings behind it; what it
  has returned are those (with a flag, for `changed`), and what it still has to
  return is ahead. An ended iterator stays at the end although settings are added.

What follows the pointers (`Position`) and what adds up the heap (`GivenBack`) are
recursive functions over the list, so the proof needs induction. It gets it from
the library's well-founded order of finite sets, whose theorem takes no operator:
a set of naturals that is not empty has a least element (`Least`). From this come
induction over `0..n` (`Induct`), that the recursive functions satisfy their
equations (`Recursion`, `PositionIs`, `GivenBackIs`), and that the list the
pointers lead through is unique (`OrderIs`). With `OrderIs` each step is proved by
naming the sequence after it: the one before (`Steady`), one longer (`Grown`) or
the empty one (`Emptied`). The refinement follows these three.

### The bytes of a setting

`TypedSetting_proofs` has, for any radix, payloads, sizes and upgrades:

| theorem | says | needs |
|---|---|---|
| `TypedInvariant` | `[]TypedInv` | |
| `BufferStored` | `[]BufferIsStored` | |
| `RebootSurvived` | `[]ReadsSurviveReboot` | |
| `RangeHolds` | `[]WholeRangeHolds` | |
| `UpgradeKeeps` | `UpgradesKeepValues` | |
| `NumbersKept` | `NumbersArrive` | |
| `ExportsReturn` | `[]ExportsImport` | |

`InputAssumption` says that payloads are bytes and that C strings have no NUL
inside, `CheckAssumption` that the helpers
of `user_settings_validation_helpers.h` are used for the types their comments name:
a range for integers, and an exact size that a value of the type can have. The
inductive invariant (`TypedSettingInv`) adds to `BufferIsStored` the types and
`StoredIsValid`: what is in flash has passed the callback, under whatever
`max_size` it was written. A value with the length of its type fills its buffer, so
that the callback and the reader see the same bytes (`WholeFills`).

The conversions rest on arithmetic: quotient and remainder are the only numbers
with their sum (`QuotientIsUnique`). From it, byte after byte and without
induction, since an integer has at most eight: the bytes of a number add up to its
remainder (`LowOfStored`), and every number with that remainder has these bytes
(`StoredOfLow`). A cast keeps the remainder (`CastReduces`) and what is in range
(`CastKeeps`), and the modulus of an `int` is a multiple of those of the shorter
types (`IntIsMultiple`): so an unsigned 32-bit value survives its trip through a
negative `int`, and a 64-bit one only if an `int` holds it. `HexReturns` and
`UpToNulIs` do the same for bytes and strings. The equations of the recursive
functions (`PlaceIs`, `LowsAre`) are proved from a witness that is written out.

### Only model-checked

Liveness (`EveryCallReturns`, `CommandsEnd`): fairness is out of the
proof system's reach.

## 9. Not modelled

* A read of a string, bytes or 64-bit value beside a set of it by another thread
  (there is no lock, so it may be torn): a value is read and written in one step.
* What C makes of a bool whose byte is neither 0 nor 1, and of a string without a
  NUL, is undefined: the model reads the first as true and exports neither.
* Two Bluetooth links at a time, and writes whose SET length byte is larger than
  what follows it.
* Hex strings longer than the stack buffer of 1024 bytes that
  `user_settings_json.c:116` decodes them into before any length is checked: the
  models give `-ENOMEM` to every value that is too long.
* Tab completion in the shell (`prv_get_us_by_idx`), `exists` and `get_type`:
  lookups without effect. Log messages, key strings and the layout of output.
* The headers' declarations, the samples but for the connection handlers of the
  Bluetooth one, the tests and the CI scripts: no state of the library.
