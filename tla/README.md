# A TLA+ verification of the relay firmware

This directory specifies and checks the control logic of the six-channel relay
firmware under `src/src`: what the device does to its relays, its stored
configuration and the answers it gives, when writes fail, power is cut, two
tasks interleave and clients retry. The modules are translated from the code;
the documents under `src/docs` and `src/design` only supply claims that
some runs compare with what the code does.

Run any model with `tlc -config X.cfg M`, and the proofs with `tlapm` on each of the
modules whose name ends in `Proofs`.

Contents: [The system](#1-the-system) · [Modules](#2-modules) ·
[Runs](#3-runs) · [Where code and documents disagree](#4-where-code-and-documents-disagree) ·
[Fairness](#5-fairness) · [Proofs](#6-proofs) ·
[What is left out](#7-what-is-left-out) · [Plan](#8-plan)

## 1. The system

The firmware is one C++ program for the ESP32-S3. `main.cpp` calls
`Application::initialize` once and `Application::update(millis())` for ever, all
in the Arduino loop task. The one other task that touches the application is
the HTTPS server, whose handlers run between any two steps of the loop.
`WebCommandTracker`, `WebRequestQueue` and `WebSecurityService` are guarded by
a mutex each; the event journal, the WebSocket client table, the relay snapshots
and the active configuration are read by the HTTPS task without one.

```
 Modbus   KNX   CLI  button        HTTPS task                browser
   |       |     |     |      submitRelayCommand  <----------  POST / WebSocket
   |       |     |     |        |         |
   |       |     |     |   WebCommandTracker   WebRequestQueue
   |       |     |     |        ^                  |
   v       v     v     |        |                  v   (loop task from here on)
 SwitchingPolicyService <-------|---------- processWebRequest
        |   asks CommandArbiter |
        v                       |
 RelayCommandQueue -> processRelayCommand -> RelayCommandService -> relay outputs
                                                |  snapshots
                                                v
                              KNX status, Modbus registers, web, diagnostics

 ConfigurationService -> NvsSettingsStore (two slots and a marker)
 WebSecurityService   -> NvsWebSecurityStore
 LifecycleSupervisor, ServiceModeService, watchdog, DiagnosticsService, NetworkManager
```

### Components

| Component | State it keeps | Operations | Hard part | Correct when |
|---|---|---|---|---|
| `RelayCommandService` | a snapshot per channel | `initialize`, `executeBatch`, `setSafetyLockout` | any output write may fail, also those of the rollback and the forced OFF | snapshots tell the truth or carry a fault; a batch is all or nothing; nothing lockable is switched on |
| `CommandArbiter` | lockout per channel | `evaluate`, `setSafetyLockout`, `reset` | asked at admission and again at execution | a lockout holds until restart |
| `RelayCommandQueue`, `SwitchingPolicyService` | FIFO of 16 batches, 2 reserved | `request*`, `enqueue`, `dequeue`, `clear` | full queue, reserve | the reserve is never taken by an ordinary batch |
| `ConfigurationService`, `NvsSettingsStore` | active and staged configuration; two records and a marker in flash | `initialize`, `stage`, `commit`, erase; `load`, `save` | power cut and failure at each step, stale clients | a stored record always exists; a reported save is durable; a generation names one configuration |
| `WebCommandTracker` | 32 records of commands by session and key | `begin`, `complete`, `reject`, `expire` | two tasks, retries, time | at most once, a truthful and lasting answer |
| `WebRequestQueue` | 8 requests, 16 results | `enqueue`, `dequeue`, `complete`, `expire` | two capacities | no slot is lost |
| `Application` | `initialized_`, restart, intervals | `initialize`, `update`, factory reset, watchdog failure | order of the steps, partial failure | fail-safe boot, reset and restart |
| `LifecycleSupervisor`, `ServiceModeService` | lifecycle state, service window | transitions, enter, exit, time out | restart racing a fault | only legal transitions; a requested restart happens |
| `ButtonAdapter` | debounce and hold timers | `update` | boot with the button held, wrap of the clock | one event per deliberate press |
| `WebSecurityService` | users, sessions, login window | create, validate, refresh, save user, provision, erase | a second store beside the configuration; a full session table | users and the provisioned flag agree after any crash |
| `WebEventJournal`, WebSocket clients | ring of 64 events, next event per client | `publish`, `read`, `publishEvents` | wrap, overrun, two tasks | a client sees every event or is told to resynchronise |
| `NetworkManager`, `WiFiAdapter` | connection state, profile in turn, timers | `update`, connect, recovery AP | timeouts, retry | some way into the device stays open |
| `KnxAdapter` | published sequence, fault and time per channel | `poll`, `onTelegram`, start | priority, restart of the transport | every change reaches the bus |
| `DiagnosticsService` | faults, saturating counters | record, clear, flush | second A/B record | counters never go back |
| Modbus adapters | register image, draft configuration, role | `poll`, `submit`, `commit` | atomic batches of registers | a write of registers is one batch |
| `CliAdapter` | command buffer | relay, configuration and service commands | two stores in one command | as for the services it calls |
| LittleFS configuration files | bundle of section files | `load`, `store`, backup | crash between two files | a bundle is of one configuration |
| `RestorePolicy` | none | `makeRelayRestorePlan` | a table of reset reasons | OFF unless a policy allows otherwise |
| `RelayTimerService`, `SceneService` | timers, scenes | present, but nothing in the firmware schedules a timer or configures a scene | | |

`PROJECT.json` lists every component with its status and every hazard with its line.

## 2. Modules

| Module | Models | |
|---|---|---|
| `RelayControl` | `RelayCommandService`, `CommandArbiter`, `RelayCommandQueue`, `SwitchingPolicyService`, relay outputs, and what `Application` does with them | proved about |
| `RelayControlProofs` | proofs about `RelayControl` | |
| `RestorePolicy` | the table of relay states at boot | operators, checked by assumptions |
| `ConfigurationContract` | what the configuration promises its clients | abstract |
| `ConfigurationStore` | `ConfigurationService` over `NvsSettingsStore`, implements the contract | proved about |
| `ConfigurationStoreProofs` | proofs about `ConfigurationStore`, with the refinement | |
| `WebCommands` | the life of a web relay command across the two tasks | proved about |
| `WebCommandsProofs` | proofs about `WebCommands` | |
| `WebRetention` | clocks and retention of command results | |
| `Device` | `Application`: boot, loop, factory reset, watchdog failure, restart drain | composes the next three, proved about |
| `DeviceProofs` | proofs about `Device` | |
| `LifecycleSupervisor`, `StatusIndicator`, `ButtonAdapter` | the lifecycle with service mode, the light, the button | operators on one state each |
| `WebAccess` | users, sessions and the provisioned flag, over two stores and two tasks | proved about |
| `WebAccessProofs` | proofs about `WebAccess` | |
| `Services` | one of the six below at a time | composes the six, proved about |
| `StorageProofs` | proofs about the services that keep data: `EventStream`, `DiagnosticCounters`, `ConfigurationFiles` | |
| `ConnectionProofs` | proofs about those that talk: `ModbusServer`, `KnxBus`, `NetworkManager` | |
| `EventStream` | `WebEventJournal` and the WebSocket clients, two tasks | |
| `DiagnosticCounters` | counters of `DiagnosticsService` and their records in flash | |
| `ConfigurationFiles` | the bundles of `LittleFsConfigurationSource` | |
| `ModbusServer` | the RTU adapter, the register map and both gateways | |
| `KnxBus` | `KnxAdapter` | |
| `NetworkManager` | `NetworkManager`, `WiFiAdapter`, `WifiManagementService` | |
| `MCRelayControl`, `MCConfigurationStore`, `MCWebCommands`, `MCWebAccess` | instances for TLC | |

How they fit together. `RelayControl`, `ConfigurationStore`, `WebAccess` and
`Device` each see the operations that cross them (a factory reset, a watchdog
failure, a restart) from the side of their own state: the relays, the stored
records, the users, and the lifecycle and its loop. What another module decides
is a nondeterministic choice there: `Device` saves a configuration with or without
success, `WebAccess` keeps of the configuration what `ConfigurationContract`
promises of it, the flag `securityProvisioned`, and `ModbusServer` sees the relay
queue as a number of places that batches take, its own and those of other sources, and
that the loop gives back; and of a factory reset the lockouts that it leaves.

### RelayControl

| Variable | Code |
|---|---|
| `phase` | before `initialize`, `initialized_`, or given up |
| `relay[c]` | `snapshots_[c]` without timestamps, and `output`, the level last written with success to the pin |
| `lockout` | `CommandArbiter::safetyLockouts_` |
| `queue` | `RelayCommandQueue` as a sequence of batches |
| `result` | what the last relay operation answered |

`Request` is any of the four `SwitchingPolicyService` operations on the batch it
builds. `ProcessRelayCommand` dequeues and runs `ExecuteBatch`, whose three
disjuncts are the refusal, the success, and the write that fails at some command
`k` with the rollback: the sets `lost` and `saved` choose which rollback writes
fail too, and which forced OFF writes then work. `FactoryReset` contains the six
lockouts with the early return at the first one refused; erasing is in `WebAccess`
and the restart in `Device`. `WatchdogFailure` locks every channel and
ends the loop. `Reset` is any restart of the chip.

A failed write leaves the pin as it was. `gpio_set_level` reports failure
without changing a level, so no third, floating level is modelled. Timestamps,
correlation ids and the answer of the event sink change no decision and are
left out. No client of the firmware enqueues a `Safety` batch today; the
model has one, because the queue reserves room for it.

The plans a boot starts from are those `RestorePolicy` makes of one configuration
for every reset category. That module has no state. Its two assumptions, which
TLC evaluates over all inputs with `relay_control`, say that the table is
total, and that a boot switches a channel on exactly when
`design/relay-safety-policy.md` lets it.

### ConfigurationStore and ConfigurationContract

| Variable | Code |
|---|---|
| `active`, `staged` | `ConfigurationService::active_`, `staged_` |
| `opened` | `NvsSettingsStore::initialized_` |
| `slot`, `marker` | the keys of the two records and of the active slot in NVS |
| `saving`, `target` | where `save` is, and the slot it writes |
| `saved` | `lastSaveResult_` |
| `view` | the generation a web client names with its request |
| `doubt` | history: what was asked for since the last durable save |

`save` is split at each effect on flash (`Save`, `WriteRecord`, `VerifyRecord`,
`MoveMarker`) so that `PowerCut` may fall between or inside them. A write may
work, be lost, be torn (an unreadable record) or be reported as failed although
it is complete; reading back and the marker may fail. Callers differ in what
they do after a failure: the CLI and the WiFi service discard the staged
configuration, the Modbus and KNX saves leave it; both are modelled.

The contract has one `stored` configuration and the set of those in `doubt`.
The refinement maps `stored` to what `load` would return and `pending` to the
staged record of a running save. It promises: a save that directly follows a
boot or another successful save is atomic and durable; a save that failed leaves
what is stored among the old one and those asked for since. It promises nothing
once the generation counter is saturated.

### WebCommands and WebRetention

| Variable | Code |
|---|---|
| `tracked` | `WebCommandTracker::commands_`, by session and key |
| `requests`, `results` | the queue and the result slots of `WebRequestQueue` |
| `http`, `loop` | the step the HTTPS handler and `update` are at, and what they hold |
| `relayQueue`, `relay` | the relay path, for one channel |
| `mode` | serving, server stopped, or loop ended |
| `outcome` | history: what a command did to the relay |

Every action is one critical section of a mutex, or one run of code without a
lock between two of them. The handler is `Begin`, `Enqueue`, perhaps `Reject`;
the loop is `TakeRequest`, `Submit`, `Report` for a request and `Execute`,
`Complete` for a relay batch. `ExpireTracked` has no clock and may drop any
completed record at any time, which covers every schedule of the expiry;
`WebRetention` keeps the clock and nothing else, with the time each task read
when it began.

Assumed: correlation ids of live records are different (`esp_random`), the
32-bit hashes of keys and bodies do not collide, and a client names a
sequence it has read.

### Device, LifecycleSupervisor, StatusIndicator, ButtonAdapter

| Variable | Code |
|---|---|
| `phase` | before or after `initialize`, `initialized_`, or a loop that returns at once |
| `device` | what `Application` and its parts own: lifecycle, time left of service mode, indicator, button, active configuration, `modbusAvailable_`, web server, `restartPending_` and the age of the request |
| `stored` | the configuration in flash |
| `level`, `gap` | the pin of the button, and the ticks since the last `update` |
| `history` | for the properties: how long the button was down, and the lifecycle Restarting |

`Boot` is `initialize`, ended by one of six fatal failures, or with any set of the
six that leave the device degraded, or by a watchdog that does not register.
`Update` is one call of `update` with its parts in the order of the code: service
mode, a web request, the Modbus poll, the button, the command line, the
indicator, the watchdog, the start and the end of the drain. One outside
activity falls into each update. Between updates `Tick` lets time pass, at most
`MaxGap`, and `MoveButton` moves the button as often as it likes, so presses
and releases are missed, bounce, and span a restart. Ages that the code takes as
differences of times are held at the largest value they are compared with.

### WebAccess

| Variable | Code |
|---|---|
| `store` | the two slots of `NvsWebSecurityStore`: the one `load` takes and the other |
| `security`, `sessions` | `record_` with `initialized_`, and `sessions_` |
| `config` | `web.securityProvisioned`: in use, in flash, and in doubt after a failed save |
| `web`, `queue`, `loop` | the server, queued requests to save a user, the half of a two-store operation the loop is in |
| `history` | for the properties: whether users were erased, and a two-store operation completed |

A call of `WebSecurityService` holds the mutex throughout, so it is one step of
the HTTPS task or of the loop. The operations that change both stores are two
steps with `Restart` between them: `Provision` and `SetFlag` or `ProvisionFails`,
`FactoryReset` and `ResetConfiguration`, `EraseUserConfiguration` and
`EraseUsers`. A save may leave the store as it was, torn, written but reported as
failed, or written. Each route of the web server is a constant: the permission it
asks for and whether it is a mutation. Tokens, passwords, rates, origins and CSRF
are left out; whatever they refuse is a step not taken.

### Services and the six modules under it

The six keep one record each and interact with the rest of the firmware only by
what their modules leave open, and not with one another. `Services` therefore puts
one of them on the bench for a whole behaviour and leaves the others at a fixed
state, which explores each of them completely without their product.

- `EventStream` (`stream`): `publish` and `read` of the journal, `clients_` and
  `pendingAuthorizations_`. `sendMessage` blocks, so `publishEvents` is split into
  `StartSending` and `EndSending` and the HTTPS task opens, closes and reuses slots
  in between. `due` is what the client can still account for, known only to the
  model.
- `DiagnosticCounters` (`counting`): the counters in RAM, their dirty mark, the
  two slots and the marker. `Persisted` is the set of ends of a write: nothing,
  torn, written, or written with the marker; power may fail at each.
- `ConfigurationFiles` (`files`): primary, backup and staging bundle, and the copy
  under way, section by section. A section is the number of the `store-config`
  that wrote it, which is what tells bundles apart.
- `ModbusServer` (`modbus`): a request that nanomodbus hands over (`WithinLimits`) is
  read by `ReadAnswer`, which tests the room for its values before its range, or
  parsed by `ParseCoilWrite` or `ParseHoldingWrite` and carried out by a gateway, which
  refuses it for a locked channel, a full queue, a restart or a failed save. A
  `ReadWrite` is function 0x17: first the write, then the read, which is only readable
  or not. The answer is written in a step of its own, which may fail and ends the
  service. `done` is the batch carried out, if any, known only to the model.
- `KnxBus` (`knx`): per channel the relay, and what `publishedSequences_`,
  `statusPublished_` and `faultPublished_` say of it. A poll handles one telegram
  and publishes at most one object, by priority.
- `NetworkManager` (`network`): the enabled profiles, the state, the timers as
  ages, the access point and the scan. `UpdateNetwork` runs the statements of
  `update` in their order; requests change profiles and connect.

## 3. Runs

| Run | Checks | Instance |
|---|---|---|
| `relay_control` | type; `SnapshotTruthful`, `LockoutFlagExact`, `SafetyReserveHeld`; `BatchAllOrNothing`, `LockedNeverSwitchedOn`, `FaultLatched`, `SequenceCountsTransitions` | 3 channels, queue of 3 with 1 reserved, saturation at 2 |
| `relay_factory_reset` | counterexample to `FactoryResetForcesOff` | same |
| `relay_rollback` | counterexample to `LockedOutputStaysOff` | same |
| `config_store` | type; `GenerationNamesConfiguration`, `RecordSurvives`, `ContractKept` (refinement) | 3 configurations, 1 web client, generations to 3 |
| `config_tie` | counterexample to `SavedIsDurable` | same |
| `web_commands` | type; `AtMostOnce`, `RecordTruthful`, `NoResultLeak`, `CommandsAnswered` (liveness) | 2 keys, 3 ids, tracker of 2, queues of 1, sequence to 1 |
| `web_stale` | counterexample to `StaleWritePrevented` | relay queue of 2, sequence to 2 |
| `web_retention` | counterexample to `ResultRetained` | clock of 16, retention 4, lag 1 |
| `device` | type; `LifecycleTellsLoop`, `DrainExact`, `FactoryResetNeedsHold`, `BootHoldIgnored`, `CommissioningShown`; `ServiceNeedsPresence`, `TransportChangeRestarts` | updates up to 2 ticks late; debounce 1, holds 2 and 4, service 2, drain 2; 2 transports |
| `device_fault` | counterexample to `CriticalFaultShown` | same |
| `access` | type; `AdministratorKept`, `SessionsCurrent`, `ErasedStaysErased`, `ProvisionedUsable`; `IdentityPreserved`, `OnlyAdministratorsPromote` | 2 users, 2 sessions, 2 identities, queue of 1 |
| `services` | type; `StreamFaithful`, `CountsKept`, `BundleSurvives`, `ModbusAnswerExact`, `ModbusOutageShown`, `KnxToldState`, `RetryBounded` | see below |

Why these bounds are enough to be interesting:

- Three channels are the fewest with a batch that fails after two writes, so that
  one rollback write can work and another fail, next to a channel the batch does
  not name. Three queue slots with one reserved fill up with and without the
  reserve. A saturation bound of 2 is reached and passed. The requests include a
  toggle, a two-channel and an all-off batch, a safety batch and one that names a
  channel twice; a batch is refused, succeeds or fails at each of its commands.
- Three configurations tell the default, the one that was stored and the one
  refused apart. Generations to 3 allow two saves in doubt in a row, and reach
  saturation. c2 and c3 are interchangeable (`SYMMETRY`); the default is not, and
  no liveness is checked in that run.
- Two keys compete for the one place in each queue while a third id is still
  held by a result; the tracker and the result slots fill. `MaxSequence` 1
  bounds the transitions explored: an execution that would exceed it is not
  taken, which is why deadlock is not checked there. A stopped server and a
  halted loop also have nothing left to do.
- In `WebRetention` the wrap of the clock, the expiry boundary and a reading one
  millisecond old all occur; the lag is far below the retention, as on the
  device (`MaxLag` allows for it in the property).

- In `device` an update can be later than the debounce and as late as service mode
  lasts and as the whole drain; a hold takes two updates at least, and the two holds
  differ. The profile is a production one, so that the lock of a provisioned device
  is met.
- In `access` two users are an administrator and one that is promoted, demoted or
  disabled; two sessions belong to one user or to two; the second identity is the
  one that a careless provisioning would make. Sessions and identities are
  interchangeable (`SYMMETRY`), and no liveness is checked.
- In `services`: a journal of 2 overflows within 4 events, with 2 clients whose
  slots are reused. Counters to 2 and generations to 3 saturate. Three sections
  have one written, one being written and one not, and a second `store-config`
  runs over the first. Two KNX channels differ in every setting. Two WiFi
  profiles alternate, with a retry delay that doubles to its limit and timeouts
  that are passed. Deadlock is not checked: the event stream ends at its last event.
- The Modbus addresses of `services` lie before, on and behind the borders of the
  blocks, with values below, at and beyond what a register takes. There are 2 relays: a
  read of 3 has no room, a write of 2 fits or leaves the block, and one, both or none of
  the channels is locked. Two places of the queue tell a batch of two commands, which
  takes one, from two batches. The limits of nanomodbus and the end of the address space
  are far beyond these requests; only the proof speaks of them.

Every property of a passing run is broken by a slip kept beside the code it
alters (operators marked "Slip"), listed under "mutants".

## 4. Where code and documents disagree

Each is a run whose expected result is a counterexample.

1. **Factory reset with an output on** (`FactoryResetForcesOff`,
   `relay_command_service.cpp:58`). A rollback whose writes all fail leaves a
   channel on with a snapshot of Off and a fault; `execute` then finds nothing to do
   and the lockout is accepted. The reset goes on to erase, with the relay on,
   against `design/relay-safety-policy.md:37`.
2. **Rollback switches a locked-out output on** (`LockedOutputStaysOff`,
   `relay_command_service.cpp:143`). The rollback restores the applied state even
   for a channel whose output state had become uncertain, against
   `docs/architecture/system.md:505`.
3. **A reported save can be undone by a refused one** (`SavedIsDurable`,
   `nvs_settings_store.cpp:789`). `save` breaks a tie of generations by the marker
   and `load` does not.
4. **`expectedSequence` does not prevent a stale write** (`StaleWritePrevented`,
   `web_command_tracker.cpp:57`), against `docs/protocols/web-api.md:153`.
5. **A result may be dropped at once** (`ResultRetained`,
   `web_command_tracker.cpp:106`): two tasks, two readings of the clock, one
   unsigned difference.

6. **A critical fault of the watchdog is never shown** (`CriticalFaultShown`,
   `application.cpp:579`). `handleWatchdogFailure` sets the flag and stops the loop
   that would write the light, against `docs/architecture/system.md:488`.
`web_commands` also makes two exceptions visible that the documents do not
name: a command still queued when a factory reset or a watchdog failure clears
the relay queue is never answered, and after a failed restore plan or a watchdog
failure the server goes on accepting commands that nothing executes.

Differences that no run demonstrates, because the models take the code's side:

- `docs/architecture/network.md:124` wants the recovery access point when all
  profiles have failed. `beginNextProfile` opens it only when no profile is enabled,
  so a device whose profiles are all out of reach tries them in turn for ever.
- With no enabled profile, a recovery access point that has timed out is opened again by
  the next update (`network_manager.cpp:118-123`, `258`), although
  `docs/architecture/network.md:142` lets it time out.
- Modbus function 0x17 is not documented (`docs/architecture/system.md:395`), and line 402
  there wants Illegal Function for it. nanomodbus serves it with the callbacks of
  functions 0x10 and 0x03 (`modbus_rtu_adapter.cpp:507`, `512`): it carries out the write
  (`nanomodbus.c:1589`), and when the registers to be read are not readable the client
  is then told Illegal Data Address, although the relays are switched or the transport
  is reconfigured. `ModbusAnswerExact` names this case, `WrittenThenRefused`, and excepts
  it; every other refused request changes nothing.
- A Modbus read of more coils or discrete inputs than there are relays answers Server
  Device Failure (`modbus_register_map.cpp:24`, `363-368`, `modbus_rtu_adapter.cpp:445`),
  where `docs/protocols/modbus.md:136` has Illegal Data Address.
- A Modbus write that would switch a locked channel on answers Server Device Failure
  (`switching_policy_service.cpp:137`, `error_mapping.h:26`), where
  `docs/protocols/modbus.md:137` has Illegal Data Value for an action that the policy
  rejects.
- A KNX channel with status after startup off does not tell a change that was made while
  the bus was away (`knx_adapter.cpp:204`), against `docs/protocols/knx-ip.md:191` and
  `:202`; `KnxToldState` excepts it.
- `docs/architecture/network.md:123` wants an exponential backoff.
  `attemptStartedAtMs_` is old when a connection that lasted is lost, so the same
  update takes the attempt as timed out and begins a profile at once; the delay
  that doubles is not waited for.
- `applyCommittedConfiguration` starts a profile without asking whether the network
  is enabled, and `load-config` does not tell the manager anything: a network that
  was disabled and enabled again stays disabled until a WiFi request or a restart.
- A client slot that is freed and taken while the loop is sending to it makes the new
  client miss its first event without a resync.
- The half of a provisioning that fails after its first store loses the identity
  of the device, and may leave it provisioned without an administrator.

## 5. Fairness

Only `WebCommands` states fairness; the properties of the other modules are safety
properties. What must happen in time is stated there as a bound instead, which needs no
fairness: `DrainExact` counts the ticks of a restart and `RetryBounded` those without
an attempt to connect, and updates are at most `MaxGap` apart.

- `WF(Enqueue \/ Reject)`: a handler that has begun runs on; nothing blocks it
  but two mutexes that are held for a bounded loop.
- `WF(Submit \/ Report \/ Complete)`: the same for the loop inside one `update`.
- `SF(TakeRequest)` and `SF(Execute)`: `loop()` calls `update` for ever, which
  calls `processWebRequest` every time and `processRelayCommand` whenever 10 ms
  have passed. Between them other parts of the loop run and disable both for a
  moment, so weak fairness would be too little; neither can be put off for
  ever, since both are called in a fixed order.

Nothing is assumed of clients, of expiry, or of failures.

## 6. Proofs

Every invariant and every action property that a passing run checks is also a
theorem, for every value of the constants that satisfies the assumptions of the
module; so is the refinement of `ConfigurationContract`. What TLC shows for two
users, three slots or four events holds for any number of them.

| Module | Theorems, and the property each one states |
|---|---|
| `RelayControlProofs` | `TypeCorrect` (`TypeOK`), `SnapshotsAreTruthful` (`SnapshotTruthful`), `LockoutFlagsAreExact` (`LockoutFlagExact`), `ReserveIsHeld` (`SafetyReserveHeld`), `FaultsAreLatched` (`FaultLatched`), `SequencesCount` (`SequenceCountsTransitions`), `LockedChannelsStayOff` (`LockedNeverSwitchedOn`), `BatchesAreAtomic` (`BatchAllOrNothing`) |
| `ConfigurationStoreProofs` | `TypeCorrect`, `GenerationSafe` (`GenerationNamesConfiguration`), `RecordAlwaysSurvives` (`RecordSurvives`), `StoreKeepsContract` (`ContractKept`) |
| `WebCommandsProofs` | `TypeCorrect`, `NoSlotLeaks` (`NoResultLeak`), `CommandRunsAtMostOnce` (`AtMostOnce`), `RecordsAreTruthful` (`RecordTruthful`) |
| `WebAccessProofs` | `TypeCorrect`, `SessionsAreCurrent` (`SessionsCurrent`), `NobodyLockedOut` (`AdministratorKept`), `ErasureLasts` (`ErasedStaysErased`), `StoresAgree` (`ProvisionedUsable`), `IdentitySurvives` (`IdentityPreserved`), `PromotionIsAuthorized` (`OnlyAdministratorsPromote`) |
| `DeviceProofs` | `TypeCorrect`, `LifecycleIsHonest` (`LifecycleTellsLoop`), `DrainIsExact` (`DrainExact`), `ServiceModeShown` (`CommissioningShown`), `FactoryResetIsHeldFor` (`FactoryResetNeedsHold`), `BootHoldIsIgnored` (`BootHoldIgnored`), `ServiceModeNeedsPresence` (`ServiceNeedsPresence`), `TransportChangeIsFollowed` (`TransportChangeRestarts`) |
| `StorageProofs` | `ClientsMissNothingUnawares` (`StreamFaithful`), `ReportedCountsAreKept` (`CountsKept`), `StoredBundlesSurvive` (`BundleSurvives`) |
| `ConnectionProofs` | `ServicesTypeCorrect` (`TypeOK` of all six), `ModbusAnswersTellWhatHappened` (`ModbusAnswerExact`), `ModbusOutagesAreShown` (`ModbusOutageShown`), `KnxIsTold` (`KnxToldState`), `EveryProfileIsTried` (`RetryBounded`) |

All have the same shape. An inductive invariant `IInv` (`StorageInv` and
`ConnectionInv` for the services) holds initially and is kept by every step, with one
lemma per action or per operator the actions share; `Invariance` says so of the
specification; the state properties are conjuncts or consequences of it, and the
action properties follow from it for one step. What each invariant adds to the
properties, and why it is needed:

**RelayControl.** `QueueSafetyPure`: a queued batch that contains a safety command
consists of safety OFF commands only. Without it nothing is known of what an execution
may do to a locked-out channel. A channel changes only through `Commit`, `FailWrite`,
`LockOut` and the restored output of a rollback. A first group of lemmas
(`FailWriteEffect`, `CommitEffect`, `LockOutEffect`) states what each of these does to
one snapshot; a second group (`BatchPerChannel`, `BatchKeepsChannels`,
`StepKeepsChannels`) carries them over a batch and over every action to all channels.
All or nothing needs one more case split: `AcceptedBatch` shows that a batch
whose writes all succeed reaches every target, `RejectedBatch` that one with a failed
write leaves or restores every channel still working (by `RollbackPerChannel`), and
`StepTakesBatch` that nothing but an execution takes a batch off the queue.

**ConfigurationStore.** `SaveInv` says what `save` has established by the step it is
at, `SlotInv` that no slot is more than one generation ahead of the active one and that
a slot ahead holds something in doubt, and `TieInv` is about the one case in which `load`
and `save` take different slots for the active one, two valid records of one
generation: the record that is then not found is among those in doubt. It is what the
refinement needs and what the run `config_tie` shows to be no more than that. The
refinement has one lemma per kind of step (`BootImplements`, `WriteImplements`,
`VerifyImplements`, `MarkImplements`, `PowerCutImplements`); all other steps stutter.

**WebCommands.** Where an active command is decides everything about it. `SentOnce`,
`DueOnce` and `InOnePlace` say that an entry is in at most one of its places: the
HTTPS handler, a request, the loop's hands, the relay queue. `SentTracked`, `DueTracked`
and `HeldTracked` say that there is a record for it, of the same id, still queued and not
yet carried out; `CompleteInv` what the loop knows between `Execute` and `Complete`;
`RequestIds` that a result slot belongs to one request. `AtMostOnce` counts places,
and `CountPlaces` derives it from the three facts that name them.

**WebAccess.** The four state properties are nearly inductive together. What is missing
is what a half-done operation over two stores leaves for its second half (`LoopInv`), what
a completed one has settled (`FlagInv`), that the identity in use is the one in flash
(`IdentityKept`), and that a queued edit was authorized (`QueueInv`).

**Device.** `Held` bounds the time a press has counted by the time the button was really
down, over polls that are up to `MaxGap` late and misread bounces as they come; `ArmedInv`
says that only a press that counts arms a factory reset; `DownSinceBoot` carries a
press over the qualification at boot. `DrainInv` ties the age of the restart request to
the time the lifecycle has been Restarting, and `Sound` says after every part of an update
that the lifecycle is one of a running loop, that a pending restart is a Restarting
lifecycle, and that service mode is shown.

**Services.** Of the event stream, `ClientInv` relates the next event of a client to what
it can account for, in the middle of a blocked send too, and `SessionsApart` keeps two
streams of one session apart. Of the counters, `CountInv` bounds what was reported by what
the next boot finds, through each of the ends a write may have. Of the files,
`JobInv` says how far the copy under way has come, and `StoredInv` that the primary
bundle has no outdated section and is whole unless the backup is good. Of Modbus, the
lemmas `ReadsAreLegal` and `WritesAreLegal` compare the overlapping range checks of
the register map with the documented blocks, for every address and quantity, and
`OverflowIsIllegal` shows that no documented read lacks room. `OutcomeRight` is what a
request may leave; `WriteRight` follows a batch through its gateway, `CoilsRight` and
`HoldingRight` a write, and `OutcomesRight` every request, where the one write that is
refused later is a case of its own. Of KNX, `ChannelTold` is kept by each of the
operations on a channel, and `LinkShown` ties the transport to the faults of its link. Of the network, `WaitInv` bounds the time without a
try by the age of the attempt, and beside the recovery access point together with what
is left until the retry; `InTurn` bounds how often a profile was passed over by how far
the rotation still is from it.

Assumptions. Each module names those on its own constants, as weak as the proofs and the
code allow: numbers are natural, capacities and timeouts positive where the code's
constants are, the reserve no larger than the queue, the relays at most the eight that
the register map has room for. Five more say that the value that
stands for nothing (`NoRecordIsNone` of `ConfigurationStore`, `NoneIsNone` of `WebCommands`, `NothingIsNoData` of `WebAccess`,
`NoClientIsNoMessage` of `EventStream`, `MarksAreNoRecords` of `DiagnosticCounters`) is not
one of the values it is told from; they constrain the choice of model values, not the
firmware. All are evaluated by TLC in the runs.

What stays with TLC. `CommandsAnswered` is liveness under fairness and `ENABLED` is part
of what fairness means, which is out of the prover's reach. The six counterexamples are
runs by nature. The decision table of `RestorePolicy` is finite: TLC evaluates its two
assumptions over all inputs. No module uses a recursive operator.

## 7. What is left out

- Data: names, passwords, JSON, register layouts, telegram payloads, wording,
  logging. Validation is assumed to have succeeded where a configuration is
  staged; a refusal changes nothing.
- `RelayTimerService` and `SceneService`, which nothing in the firmware uses yet.
- `IStorage::erase`, `RelayCommandQueue::processNext` and the release of a
  lockout, which have no caller.
- The web UI, the Python tools, the vendored Modbus code and the KNX stack.
- Counters that wrap after 2^32 events, and the clock in every module but
  `WebRetention`: ages are taken to be right.
- The memory model of unlocked reads between the two tasks. `EventStream` has the
  order of their steps, not torn values.
- Whether the loop switches relays while a restart drains: it does, since the queue is
  served as before, and no document says otherwise. The queue and the drain are in
  different modules.
- A read of flash that fails once although the record is good (`readSlot`,
  `nvs_settings_store.cpp:527-531`): in `ConfigurationStore` a record is unreadable only
  if its write was torn.
- Of Modbus, the identification objects, functions that nanomodbus refuses itself, and
  frames that it discards.
- Commands of the command line and routes of the web server that only show state.

## 8. Plan

Every safety property that is checked is proved. What remains, in this order:

1. A composition of the relay queue with the drain of `Device`: what was queued before a
   restart, and what may still switch a relay on while it drains.
2. Sessions with the event stream: a stream keeps the permissions of the session it was
   opened with after that session has ended.
3. The steps of the argument for `CommandsAnswered` that are safety: that a command
   under way always has a next step, and that each step brings it nearer to its answer.
