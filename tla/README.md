# Formal specifications of the GLP_Presure firmware

TLA+ models of the control logic of the ESP32-S3 LPG tank sensor in `src/`,
configurations that check them with TLC on small instances, and theorems about
them checked by TLAPS. Paths below are relative to `src/src/`.

    tlc -config MCConnectivity.cfg MCConnectivity     check a run
    tlapm ConnectivityProofs.tla                      check the proofs of a module

`PROJECT.json` lists the components, the runs with their properties, a mutant for
every property of a passing run, the source lines of every definition, the
findings, the hazards and the theorems.

## 1. The system

The firmware is one `loop()` (`Presentation/main.cpp`) around a controller with
three states. Everything happens in that thread except the callbacks of two
libraries: the NimBLE host task (GATT writes) and the async_tcp task (HTTP
handlers of the SoftAP portal); the button adds one interrupt.

| Component | State | Operations | Talks to |
| --- | --- | --- | --- |
| `main.cpp` | `g_pendingFactoryUnlink` | `setup`, `loop`, `runPairingWorkflow`, factory unlink | all |
| `FirmwareController` | `state_` (PROVISIONING, CONNECTING, OPERATIONAL) | `setup`, `tick` | connectivity, portals, telemetry, OTA |
| `ConnectivityService` | `activeType_`, `haveLink_` | `connect`, `isOnline`, `ensureConnected` | two links, the transport |
| `WifiLink`, `CellularLink` | the radio, the modem | `connect`, `isConnected` | WiFi library, `sim_module` |
| `Mqttv5Transport`, `mqtt_client` | `begun_`, the client's session, its socket | `connect`, `loop`, `publish`; callbacks | the socket chosen by `NetworkClient` |
| `sim_module` | `_resolvedApn`, `_lastValidRssi`, `_jammingDetected`, the modem snapshot | `initSIM`, probe, samples | TinyGSM, portals, telemetry |
| `nvs_config`, `NvsConfigRepository`, `ConfigService` | NVS namespace, `::config`, `config_` | load, save, reset, `isProvisioned` | every writer of the configuration |
| BLE portal | `_configSaved`, `_rxFrameBuffer`, radios | GATT callbacks, `runQuickPairing` | configuration, button, SmartConfig |
| SoftAP portal | `_apConfigSaved`, web server | HTTP handlers, `runWiFiAPProvisioning` | configuration, button |
| `LanZeroconfServer`, `GpioIndicator` | `running_`, `sequence_`; `sledOnline_` | start and stop with WiFi, requests, UDP discovery, mDNS | configuration, unlink flag, LED |
| GPS (`gps_module`, `TinyGpsProvider`) | last fix, anchor | `feed`, `location` | UART, every service round, telemetry |
| `GpioButton` | debounce counters, interrupt flag | `init`, `update` | main loop, portals |
| `TelemetryService` | publish timer, filters | `loop`, `publishTelemetry` | sensors, GPS, transport |
| `ConsumptionEstimator` | last volume and its time, smoothed rate | `update`, `reset` | telemetry |
| OTA | in-progress flag | library callbacks | telemetry |

Hard behaviour, and what would make each part correct:

* **Connectivity.** Links, the library's own reconnection and the carrier change
  while `connect()` blocks for minutes. The recorded link, the controller's state,
  the socket and the session must agree; a lost link must be noticed; service
  must come back.
* **Configuration.** One unlocked global and one `Preferences` object for three
  threads; a save is 29 separate writes, a load as many reads, and the end of either
  closes the object for the other; power can fail between any two; portals read flags
  once per turn while callbacks go on. The device must operate on what
  is stored, never as provisioned without being so, and never lose a binding but by
  an unlink or BOOT at start-up.
* **Button.** Sampled late, with bounces, re-initialised by the portals in the
  middle of a hold.
* **BLE frames.** Chunks of several writes, connections lost in between.
* **Modem.** Retries that change the APN, a latch set by one call and cleared by two
  others, a snapshot filled by two different functions.
* **Account.** The unlink order comes over three ways (a QoS 1 command on a persistent
  session, the 0x87 reason of a refusal or of a session's end, the LAN) and is a
  flag in RAM until the next turn of the loop. It must be carried out before anything
  else binds the device, and not get lost for good.
* **LAN server.** Runs while WiFi is seen up; its requests change LED, NVS, AppConfig and
  announcement one after another, while the client goes on with what it was given.
* **GPS.** The UART keeps old sentences while the loop is elsewhere; two feeds a round, each
  of which discards the fix of the one before.
* **Telemetry.** `millis()` wraps; publications are suppressed; noise and refills.

## 2. Modules

| Module | Models | Abstract counterpart, proofs |
| --- | --- | --- |
| `Connectivity` | controller's CONNECTING and OPERATIONAL, `ConnectivityService`, transport, socket, links | implements `UplinkSession`; `ConnectivityProofs` |
| `UplinkSession` | what the dual uplink promises: a session runs on one held link, opened and closed, never swapped underneath | |
| `Provisioning` | boot, pairing workflow, portals' saves, LAN updates, unlink, PROVISIONING, NVS and RAM copies | `ProvisioningProofs` |
| `ProvisioningStore` | the same, with the history of what NVS held when a save began | implements `ConfigStore`; `ProvisioningProofs` |
| `ConfigStore` | what the stored configuration promises: a save is one step, a cut one leaves its first keys over the old ones | |
| `PairingButton` | `GpioButton` and who calls it | `PairingButtonProofs` |
| `BleFrame` | `FrameCallback`, `isCompleteJsonObject()` | `BleFrameProofs` |
| `SimModem` | `sim_module.cpp`, the modem snapshot, the samples of each publication | `SimModemProofs` |
| `Telemetry` | `TelemetryService::loop()`, `ConsumptionEstimator` | `TelemetryProofs` |
| `Operation` | `loop()` of the running device in its order, with the configuration and account it works for; composes the next two | implements `Ownership`; `OperationProofs` |
| `MqttSession` | the MQTT client, brokers and account service, as far as unlinking needs them | |
| `LanServer` | `LanZeroconfServer` and the LED setting | |
| `Ownership` | what unlinking promises: an account is given up only to an order, nobody takes over between order and erasure | |
| `GpsFix` | `readGPS()`, `TinyGpsProvider`, the two feeds | `GpsFixProofs` |
| `MC*` | instances for TLC | |

An action is the stretch of code between two points where another thread or the
environment can act. Operators marked *Faulty* are the mutants: what a
plausible slip in that code would be; no action uses them.

**Connectivity.** `pc` is the place of the loop: each blocking call (`wifi`,
`cellular`, `dial`) and each second reading of a link (`ensure`) is a place of its
own. `socket` is the client `initMQTT()` bound, once per boot; `PathUp` says that
what is sent on it arrives. Access point, coverage and broker come and go freely;
a SoftAP visit from the button drops the station.

**Provisioning.** Of the 29 keys those are kept that something is decided by: five texts
(`apn`, `mqtt_broker`, `mqtt_user`, `wifi_ssid`, `bind_token`), `acct_bound` and, written
last, `provisioned`, in the order of `nvs_config.cpp:216-245`. A cut save may therefore
leave half an account, or a new account over an old network. `nvs`, `ram` (`::config`) and
`live` (`ConfigService`) are the three copies. `step[t]` is the next write of thread `t`'s
`saveConfig()`, `read` the next read of a `loadConfig()`; `open` is the shared `Preferences`
object: writes on it are dropped when it is closed or open to read, reads give the default
when it is closed. Only the main loop loads; while no other thread saves, and none can start
to, nobody sees the reads one by one and they are one step (`LoadAtOnce`). Beside a save they
are steps of their own (`BeginLoad` to `EndLoad`). `overlap` records that two threads were in
AppConfig or the object at once: the code has no lock, so most properties about saves hold
only while it is false, and say so; `BindingHeld` shows what may happen otherwise. A power
loss (`Crash`) can fall between any two steps. `setup()` and `FirmwareController::setup()`
call `isProvisioned()` in a row, which is taken as one call (`Answer`).

**ProvisioningStore** adds the variable `before`, what NVS held when the save under way
began, on which no step depends. With it the writes one by one implement `ConfigStore`:
the abstract store still holds `before` while a save runs, and changes at its last write to
all that AppConfig held; a power loss in between leaves one of its `Cuts`: the first texts
in their order, then the binding, then the flag. Once two threads have run into each other
(`overlap`) the abstract store may hold anything until the next start: the code promises no
more.

**PairingButton.** Time in ticks of 25 ms. `update()` credits at most `MaxStep`
ticks a call and leaves the rest to later ones (`lag`, which grows as long as calls are late;
`MaxLag` bounds it for TLC). Histories `held`, `up`, `clear`, `span` and `owed` record what
the finger did and what the sampler was behind then, for the properties. `SureHold` is the
hold that is a long press for sure: the calls that credit 5 s at the least a call may credit,
and one more at each end. Quick Pairing of the initial boot goes on to SoftAP when its time
is over, that of the button back to the loop; each portal initialises the button.

**BleFrame.** Texts are sequences of braces, quotes, backslashes and other symbols, for
which numbers, literals, brackets, colons and commas stand alike. `Scan` is one turn of the
scanner's loop, `After` its run over a text. `parseFrame()` answers OK to objects whose
values fit the `StaticJsonDocument<1024>` of `parseJsonCredentials()` (`Fitting`); of larger
ones, and of texts the app does not send, it may refuse or find Key=Value pairs in them. How
many bytes fit is ArduinoJson's matter, so `Fitting` is a parameter. `fresh` marks a frame
that found no remains of another one and kept no silence. The JSON grammar is given by
operators that make more of what they are given (`MoreBodies`, `MoreContents`): the instance
for TLC applies them a few times, the proofs take the least sets closed under them.

**SimModem.** `initSIM()` is `StartDial` and up to six attempts; the modem is off,
gives no IMSI, or is ready; its PDP context, registration and signal are the
environment's. Volatile APN edits without a restart are included.

**Telemetry.** Volumes in whole units with readings off by one; time modulo `Wrap`.
The smoothed rate is left out: a sample of it is a drop and the time it is
divided by. A fact the module does not turn into a property: a small rise moves the
estimator's timestamp only (`ConsumptionEstimator.h:47`), so the next drop is divided by
less time than it took, against the comment beside it.

**Operation.** `pc` goes through `loop()`: unlink flag and button (`top`), LAN server
(`lan`, `serve`, and `sledSave`, `sledReply` inside the LED request), controller (`tick`).
Of the configuration it keeps whether there is one (`prov`), the account (`acct`: broker,
user and bind token as one) and `sled`. A save is one step here, as in `ConfigStore`, and
a power loss comes before or after it: the cuts are `ProvisioningStore`'s. A pairing may
store an account and an LED setting and restart (`PairByButton`, `PairAtBoot`), end without a
save (`PairingCancelled`), or store while its loop is already leaving without a restart
(`PairingLate`, what `ack_reboot` finds): then `behind` says that LED and announcement have
not followed the store. `edited` says that AppConfig holds what a BLE client wrote and did
not save; the session and the proofs use that until something loads the store again. A tick
of the controller is one thing: nothing (`Idle`, the link may be down), a dial, the library's
own redial, or what a live session delivers.

`home` gives each account its broker. The service links the device to an account and unlinks
it at any time, with no part of the firmware in it (`ServiceLinks`, `ServiceUnlinks`): before
or after the pairing it belongs to. A broker admits the linked account, answers 0x87 with a
proof to one it knows as unlinked, keeps the command for a subscribed session until it is
acknowledged or an hour is over, and sends it again when the session broke before the
acknowledgement. The proof in a command names the device, not the account
(`nvs_config.cpp:102`): a command that waited while the device was paired anew unlinks the
new owner, in the code as in the model, so there is no property that an order takes the
account it was meant for.

**GpsFix.** Places are tens of metres on a line, so that 30 m and 50 m are 3 and 5.
`away` is anything the loop does between two service rounds, minutes of dialling
included; a sentence becomes `old` when a round starts after it was received. Only
sentences with a fix are modelled: the others change nothing that is read.

## 3. Runs

Passing:

| Run | Shows | Bounds, and why they are enough |
| --- | --- | --- |
| `connectivity` | `IInv`; refinement of `UplinkSession`; a lost link is noticed; service resumes while the socket's link is there | one SoftAP visit; everything else is unbounded. A visit leaves no trace but a dropped station |
| `provisioning` | `StoreInv` (`IInv` with the history); refinement of `ConfigStore`; the device operates on what is stored and only provisioned; the flag is raised over a whole configuration; what was acknowledged is stored; bindings survive while threads keep apart | one text besides the empty one, frames with broker, user and SSID, and a user emptied by a characteristic; one power loss, because everything but NVS starts anew: a second one meets the states the first one left |
| `pairing` | a verified unlink is carried out (unless a SoftAP handler that outlived its portal closes the namespace under the erasure); every pairing session ends | frames with a network, which may bind the account too, and a characteristic with it; one power loss, which ends the obligation to carry out an order and starts another pairing |
| `button` | `IInv`; a hold of `SureHold` is a long press; a long press comes no sooner than its time after the button fell, less what the sampler owed then; one event per hold | the real debounce, long press 4 ticks, release wait 2, 2 ticks credited a call, calls up to 5 apart and a backlog of 20: each counter passes its threshold late and in time, and the backlog is longer than a long press |
| `frames` | `IInv` (the buffer is bounded and holds only beginnings); the scanner sees an object end at its last symbol and no sooner; a frame that finds the buffer clean is handed on as it was sent however it is cut, and answered, with OK if it fits the parser | the objects of up to 6 symbols that hold one item, or an object with one item: a string of one character, escaped or a brace, among them, some fitting the parser and some not; writes up to 3, buffer 6, silence 1: it overflows, expires and keeps remains. Longer and deeper objects are the proofs' |
| `telemetry` | `IInv`; the timer never fires early and never sticks; noise is not rectified | `Wrap` 6, interval 2: the clock wraps many times; a tank of 3 units with a refill |
| `operation` | `IInv`; refinement of `Ownership`; the stored account is dialled; an unlinked device gives its account up some time; LED, store and announcement agree unless a portal stored a setting and did not restart | two accounts on one broker: an obligation to give an account up is that of a device whose client is at the broker of the account, and what is said of several brokers is proved; one account left behind by cancelled edits; one power loss (everything but NVS and the outside starts anew, and pairings restart the device without bound) |
| `gps` | `IInv`; a still tank stays at one place; published fixes are of the round; a relocation is reported | a tank at 0, 40 or 60 m, readings up to 10 m off, a UART of two sentences: one old and one new, or full; distances below, between and beyond both thresholds |
| `modem` | reported APN is the one in use; both APNs are tried; alarm ends with coverage | two APNs (configured and carrier's, equal or not); a signal on each side of every threshold; 0 reads as 99 does |

Violations: each states what the repository says and TLC shows the code do
otherwise.

| Run | Statement | What happens |
| --- | --- | --- |
| `fallback` | README: automatic fallback to 4G/LTE | the MQTT socket is bound once per boot: a device that booted on WiFi dials the broker through the WiFi client for ever |
| `ack_reboot` | README: SAVE persists and reboots | a save that ends while the loop leaves by timeout or button is stored, answered OK, not followed by a restart: at the initial boot `setup()` goes on with it, a pairing of the button returns to the loop |
| `torn_load` | README: `acct_bound` persists until a verified unlink | a SoftAP handler that outlives its portal ends its save between two reads of the next `loadConfig()`: the closed object gives `acct_bound` as false, and the next save stores that |

Five more disagreements were met while modelling and have no run:

* A LAN adoption does not take (`Mqttv5Transport.cpp:10`, against the `adopt_only` of the
  README): a device paired with WiFi only has begun its client with an empty broker name, and
  the account then stored over the LAN is dialled at that name until somebody switches the
  device off. It is the flag of `fallback`, `begun_`, that is never lowered.
* A tap that starts the sampler, a blocked loop and a short press at its end open Quick
  Pairing without a hold of 5 s, when the next calls of `update()` are less than 100 ms apart
  (`GpioButton.cpp:53`); `LongPressNeedsHold` subtracts that backlog.
* A JSON frame of up to 2048 bytes is put together, and refused when its values do not fit
  the parser's document of 1024 (`ble_provisioning.cpp:149`); `Delivered` speaks of those
  that fit.
* A portal that stores an LED setting while it leaves without a restart leaves the LED on
  the old one (`main.cpp:123`); `SledAgrees` exempts it (`behind`).
* The unlink command of an earlier owner hits the next one (see `Operation` above).

A SAVE with nothing configured makes the portal report success over an
unprovisioned device (`ble_provisioning.cpp:401`); that is listed as a hazard, and
`OperatesProvisioned` shows that such a device still does not go into operation.

What the button promises has limits. `update()` credits 4 ticks (100 ms) a call, and
one `readGPS()` of OPERATIONAL blocks 200 ms: there the time credited is half of the time
that passes, and `HoldIsNoticed` promises a long press only after `SureHold` = 8 * (50 + 2)
ticks, 10.4 s, where the README of the repository asks for more than 5. And
`OneEventPerHold` excepts a hold during which a portal called `init()`: letting go more than
3 s after the hold that opened Quick Pairing is then a short press, which cancels it
(`GpioButton.cpp:20`).

### Fairness

* `Connectivity`: `loop()` runs for ever (weak fairness of the loop's step); a station
  that was started associates with an access point that stays; the keep-alive of
  60 s ends a dead session. Nothing is assumed of access point, carrier or broker.
* `Provisioning`: portals have timeouts and restarts happen (weak fairness of
  `MainStep`, which holds no user action); a thread in `saveConfig()` goes on. LAN requests
  do not keep the loop from its next turn, which looks at the unlink flag (`Unlink`, strong).
* `SimModem`: each attempt ends; publications come again and again, though not while
  `initSIM()` blocks, hence strong fairness of `Sample`.
* `Telemetry`: time passes and the loop runs.
* `Operation`: the loop goes on (`LoopStep`, weak); somebody who holds the button or a
  device that restarts does not keep it from its next turn for ever (`Pass`, strong); a
  device that dials again and again is answered some time, and a broker that knows an
  account as unlinked ends its session some time (`Reach`, `Kicked`, strong). Nothing
  is assumed of commands: they may expire.
* `GpsFix`: rounds go on, 200 ms pass whatever comes in, telemetry is due again and again
  (`PublishesAgain` of `Telemetry`). That sentences fall into the 200 ms before a
  publication is no fairness but the premise of `RelocationReported`: a receiver that
  speaks once a second may miss them, and the code then publishes no position.

## 4. Proofs

Theorems hold for every value of the constants that satisfies the module's named
`ASSUME`.

* **`ConnectivityProofs`** (`MaxVisits` natural). `IInv` is `TypeOK` with two facts
  types do not give: each place of the loop is reached only in its state with a
  recorded link and bound socket (`ControllerAgrees`), and nothing is connected
  without a carrier. `ImplementsContract` maps the abstract link to the recorded one
  and the session to OPERATIONAL; `IInv` is needed because a dial may only open a
  session on a held link.
* **`ProvisioningProofs`** (what may be sent are texts the store can hold). `IInv` says where
  each thread can be saving and that a load beside a save is known to the history
  (`SavesInPlace`), that AppConfig does not forget a stored binding while threads keep apart,
  that pairing from the button leaves the controller's copy alone, and that without overlap
  the object stays open to the one save there is and what it has written equals AppConfig
  (`SavedPrefix`). From it follow `BindingSurvives`, `ProvisionedWhole`, `AckedIsStored`,
  `OperatesOnStored`, `OperatesProvisioned` and `OrderKept`. Without the prefix clause the
  last write could raise the flag over a configuration that was not written. `StoreSafety`
  adds what it says of the rest: the keys a save has yet to write are those of `before`
  (`SaveIsPrefix`), without which a cut could leave anything. From it `ImplementsTheStore`
  follows: the abstract store is `before` and its save AppConfig while a save is alone, NVS
  and nothing otherwise; each step begins, commits, cuts or collides, or leaves both as they
  are; `WrittenIsCut` says that what is written before a key is one of the cuts.
  `HistoryOnly` says that what is shown of the specification without `before` holds of the
  one with it. `AckedIsStored` is about every thread's save, those of LAN requests and
  SmartConfig too: it is what lets `Operation` take a save for one step.
* **`SimModemProofs`** (`Empty` is no APN, signals are naturals). `IInv` adds that
  inside `initSIM()` the reported name is the one being dialled and the first choice,
  and from the second failure on the carrier's APN, are tried or being tried:
  only so does giving up at the sixth failure imply that both were.
* **`BleFrameProofs`** (frames and writes fit the buffer). That the buffer keeps its limit
  and holds only the beginning of an object needs nothing of `isCompleteJsonObject()` but
  that it is a function of the text (`BufferBounded`, `OnlyBeginnings`). `ObjectsEndOnce` is
  about that function alone: of every object of the JSON grammar, however long and deep, it
  sees the end at the last symbol and no sooner. The contents of objects are the least set
  closed under the grammar (`Contents`; `Bodies` those of strings); `ContentsPass` shows
  that scanning one from depth `d` ends at depth `d` without ever falling below it, as texts
  with this property are closed in the same way, and `StringPasses` that nothing inside a
  string counts. `GrammarCloses` says that the two sets are closed themselves: the frames of
  the run, made by the same operators, are among `JsonObjects`. `WholeFrameIsAnswered`
  (`Delivered`) says OK of the objects that fit the parser and an answer of all. It,
  `ScannerSeesTheEnd` (`FramesEndOnce`) and `Safety` assume that the app sends such objects,
  `Frames \subseteq JsonObjects`. This is a hypothesis of the theorems and no `ASSUME` of
  the module, for TLC cannot evaluate a set with members of any depth. `IInv` adds to the
  buffer's part that of a frame which found no remains the buffer is exactly what was
  written (`Assembling`), so that a piece is joined to its own predecessors and to nothing
  else.
* **`PairingButtonProofs`** (the debounce time is no longer than what a call may credit nor
  than a long press; all other numbers are free). `IInv` relates the counters to what the
  finger did. `HoldIsCredited` compares ticks credited with ticks held at the rate `Credit :
  MaxBlock`: multiplied out, so that it holds for any distance between calls, and strict, so
  that `SureHold` is enough. `CreditIsSpan` is the other direction: what is credited and
  what is still owed is no more than the time since the button fell and what was owed then,
  from which a long press needs its time less that backlog; `HoldIsSpent` says where a hold
  that gave its event can be until the pin falls again, which gives one event per hold.
* **`TelemetryProofs`** (the interval with the longest block fits the clock; a refill is a
  rise beyond the errors of two readings). `TimerMeasures`: until the history `since` is
  capped, the unsigned difference of the clock is the time that passed; a lemma carries it
  through the wrap. `VolumeExplained` bounds the sum of what was counted and the volume the
  estimator compares with, by what was drawn and is left; a volume below the tank by more
  than an error was left there by a refill, which pays for the two errors it may add.
  `NoiseNotRectified` alone is not inductive: nothing in it relates the next drop to what
  was counted before.

* **`OperationProofs`** (`None` is no account and no broker). `IInv` adds to the types what
  holds at the places of the loop: an order waits only for the end of its tick, AppConfig
  is the store unless edited, the server runs where it serves, a session has a broker; and
  that LED, store and announcement agree, but for a setting a portal stored without a restart
  (`behind`). `ImplementsOwner` maps
  the owner to the stored account, the orders to queued commands, unlinked accounts and
  the LAN client's request: a pairing may only bind while no order is received, which is
  the part of `IInv` about the places.
* **`GpsFixProofs`** (readings less than 25 m off: beyond that two readings of a still
  tank may lie 50 m apart). `IInv` says that after the first feed nothing old is left,
  and that all a still tank gives, the anchor included, is within the error of it; two
  of those are then within twice the error, below the threshold.

Every invariant and every action property of the passing runs is a theorem, and so is
`OrderKept`, the part of `UnlinkHonoured` without eventuality. What the
scanner computes of a text is shown by induction over the text: the library's induction
theorems take an operator, which the provers cannot instantiate, so `Induction` states it of
sets of numbers (it rests on the least element of a set, `WFMin`), and `ByAppending` of sets
of texts. Only model-checked is every liveness property (`LostLinkNoticed`,
`RecoversOnSocketLink`, `UnlinkHonoured`, `PairingEnds`, `PublishesAgain`, `AlarmEnds`,
`UnlinkReleases`, `RelocationReported`): the provers know neither fairness nor `ENABLED`.

## 5. Not modelled

* Floating point: sensor fusion, EKF, thermodynamics, calibration, health, the
  smoothed rate, the haversine. No control state, out of TLC's reach.
* Crypto (MD5, AES, SHA-256): black boxes; a verified order is just that.
* Wording: HTML, JSON answers, advertisements, credential mode and configuration state,
  logs, serialised telemetry; sequence numbers and encryption of the LAN answers.
* The blink patterns of the indicator: a table played back, without feedback.
* Dead code: remote configuration (no caller; the message sink is never registered),
  the legacy SmartConfig portal; the flag of `/zeroconf/ota_unlock`, which nothing reads.
* What libraries decide: how HTTP bodies are cut, how much memory JSON documents take,
  whether an abandoned OTA transfer is reported, the will. The hazards they pose are
  listed in `PROJECT.json` with that reason.
* A flash that cannot be opened or written.
* Libraries (NimBLE, async web server, ESP32_MQTTv5, TinyGSM, TinyGPS++, MQTTOTAv5):
  modelled from how `src/` uses them, where needed, and marked external in `PROJECT.json`.

## 6. Left open

* The portals' credential modes over the snapshot of `SimModem` and the stored account.
* The rate's denominator in `Telemetry`: what a drop is divided by when small rises
  moved the timestamp.
