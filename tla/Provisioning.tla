---------------------------- MODULE Provisioning ----------------------------
(***************************************************************************)
(* The life of the configuration: boot, the two-stage pairing workflow of  *)
(* main.cpp, the controller's PROVISIONING state, the BLE and SoftAP       *)
(* portals, factory unlink and LAN updates, over one NVS namespace, one    *)
(* unlocked global AppConfig and one unlocked global Preferences object.   *)
(*                                                                         *)
(* Three threads touch them: the main loop ("main"), the NimBLE host task  *)
(* ("ble") and the async_tcp task ("ap"), whose callbacks run while the    *)
(* main loop polls a flag, a button and a clock. saveConfig() is a series  *)
(* of NVS writes that a power loss, a restart or another thread can cut;   *)
(* loadConfig() is a series of reads that another thread's end() can cut.  *)
(*                                                                         *)
(* Of the configuration the fields are kept that something is decided by:  *)
(* five texts, whether the account is bound, and the flag written last.    *)
(* Port, passwords, geometry and calibration are left out.                 *)
(***************************************************************************)
EXTENDS Naturals

CONSTANTS Values,      \* what a text can be
          Empty,       \* no text
          Local,       \* "127.0.0.1", a broker that does not count as one
          Forms,       \* what a frame, a form or a request may carry; Empty: left out
          Entries,     \* what may be written to a BLE characteristic: <<text, value>>
          MaxCrashes   \* bound: power losses

\* The texts, in the order of saveConfig() and loadConfig(), and the two flags
\* written after them.
Apn      == 1
Broker   == 2
User     == 3
Ssid     == 4
Token    == 5
Texts    == 1 .. 5
BoundKey == 6
ProvKey  == 7
LastPut  == ProvKey

ASSUME ProvisioningAssumption ==
    /\ Empty \in Values
    /\ Forms \subseteq [Texts -> Values]
    /\ Entries \subseteq Texts \X Values
    /\ MaxCrashes \in Nat

VARIABLES
    nvs,       \* the "glp-config" namespace
    ram,       \* ::config (AppConfig)
    live,      \* ConfigService::config_, and what isProvisioned() said at the time
    pc,        \* where the main loop is
    mode,      \* who runs the portals: "initial" boot, "button" or "controller"
    result,    \* how Quick Pairing ended
    saved,     \* [ble |-> _configSaved, ap |-> _apConfigSaved]
    pending,   \* g_pendingFactoryUnlink
    step,      \* the next write of each thread's saveConfig(); 0 when it has none
    read,      \* the next read of a loadConfig() that runs beside a save, or 0
    open,      \* the shared Preferences object: "closed", or open to "read" or "write"
    crashes,   \* power losses so far
    overlap,   \* history: since boot, threads used AppConfig or Preferences at once
    acked,     \* history: since boot, a portal answered "OK" to the user
    lanSaved   \* history: since boot, a LAN request changed NVS

storeVars   == <<nvs, ram, live>>
mainVars    == <<pc, mode, result>>
saveVars    == <<step, read, open, overlap>>
historyVars == <<crashes, acked, lanSaved>>
vars == <<storeVars, mainVars, saved, pending, saveVars, historyVars>>

Portals == {"ble", "ap"}
Threads == Portals \cup {"main"}

Blank   == [k \in Texts |-> Empty]
Cleared == [text |-> Blank, bound |-> "none", prov |-> FALSE]
Factory == [text |-> Blank, bound |-> FALSE]

Places == {"boot", "bleLoad", "ble", "bleExit", "bleOff", "apLoad", "ap", "apExit",
           "resume", "ask", "oper", "lanLoad", "lan", "lanMdns", "erase", "reboot"}

NvsStates == [text : [Texts -> Values], bound : {"none", "no", "yes"}, prov : BOOLEAN]
Configs   == [text : [Texts -> Values], bound : BOOLEAN]
Copies    == [text : [Texts -> Values], bound : BOOLEAN, prov : BOOLEAN]

DataOK ==
    /\ nvs \in NvsStates
    /\ ram \in Configs
    /\ live \in Copies

SavesOK ==
    /\ step \in [Threads -> 0 .. LastPut + 1]
    /\ read \in 0 .. BoundKey + 1
    /\ open \in {"closed", "read", "write"} /\ overlap \in BOOLEAN

FlowOK ==
    /\ pc \in Places
    /\ mode \in {"initial", "button", "controller"}
    /\ result \in {"none", "provisioned", "timeout", "cancel", "softap"}
    /\ saved \in [Portals -> BOOLEAN]
    /\ pending \in BOOLEAN
    /\ acked \in BOOLEAN /\ lanSaved \in BOOLEAN
    /\ crashes \in 0 .. MaxCrashes

TypeOK == DataOK /\ SavesOK /\ FlowOK

\* A device as it leaves the factory.
Init ==
    /\ nvs = Cleared /\ ram = Factory
    /\ live = [text |-> Blank, bound |-> FALSE, prov |-> FALSE]
    /\ pc = "boot" /\ mode = "initial" /\ result = "none"
    /\ saved = [p \in Portals |-> FALSE] /\ pending = FALSE
    /\ step = [t \in Threads |-> 0] /\ read = 0 /\ open = "closed"
    /\ crashes = 0
    /\ overlap = FALSE /\ acked = FALSE /\ lanSaved = FALSE

Saving(t) == step[t] # 0
AnySaving == \E t \in Threads : Saving(t)

\* hasValidBrokerCredentials()
HasBroker(text) == text[Broker] \notin {Empty, Local} /\ text[User] # Empty

HasNetwork(text) == text[Ssid] # Empty \/ text[Apn] # Empty

IsProvisioned(n) == n.prov /\ (n.bound = "yes" \/ HasNetwork(n.text))

\* Faulty: a rebooted device forgets that its account was bound.
LoadedUnbound(n) == [text |-> n.text, bound |-> FALSE]

\* loadConfig(); devices saved by older firmware have no "acct_bound" key.
Loaded(n) ==
    [text |-> n.text, bound |-> n.bound = "yes" \/ (n.bound = "none" /\ HasBroker(n.text))]

\* ConfigService::load(): AppConfig c, and what isProvisioned() says.
Copied(c, ok) == [text |-> c.text, bound |-> c.bound, prov |-> ok]

Snapshot(n) == Copied(Loaded(n), IsProvisioned(n))

\* Preferences::begin() on an object that is open changes nothing.
Begun(as) == IF open = "closed" THEN as ELSE open

(***************************************************************************)
(* saveConfig() by thread t, on AppConfig c.                               *)
(***************************************************************************)
BeginSave(t, c) ==
    /\ ram' = [c EXCEPT !.bound = @ \/ HasBroker(c.text) \/ c.text[Token] # Empty]
    /\ step' = [step EXCEPT ![t] = 1]
    /\ open' = Begun("write")
    /\ overlap' = (overlap \/ AnySaving)
    /\ UNCHANGED read

Configured(c) == c.bound \/ HasBroker(c.text) \/ HasNetwork(c.text)

\* Faulty: "provisioned" is written first.
ValueOfEarly(k) ==
    CASE k = Apn      -> [nvs EXCEPT !.text[k] = ram.text[k], !.prov = Configured(ram)]
      [] k \in Texts \ {Apn} -> [nvs EXCEPT !.text[k] = ram.text[k]]
      [] k = BoundKey -> [nvs EXCEPT !.bound = IF ram.bound THEN "yes" ELSE "no"]
      [] k = ProvKey  -> nvs

\* Faulty: the SSID is written where the broker should be, and the other way round.
ValueOfSwapped(k) ==
    LET i == CASE k = Broker -> Ssid [] k = Ssid -> Broker [] OTHER -> k
    IN  CASE k \in Texts  -> [nvs EXCEPT !.text[i] = ram.text[i]]
          [] k = BoundKey -> [nvs EXCEPT !.bound = IF ram.bound THEN "yes" ELSE "no"]
          [] k = ProvKey  -> [nvs EXCEPT !.prov = Configured(ram)]

\* Faulty: "acct_bound" is not written.
ValueOfNoBound(k) ==
    CASE k \in Texts  -> [nvs EXCEPT !.text[k] = ram.text[k]]
      [] k = BoundKey -> nvs
      [] k = ProvKey  -> [nvs EXCEPT !.prov = Configured(ram)]

\* The namespace after the k-th write.
ValueOf(k) ==
    CASE k \in Texts  -> [nvs EXCEPT !.text[k] = ram.text[k]]
      [] k = BoundKey -> [nvs EXCEPT !.bound = IF ram.bound THEN "yes" ELSE "no"]
      [] k = ProvKey  -> [nvs EXCEPT !.prov = Configured(ram)]

\* A write on an object that is closed, or open to read, is silently dropped.
Put(t) ==
    /\ step[t] \in 1 .. LastPut
    /\ nvs' = IF open = "write" THEN ValueOf(step[t]) ELSE nvs
    /\ step' = [step EXCEPT ![t] = @ + 1]
    /\ UNCHANGED <<ram, live, mainVars, saved, pending, read, open, overlap, historyVars>>

EndSave(t) ==
    /\ step[t] = LastPut + 1
    /\ step' = [step EXCEPT ![t] = 0]
    /\ open' = "closed"
    /\ UNCHANGED <<nvs, ram, live, pending, read, overlap, crashes, lanSaved>>

\* The callback raises its flag and answers "OK".
Acknowledge(p) ==
    /\ EndSave(p)
    /\ saved' = [saved EXCEPT ![p] = TRUE]
    /\ acked' = TRUE
    /\ UNCHANGED mainVars

\* SmartConfig ends Quick Pairing; a LAN request goes on to refresh mDNS.
MainSaved ==
    /\ EndSave("main")
    /\ IF pc = "ble" THEN pc' = "bleExit" /\ result' = "provisioned"
                     ELSE pc' = "lanMdns" /\ UNCHANGED result
    /\ UNCHANGED <<mode, saved, acked>>

(***************************************************************************)
(* loadConfig() by the main loop, the only thread that loads.              *)
(***************************************************************************)
Loading == pc \in {"bleLoad", "apLoad", "lanLoad", "lanMdns"} \/ (pc = "resume" /\ mode = "initial")

\* Quick Pairing starts: the flag is lowered, initConfig() reloads AppConfig.
EnterBle(m) ==
    /\ pc' = "bleLoad" /\ mode' = m /\ result' = "none"
    /\ saved' = [saved EXCEPT !["ble"] = FALSE]

\* What the main loop loaded AppConfig for. ConfigService copies it after the
\* portals of the initial boot.
AfterLoad ==
    /\ pc' = CASE pc = "bleLoad" -> "ble" [] pc = "apLoad" -> "ap" [] pc = "resume" -> "ask"
               [] pc = "lanLoad" -> "lan" [] pc = "lanMdns" -> "oper"
    /\ live' = IF pc = "resume" THEN Copied(ram', FALSE) ELSE live
    /\ UNCHANGED <<mode, result, saved>>

\* While no thread saves, and none can start to, nobody sees the reads one by one.
LoadAtOnce ==
    /\ Loading /\ read = 0 /\ ~AnySaving
    /\ ram' = Loaded(nvs)
    /\ open' = "closed"
    /\ AfterLoad
    /\ UNCHANGED <<nvs, pending, step, read, overlap, historyVars>>

\* Beside a save that outlived its portal: begin(), the texts one by one,
\* isKey() and getBool() of "acct_bound", and end().
BeginLoad ==
    /\ Loading /\ read = 0 /\ AnySaving
    /\ read' = 1
    /\ open' = Begun("read")
    /\ overlap' = TRUE
    /\ UNCHANGED <<storeVars, mainVars, saved, pending, step, historyVars>>

\* Reading a closed object gives the default.
LoadText ==
    /\ Loading /\ read \in Texts
    /\ ram' = [ram EXCEPT !.text[read] = IF open = "closed" THEN Empty ELSE nvs.text[read]]
    /\ read' = read + 1
    /\ UNCHANGED <<nvs, live, mainVars, saved, pending, step, open, overlap, historyVars>>

HasBoundKey == open # "closed" /\ nvs.bound # "none"

LoadKey ==
    /\ Loading /\ read = BoundKey /\ HasBoundKey
    /\ read' = BoundKey + 1
    /\ UNCHANGED <<storeVars, mainVars, saved, pending, step, open, overlap, historyVars>>

EndLoad ==
    /\ Loading
    /\ \/ /\ read = BoundKey /\ ~HasBoundKey
          /\ ram' = [ram EXCEPT !.bound = HasBroker(ram.text)]
       \/ /\ read = BoundKey + 1
          /\ ram' = [ram EXCEPT !.bound = HasBoundKey /\ nvs.bound = "yes"]
    /\ read' = 0
    /\ open' = "closed"
    /\ AfterLoad
    /\ UNCHANGED <<nvs, pending, step, overlap, historyVars>>

\* isProvisioned() opens the object as well.
BeginAsk ==
    /\ pc = "ask" /\ read = 0 /\ AnySaving
    /\ read' = 1
    /\ open' = Begun("read")
    /\ overlap' = TRUE
    /\ UNCHANGED <<storeVars, mainVars, saved, pending, step, historyVars>>

\* Faulty: setup() goes on whatever the answer is.
AnswerAnyway ==
    /\ pc = "ask" /\ (read = 1 \/ ~AnySaving)
    /\ live' = [live EXCEPT !.prov = IsProvisioned(nvs) /\ (read = 1 => open # "closed")]
    /\ pc' = "oper"
    /\ read' = 0
    /\ open' = "closed"
    /\ UNCHANGED <<nvs, ram, mode, result, saved, pending, step, overlap, historyVars>>

\* setup() and FirmwareController::setup() ask in a row, which is taken as once:
\* an unprovisioned device goes through the portals again, from the controller.
Answer ==
    /\ pc = "ask" /\ (read = 1 \/ ~AnySaving)
    /\ live' = [live EXCEPT !.prov = IsProvisioned(nvs) /\ (read = 1 => open # "closed")]
    /\ IF live'.prov THEN pc' = "oper" /\ UNCHANGED <<mode, result, saved>>
                     ELSE EnterBle("controller")
    /\ read' = 0
    /\ open' = "closed"
    /\ UNCHANGED <<nvs, ram, pending, step, overlap, historyVars>>

LoadStep == LoadAtOnce \/ BeginLoad \/ LoadText \/ LoadKey \/ EndLoad \/ BeginAsk \/ Answer

(***************************************************************************)
(* The callbacks of a portal.                                              *)
(***************************************************************************)
Serving(p) == IF p = "ble" THEN pc \in {"ble", "bleExit"} ELSE pc \in {"ap", "apExit"}

\* A BLE characteristic is written: AppConfig changes, nothing is saved. An SSID
\* or a token without text is ignored; a token binds the account.
EditField ==
    /\ Serving("ble") /\ ~Saving("ble")
    /\ \E e \in Entries :
        /\ e[1] \in {Ssid, Token} => e[2] # Empty
        /\ ram' = [text |-> [ram.text EXCEPT ![e[1]] = e[2]], bound |-> ram.bound \/ e[1] = Token]
    /\ overlap' = (overlap \/ AnySaving)
    /\ UNCHANGED <<nvs, live, mainVars, saved, pending, step, read, open, historyVars>>

\* Fields left out keep their text.
Overlay(text, f) == [k \in Texts |-> IF f[k] = Empty THEN text[k] ELSE f[k]]

\* A JSON document may name the user and the token with no text.
Emptied(text, named) == [k \in Texts |-> IF k \in named THEN Empty ELSE text[k]]

\* The account is bound by a broker, a token, a user or a name without text; not
\* by the user of the SoftAP form, and by some keys that carry none of the texts.
Binds(p, f, named) ==
    \/ f[Broker] # Empty \/ f[Token] # Empty \/ named # {}
    \/ p = "ble" /\ f[User] # Empty

Received(p, f) ==
    {[text |-> Emptied(Overlay(ram.text, f), named), bound |-> ram.bound \/ Binds(p, f, named) \/ claims] :
        named \in SUBSET {k \in {User, Token} : f[k] = Empty}, claims \in BOOLEAN}

\* SAVE, a JSON or key=value frame, or a form: fields are merged into AppConfig
\* and saveConfig() starts, whatever the result is worth.
Submit(p, f) ==
    /\ Serving(p) /\ ~Saving(p)
    /\ \E c \in Received(p, f) : BeginSave(p, c)
    /\ UNCHANGED <<nvs, live, mainVars, saved, pending, historyVars>>

(***************************************************************************)
(* The main loop. It is inside saveConfig() while Saving("main").          *)
(***************************************************************************)
\* setup() with BOOT released.
Boot ==
    /\ pc = "boot"
    /\ ram' = Loaded(nvs)
    /\ live' = Snapshot(nvs)
    /\ IF IsProvisioned(nvs)
       THEN pc' = "oper" /\ UNCHANGED <<mode, result, saved>>
       ELSE EnterBle("initial")
    /\ UNCHANGED <<nvs, pending, saveVars, historyVars>>

\* setup() with BOOT low at that instant: the configuration is erased.
BootForced ==
    /\ pc = "boot"
    /\ live' = Snapshot(nvs)
    /\ nvs' = Cleared /\ ram' = Factory
    /\ EnterBle("initial")
    /\ UNCHANGED <<pending, saveVars, historyVars>>

BleExit(r) ==
    /\ pc' = "bleExit" /\ result' = r
    /\ UNCHANGED <<storeVars, mode, saved, pending, saveVars, historyVars>>

BleSeesSaved == pc = "ble" /\ ~Saving("main") /\ saved["ble"] /\ BleExit("provisioned")

\* The loop reads the flag before the button and the clock, so a save that
\* completes in between is not seen.
BleTimeout == pc = "ble" /\ ~Saving("main") /\ BleExit("timeout")

\* Quick Pairing run by the controller has no button.
BleButton ==
    /\ pc = "ble" /\ ~Saving("main") /\ mode # "controller"
    /\ \E r \in {"cancel", "softap"} : BleExit(r)

SmartConfigDone ==
    /\ pc = "ble" /\ ~Saving("main")
    /\ \E v \in Values \ {Empty} : BeginSave("main", [ram EXCEPT !.text[Ssid] = v])
    /\ UNCHANGED <<nvs, live, mainVars, saved, pending, historyVars>>

ToSoftAp == result = "softap" \/ (result = "timeout" /\ mode # "button")

\* Faulty: the workflow of the main loop returns without a restart after Quick
\* Pairing.
NextStageNoReboot ==
    CASE ToSoftAp            -> "apLoad"
      [] mode = "controller" -> "reboot"
      [] OTHER               -> "resume"

\* Faulty: Quick Pairing starts again when its time is over.
NextStageRetries ==
    CASE result = "provisioned" -> "reboot"
      [] result = "timeout"     -> "bleLoad"
      [] result = "softap"      -> "apLoad"
      [] OTHER                  -> "resume"

\* runPairingWorkflow(), FirmwareController::runProvisioning(): what follows
\* Quick Pairing.
NextStage ==
    CASE result = "provisioned" -> "reboot"
      [] ToSoftAp               -> "apLoad"
      [] OTHER                  -> "resume"

\* cleanupRadios(): peers are disconnected, so no new callback starts; then
\* stopping the NimBLE host task waits for the callback it is in.
BleDisconnect ==
    /\ pc = "bleExit"
    /\ pc' = "bleOff"
    /\ UNCHANGED <<storeVars, mode, result, saved, pending, saveVars, historyVars>>

\* Faulty: the host task is left running.
BleCleanupNoWait ==
    /\ pc = "bleOff"
    /\ pc' = NextStage
    /\ saved' = [saved EXCEPT !["ap"] = @ /\ NextStage # "apLoad"]
    /\ UNCHANGED <<storeVars, mode, result, pending, saveVars, historyVars>>

\* The SoftAP portal lowers its flag before it loads.
BleCleanup ==
    /\ pc = "bleOff" /\ ~Saving("ble")
    /\ pc' = NextStage
    /\ saved' = [saved EXCEPT !["ap"] = @ /\ NextStage # "apLoad"]
    /\ UNCHANGED <<storeVars, mode, result, pending, saveVars, historyVars>>

\* The SoftAP loop ends on its flag, the clock or a short press.
ApLoopEnds ==
    /\ pc = "ap"
    /\ pc' = "apExit"
    /\ UNCHANGED <<storeVars, mode, result, saved, pending, saveVars, historyVars>>

\* The server is stopped without waiting for a handler; the flag read now is
\* the portal's result.
ApTeardown ==
    /\ pc = "apExit"
    /\ pc' = IF saved["ap"] \/ mode = "controller" THEN "reboot" ELSE "resume"
    /\ UNCHANGED <<storeVars, mode, result, saved, pending, saveVars, historyVars>>

\* Back from a workflow started by the button: nothing is loaded again.
ResumeButton ==
    /\ pc = "resume" /\ mode = "button"
    /\ pc' = "oper"
    /\ UNCHANGED <<storeVars, mode, result, saved, pending, saveVars, historyVars>>

LongPress ==
    /\ pc = "oper" /\ ~pending
    /\ EnterBle("button")
    /\ UNCHANGED <<storeVars, pending, saveVars, historyVars>>

\* A verified unlink order, by MQTT within a tick or by the LAN server.
VerifiedUnlink ==
    /\ pc \in {"oper", "lan"} /\ ~Saving("main") /\ ~pending
    /\ pending' = TRUE
    /\ UNCHANGED <<storeVars, mainVars, saved, saveVars, historyVars>>

\* First thing in loop(): executeFactoryUnlinkToQuickPairing() opens the
\* namespace. The flag, lowered in the code already here, is read by nobody
\* until the restart.
Unlink ==
    /\ pc = "oper" /\ pending
    /\ pc' = "erase"
    /\ open' = Begun("write")
    /\ overlap' = (overlap \/ AnySaving)
    /\ UNCHANGED <<storeVars, mode, result, saved, pending, step, read, historyVars>>

\* Faulty: the device restarts without erasing.
EraseNoWipe ==
    /\ pc = "erase"
    /\ pending' = FALSE
    /\ ram' = Factory
    /\ open' = "closed"
    /\ pc' = "reboot"
    /\ UNCHANGED <<nvs, live, mode, result, saved, step, read, overlap, historyVars>>

\* clear() erases what is open, and end() closes it for everyone.
Erase ==
    /\ pc = "erase"
    /\ pending' = FALSE
    /\ nvs' = IF open = "write" THEN Cleared ELSE nvs
    /\ ram' = Factory
    /\ open' = "closed"
    /\ pc' = "reboot"
    /\ UNCHANGED <<live, mode, result, saved, step, read, overlap, historyVars>>

\* Any LAN request, HTTP or UDP discovery, loads the stored configuration into
\* AppConfig first.
LanRequest ==
    /\ pc = "oper"
    /\ pc' = "lanLoad"
    /\ UNCHANGED <<storeVars, mode, result, saved, pending, saveVars, historyVars>>

\* Requests that only read, and refused ones.
LanDone ==
    /\ pc = "lan" /\ ~Saving("main")
    /\ pc' = "oper"
    /\ UNCHANGED <<storeVars, mode, result, saved, pending, saveVars, historyVars>>

\* /zeroconf/sled: its end() closes the object, then mDNS is refreshed.
LanSled ==
    /\ pc = "lan" /\ ~Saving("main") /\ ~pending
    /\ pc' = "lanMdns"
    /\ open' = "closed"
    /\ overlap' = (overlap \/ AnySaving)
    /\ UNCHANGED <<storeVars, mode, result, saved, pending, step, read, historyVars>>

\* The configuration loaded for the request, with its fields; every one of the
\* account binds it.
Requested(f) ==
    [text  |-> Overlay(ram.text, f),
     bound |-> ram.bound \/ \E k \in {Broker, User, Token} : f[k] # Empty]

\* /zeroconf/wifi and /zeroconf/config: NvsConfigRepository::save() puts the
\* configuration into AppConfig and saves it; the controller's copy is not told.
LanConfig(f) ==
    /\ pc = "lan" /\ ~Saving("main") /\ ~pending
    /\ BeginSave("main", Requested(f))
    /\ lanSaved' = TRUE
    /\ UNCHANGED <<nvs, live, mainVars, saved, pending, crashes, acked>>

\* Everything but NVS is lost.
PowerUp ==
    /\ pc' = "boot"
    /\ saved' = [p \in Portals |-> FALSE] /\ pending' = FALSE
    /\ step' = [t \in Threads |-> 0] /\ read' = 0 /\ open' = "closed"
    /\ overlap' = FALSE /\ acked' = FALSE /\ lanSaved' = FALSE
    /\ UNCHANGED <<storeVars, mode, result>>

Restart == pc = "reboot" /\ PowerUp /\ UNCHANGED crashes

Crash ==
    /\ pc # "boot" /\ crashes < MaxCrashes
    /\ crashes' = crashes + 1
    /\ PowerUp

\* What the main loop must do when it can.
MainStep ==
    \/ Boot
    \/ LoadStep
    \/ BleSeesSaved
    \/ BleTimeout
    \/ BleDisconnect
    \/ BleCleanup
    \/ ApLoopEnds
    \/ ApTeardown
    \/ ResumeButton
    \/ Unlink
    \/ Erase
    \/ LanDone
    \/ Restart

\* What users do and when.
UserStep ==
    \/ BootForced
    \/ BleButton
    \/ SmartConfigDone
    \/ LongPress
    \/ VerifiedUnlink
    \/ LanRequest
    \/ LanSled
    \/ EditField
    \/ \E f \in Forms : LanConfig(f)
    \/ \E p \in Portals, f \in Forms : Submit(p, f)

SaveStep(t) == Put(t) \/ (t \in Portals /\ Acknowledge(t)) \/ (t = "main" /\ MainSaved)

Next == MainStep \/ UserStep \/ (\E t \in Threads : SaveStep(t)) \/ Crash

Spec == Init /\ [][Next]_vars

\* Portals time out, threads run, a restart happens; every turn of loop() starts
\* with the unlink flag, however many LAN requests come between.
Fairness ==
    /\ WF_vars(MainStep) /\ SF_vars(Unlink)
    /\ \A t \in Threads : WF_vars(SaveStep(t))

FairSpec == Spec /\ Fairness

(***************************************************************************)
(* Properties                                                              *)
(***************************************************************************)
\* NVS holds what AppConfig holds.
Matches(n, c) == n.text = c.text /\ (n.bound = "yes") = c.bound

Operating == pc \in {"oper", "lanLoad", "lan", "lanMdns", "erase"}

\* The main loop operates on what NVS holds, except after a save that was
\* acknowledged without a restart or came over the LAN.
OperatesOnStored ==
    ~acked /\ ~lanSaved /\ ~AnySaving =>
        /\ Operating => live = Snapshot(nvs)
        /\ pc = "ask" => live = Copied(Loaded(nvs), FALSE)

\* The main loop runs only as a provisioned device.
OperatesProvisioned == Operating => live.prov

Pairing == pc \in {"bleLoad", "ble", "bleExit", "bleOff", "apLoad", "ap", "apExit", "resume", "ask"}

\* No save outlives the thread that runs it: nothing is being saved when the
\* device starts, a BLE save ends with the BLE stack, SmartConfig and the LAN
\* server save only from their own loops. Only a SoftAP save can run beside
\* what comes next: a load beside it is one that the history knows of, and so
\* is an erasure.
SavesInPlace ==
    /\ pc = "boot" => ~AnySaving /\ open = "closed" /\ read = 0
    /\ Saving("ble") => pc \in {"ble", "bleExit", "bleOff"}
    /\ Saving("main") => pc = "ble" \/ (pc = "lan" /\ lanSaved)
    /\ read > 0 => (Loading \/ pc = "ask") /\ overlap /\ (Saving("ap") \/ acked)
    /\ pc = "erase" => pending /\ (overlap \/ (open = "write" /\ ~AnySaving))

\* Quick Pairing has no result before it ends, and a good one ends the workflow.
ResultKnown ==
    /\ pc \in {"bleLoad", "ble"} => result = "none"
    /\ pc \in {"apLoad", "ap", "apExit", "resume", "ask"} => result # "provisioned"

\* A bound account is never forgotten by AppConfig while the device runs and
\* its threads keep apart.
BindingKept == pc # "boot" /\ ~overlap /\ nvs.bound = "yes" => ram.bound

\* Pairing from the button leaves the controller's copy as it was in operation,
\* and NVS too, unless something was saved.
ButtonPairing ==
    Pairing /\ mode = "button" =>
        /\ live.prov
        /\ (~acked /\ ~lanSaved /\ ~AnySaving /\ result # "provisioned") => live = Snapshot(nvs)

\* While no threads ran into each other one of them saves at most, and what it
\* has written is what AppConfig holds.
SavedPrefix ==
    ~overlap =>
        /\ open # "read"
        /\ \A t \in Threads : Saving(t) =>
            /\ open = "write"
            /\ \A u \in Threads : Saving(u) => u = t
            /\ \A k \in Texts : k < step[t] => nvs.text[k] = ram.text[k]
            /\ step[t] > BoundKey => (nvs.bound = "yes") = ram.bound

\* The inductive invariant.
IInv ==
    /\ TypeOK
    /\ SavesInPlace
    /\ ResultKnown
    /\ BindingKept
    /\ ButtonPairing
    /\ OperatesOnStored
    /\ OperatesProvisioned
    /\ SavedPrefix

\* saveConfig() writes "provisioned" last: the flag is raised only when all of
\* the configuration is in NVS, wherever power is lost, unless threads ran into
\* each other.
ProvisionedWhole ==
    [][~nvs.prov /\ nvs'.prov /\ ~overlap' => Matches(nvs', ram')]_vars

\* saveConfig() of thread t returns, and with it what the user or the LAN
\* client is answered "OK".
Acknowledged(t) == Saving(t) /\ ~Saving(t)' /\ pc' # "boot"

\* What a save returns from is in NVS as AppConfig held it, whoever saved,
\* unless threads ran into each other.
AckedIsStored ==
    [][\A t \in Threads : Acknowledged(t) /\ ~overlap => Matches(nvs', ram)]_vars

\* A stored binding is taken back only by a step that erases everything, after
\* an unlink order or BOOT at start-up.
TakenBack == nvs.bound = "yes" /\ nvs'.bound # "yes"
Erased    == nvs' = Cleared /\ (pending \/ pc = "boot")

\* nvs_config.cpp, account binding: as long as threads keep apart, through power
\* losses, pairing sessions and LAN updates, only an unlink order or BOOT takes
\* a stored binding back, and then everything goes.
BindingSurvives == [][TakenBack /\ ~overlap => Erased]_vars

\* README, account binding: acct_bound is kept in NVS and reset by a verified
\* unlink, whatever threads do.
BindingHeld == [][TakenBack => Erased]_vars

\* Only the erasure of the configuration or a loss of power ends a verified
\* unlink order, unless threads ran into each other.
OrderKept == [][pending /\ ~pending' => nvs' = Cleared \/ pc' = "boot" \/ overlap]_vars

\* A verified unlink order is carried out, unless power fails first or a SoftAP
\* handler that outlived its portal closes the namespace under the erasure.
UnlinkHonoured == (pending ~> ~pending) /\ OrderKept

\* Every pairing session ends: in operation or in a restart.
PairingEnds == Pairing ~> pc \in {"oper", "boot"}

\* README, BLE "save" characteristic: "persist config & reboot".
AckLeadsToReboot == acked ~> ~acked
=============================================================================
