----------------------------- MODULE Operation ------------------------------
(***************************************************************************)
(* The running device and its account: loop() of main.cpp in its order     *)
(* (unlink flag, button, LAN server, controller), with the MQTT session,   *)
(* the LAN server and the stored configuration they all change.            *)
(*                                                                         *)
(*   boot -> top -> lan -> serve -> (sledSave -> sledReply) -> tick -> top *)
(*                                                                         *)
(* Saves are one step here; Provisioning cuts them key by key, and keeps   *)
(* the saves that end while a portal closes. Of the configuration three    *)
(* things are kept: prov (something is configured), acct (broker, user and *)
(* bind token as one) and sled (sled_online).                              *)
(***************************************************************************)
EXTENDS MqttSession, LanServer, Naturals

CONSTANTS Edits,       \* what BLE clients write as account and do not save
          MaxCrashes   \* bound: power losses

ASSUME OperationAssumption == Edits \subseteq Accounts \cup {None} /\ MaxCrashes \in Nat

VARIABLES
    nvs,      \* the stored configuration
    ram,      \* ::config (AppConfig)
    pending,  \* g_pendingFactoryUnlink
    pc,       \* where the main loop is
    crashes,  \* power losses so far
    edited,   \* history: AppConfig holds an account no save has stored
    behind    \* history: a portal stored a setting and no restart followed

storeVars == <<nvs, ram, edited, behind>>
vars == <<sessionVars, lanVars, storeVars, pending, pc, crashes>>

Places  == {"boot", "top", "lan", "serve", "sledSave", "sledReply", "tick"}
Configs == [prov : BOOLEAN, acct : Owners, sled : BOOLEAN]

TypeOK ==
    /\ SessionOK /\ LanOK
    /\ nvs \in Configs /\ ram \in Configs
    /\ pending \in BOOLEAN /\ edited \in BOOLEAN /\ behind \in BOOLEAN
    /\ pc \in Places
    /\ crashes \in 0 .. MaxCrashes

Factory == [prov |-> FALSE, acct |-> None, sled |-> TRUE]

Init ==
    /\ SessionInit /\ LanInit
    /\ nvs = Factory /\ ram = Factory
    /\ pending = FALSE /\ edited = FALSE /\ behind = FALSE
    /\ pc = "boot" /\ crashes = 0

\* loadConfig()
Reload == ram' = nvs /\ edited' = FALSE

\* The store after account a (None: the one there is) and LED setting s were
\* saved.
Stored(a, s) ==
    [nvs EXCEPT !.prov = TRUE, !.acct = IF a = None THEN @ ELSE a, !.sled = s]

\* Everything but NVS, the brokers and the LAN clients starts anew; the LED
\* setting is the first thing setup() takes from the store.
Restarted ==
    /\ SessionReset /\ LanReset
    /\ led' = nvs'.sled
    /\ pending' = FALSE /\ edited' = FALSE /\ behind' = FALSE
    /\ pc' = "boot"
    /\ UNCHANGED <<home, subs, queued, serviceVars>>

(***************************************************************************)
(* setup(). An unprovisioned device goes through the portals again and     *)
(* again; a portal that stores something ends in a restart, unless its     *)
(* loop has already decided to end without one.                            *)
(***************************************************************************)
Boot ==
    /\ pc = "boot" /\ nvs.prov
    /\ Reload
    /\ pc' = "top"
    /\ UNCHANGED <<sessionVars, lanVars, nvs, behind, pending, crashes>>

\* BOOT is low at start-up: resetConfig(), then the portals.
EraseAtBoot ==
    /\ pc = "boot"
    /\ nvs' = Factory /\ ram' = Factory
    /\ UNCHANGED <<sessionVars, lanVars, edited, behind, pending, pc, crashes>>

PairAtBoot(a, s) ==
    /\ pc = "boot" /\ ~nvs.prov
    /\ nvs' = Stored(a, s) /\ ram' = nvs'
    /\ \/ led' = s /\ behind' = FALSE
       \/ led' = led /\ behind' = TRUE
    /\ UNCHANGED <<sessionVars, running, announced, posted, edited, pending, pc, crashes>>

(***************************************************************************)
(* loop(): the unlink flag and the button.                                 *)
(***************************************************************************)
\* executeFactoryUnlinkToQuickPairing()
Wipe ==
    /\ pc = "top" /\ pending
    /\ nvs' = Factory /\ ram' = Factory
    /\ Restarted
    /\ UNCHANGED crashes

Pass ==
    /\ pc = "top" /\ ~pending
    /\ pc' = "lan"
    /\ UNCHANGED <<sessionVars, lanVars, storeVars, pending, crashes>>

\* Faulty: the button is looked at before the unlink flag.
PairByButtonFirst(a, s) ==
    /\ pc = "top"
    /\ nvs' = Stored(a, s) /\ ram' = nvs'
    /\ SessionReset /\ LanReset
    /\ led' = s /\ edited' = FALSE /\ behind' = FALSE
    /\ pc' = "boot"
    /\ UNCHANGED <<home, subs, queued, serviceVars, pending, crashes>>

\* A long press, and a portal stores a configuration: restart.
PairByButton(a, s) ==
    /\ pc = "top" /\ ~pending
    /\ nvs' = Stored(a, s) /\ ram' = nvs'
    /\ Restarted
    /\ UNCHANGED crashes

\* A long press, and no restart. The portal has loaded AppConfig; what a BLE
\* client wrote into it and did not save stays there.
PairingOver ==
    /\ pc = "top" /\ ~pending
    /\ \E a \in Edits \cup {nvs'.acct} : ram' = [nvs' EXCEPT !.acct = a]
    /\ edited' = (ram'.acct # nvs'.acct)
    /\ pc' = "lan"
    /\ UNCHANGED <<sessionVars, lanVars, pending, crashes>>

PairingCancelled == UNCHANGED <<nvs, behind>> /\ PairingOver

\* The portal answers a save that its loop does not look for any more.
PairingLate(a, s) ==
    /\ nvs' = Stored(a, s) /\ behind' = TRUE
    /\ PairingOver

(***************************************************************************)
(* g_lanServer.loop(): at most one HTTP request and one UDP packet a turn. *)
(***************************************************************************)
LanDown ==
    /\ pc = "lan"
    /\ Stopped
    /\ pc' = "tick"
    /\ UNCHANGED <<sessionVars, storeVars, pending, crashes>>

LanUp ==
    /\ pc = "lan"
    /\ Served
    /\ IF running THEN UNCHANGED <<ram, edited>> ELSE Reload
    /\ pc' = "serve"
    /\ UNCHANGED <<sessionVars, nvs, behind, pending, crashes>>

NoRequest ==
    /\ pc = "serve"
    /\ pc' = "tick"
    /\ UNCHANGED <<sessionVars, lanVars, storeVars, pending, crashes>>

\* Information, discovery, OTA unlock, or a request refused: each of them
\* loads the configuration.
Query ==
    /\ pc = "serve"
    /\ Reload
    /\ pc' = "tick"
    /\ UNCHANGED <<sessionVars, lanVars, nvs, behind, pending, crashes>>

SledRequest(setting) ==
    /\ pc = "serve"
    /\ Reload
    /\ SledSet(setting)
    /\ pc' = "sledSave"
    /\ UNCHANGED <<sessionVars, nvs, behind, pending, crashes>>

\* Faulty: the setting is kept in AppConfig only.
SledKept ==
    /\ pc = "sledSave"
    /\ ram' = [ram EXCEPT !.sled = led]
    /\ pc' = "sledReply"
    /\ UNCHANGED <<sessionVars, lanVars, nvs, edited, behind, pending, crashes>>

\* saveSledOnlineNvs()
SledSaved ==
    /\ pc = "sledSave"
    /\ ram' = [ram EXCEPT !.sled = led]
    /\ nvs' = [nvs EXCEPT !.sled = led]
    /\ behind' = FALSE
    /\ pc' = "sledReply"
    /\ UNCHANGED <<sessionVars, lanVars, edited, pending, crashes>>

SledReply ==
    /\ pc = "sledReply"
    /\ Reload
    /\ SledAnswered
    /\ pc' = "tick"
    /\ UNCHANGED <<sessionVars, nvs, behind, pending, crashes>>

\* Faulty: the request is stored, AppConfig is not told.
LanConfigStoreOnly(a) ==
    /\ pc = "serve"
    /\ nvs' = Stored(a, nvs.sled)
    /\ Reannounced
    /\ pc' = "tick"
    /\ UNCHANGED <<sessionVars, ram, edited, behind, pending, crashes>>

\* /zeroconf/wifi and /zeroconf/config. Neither the session nor the broker
\* mqtt.begin() was given follows.
LanConfig(a) ==
    /\ pc = "serve"
    /\ nvs' = Stored(a, nvs.sled) /\ ram' = nvs' /\ edited' = FALSE
    /\ Reannounced
    /\ pc' = "tick"
    /\ UNCHANGED <<sessionVars, behind, pending, crashes>>

\* /zeroconf/unlink with a valid proof.
LanUnlink ==
    /\ pc = "serve"
    /\ UnlinkAccepted
    /\ Reload
    /\ pending' = TRUE
    /\ pc' = "tick"
    /\ UNCHANGED <<sessionVars, nvs, behind, crashes>>

(***************************************************************************)
(* FirmwareController::tick(): the link may be down (Idle), or the         *)
(* transport is dialled, or served.                                        *)
(***************************************************************************)
Idle ==
    /\ pc = "tick"
    /\ pc' = "top"
    /\ UNCHANGED <<sessionVars, lanVars, storeVars, pending, crashes>>

\* Faulty: an unlinked account that is refused dials on.
RefusalIgnored == UNCHANGED pending

\* Faulty: every refusal unlinks.
RefusalUnlinks == pending' = TRUE

\* onError() and onDisconnect(): reason 0x87 with the proof.
Refusal == pending' = (pending \/ ProvesUnlinked(user'))

\* The broker's answer to a connection attempt.
Answered ==
    \/ Admitted /\ UNCHANGED pending
    \/ RefusedBy /\ Refusal

Dial ==
    /\ pc = "tick"
    /\ Dialled(ram.acct)
    /\ Answered \/ (Unanswered /\ UNCHANGED pending)
    /\ pc' = "top"
    /\ UNCHANGED <<lanVars, storeVars, crashes>>

\* mqtt.loop() reconnects by itself.
Redial ==
    /\ pc = "tick"
    /\ Redialled
    /\ Answered \/ (Unanswered /\ UNCHANGED pending)
    /\ pc' = "top"
    /\ UNCHANGED <<lanVars, storeVars, crashes>>

\* onMessage()
Command(a) ==
    /\ pc = "tick"
    /\ CommandArrives(a)
    /\ pending' = TRUE
    /\ pc' = "top"
    /\ UNCHANGED <<lanVars, storeVars, crashes>>

\* The broker ends the session of an account it knows as unlinked.
Kicked ==
    /\ pc = "tick"
    /\ user \in unlinked
    /\ SessionLost
    /\ pending' = TRUE
    /\ pc' = "top"
    /\ UNCHANGED <<lanVars, storeVars, crashes>>

LoopStep ==
    \/ Boot
    \/ Wipe
    \/ Pass
    \/ LanDown
    \/ LanUp
    \/ NoRequest
    \/ Query
    \/ SledSaved
    \/ SledReply
    \/ LanUnlink
    \/ Idle
    \/ Dial
    \/ Redial
    \/ Kicked
    \/ \E a \in Accounts : Command(a)

(***************************************************************************)
(* People, the service, the network and the power supply.                  *)
(***************************************************************************)
UserStep ==
    \/ EraseAtBoot
    \/ PairingCancelled
    \/ \E a \in Owners : LanConfig(a)
    \/ \E a \in Owners, s \in BOOLEAN : PairAtBoot(a, s) \/ PairByButton(a, s) \/ PairingLate(a, s)
    \/ \E setting \in BOOLEAN : SledRequest(setting)

Elsewhere ==
    /\ \/ /\ \/ SessionLost
             \/ \E b \in Brokers : SessionExpires(b)
             \/ \E a \in Accounts : ServiceLinks(a) \/ ServiceUnlinks(a)
          /\ UNCHANGED lanVars
       \/ /\ UnlinkPosted \/ UnlinkGivenUp
          /\ UNCHANGED sessionVars
    /\ UNCHANGED <<storeVars, pending, pc, crashes>>

\* A power loss.
Crash ==
    /\ pc # "boot" /\ crashes < MaxCrashes
    /\ crashes' = crashes + 1
    /\ UNCHANGED <<nvs, ram>>
    /\ Restarted

Next == LoopStep \/ UserStep \/ Elsewhere \/ Crash

Spec == Init /\ [][Next]_vars

\* The broker of the device is reached and answers.
Reach == Dial /\ Answered

\* The loop runs, and button or restarts do not keep it at its beginning for
\* ever; a device that dials again and again is answered some time; a broker
\* that knows of an unlinked account ends its session some time.
Fairness == WF_vars(LoopStep) /\ SF_vars(Pass) /\ SF_vars(Reach) /\ SF_vars(Kicked)

FairSpec == Spec /\ Fairness

(***************************************************************************)
(* Properties                                                              *)
(***************************************************************************)
\* An unlink order waits only for the end of the tick it came in; an
\* unprovisioned device has nothing stored; AppConfig is what is stored,
\* unless it was edited; a client without a broker is not connected; the LAN
\* server runs where it serves and not before start-up.
Consistent ==
    /\ pending => pc \in {"tick", "top"}
    /\ pc # "boot" => nvs.prov
    /\ ~nvs.prov => nvs = Factory
    /\ pc # "boot" /\ ~edited => ram = nvs
    /\ up => begun /\ host # None /\ pc # "boot"
    /\ pc = "boot" => ~running
    /\ pc \in {"serve", "sledSave", "sledReply"} => running

\* LED and store agree whenever no request about them is under way, through
\* restarts, erasures, power losses and pairings, unless a portal has stored a
\* setting and no restart followed; announcement and LED agree even then
\* (handler of /zeroconf/sled, setup(), startServer()).
SledAgrees ==
    /\ nvs.prov /\ ~behind /\ pc # "sledSave" => led = nvs.sled
    /\ running /\ pc \notin {"sledSave", "sledReply"} => announced = Text(led)

\* The inductive invariant.
IInv == TypeOK /\ Consistent /\ SledAgrees

Owner == INSTANCE Ownership WITH
    owner    <- nvs.acct,
    orders   <- queued \cup unlinked \cup (IF posted THEN {"lan"} ELSE {}),
    received <- pending,
    running  <- pc # "boot"

\* The device gives its account up only to an order somebody issued, and
\* between order and erasure nobody takes it over.
ImplementsOwnership == Owner!Spec

\* The account the broker is dialled with is the stored one, except while
\* AppConfig holds edits of a cancelled pairing.
StoredAccountDialled ==
    [][user' # user /\ user' # None => user' = nvs.acct \/ edited]_vars

\* The device belongs to a as far as it knows, its client agrees, and the
\* service has taken it from a.
Owed(a) ==
    /\ nvs.acct = a /\ a \in unlinked
    /\ pc # "boot" => ram.acct = a
    /\ begun => host = home[a] /\ user = a

Released(a) == nvs.acct # a \/ a \notin unlinked

\* A device that was away when its account was unlinked gives it up after it
\* comes back, whatever was lost: the command, the session, the power.
UnlinkReleases == \A a \in Accounts : Owed(a) ~> (Released(a) \/ edited)
=============================================================================
