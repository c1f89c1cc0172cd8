------------------------- MODULE ProvisioningProofs -------------------------
(* What Provisioning guarantees for every configuration and any power losses, *)
(* and that it implements ConfigStore.                                        *)
EXTENDS ProvisioningStore, TLAPS

\* What loadConfig() and ConfigService::load() make of any namespace.
LEMMA LoadedType ==
  ASSUME NEW n \in NvsStates
  PROVE  /\ Loaded(n) \in Configs
         /\ Snapshot(n) \in Copies
BY DEF NvsStates, Configs, Copies, Loaded, Snapshot, Copied, IsProvisioned

\* What ConfigService keeps of any AppConfig.
LEMMA CopiedType ==
  ASSUME NEW c \in Configs, NEW ok \in BOOLEAN
  PROVE  Copied(c, ok) \in Copies
BY DEF Configs, Copies, Copied

\* Texts merged with those of a request are texts.
LEMMA OverlayType ==
  ASSUME NEW text \in [Texts -> Values], NEW f \in [Texts -> Values], NEW named
  PROVE  /\ Overlay(text, f) \in [Texts -> Values]
         /\ Emptied(text, named) \in [Texts -> Values]
BY ProvisioningAssumption DEF Overlay, Emptied

\* What a portal makes of a frame is a configuration, and a bound one if the
\* configuration before it was.
LEMMA ReceivedType ==
  ASSUME DataOK, NEW p \in Portals, NEW f \in Forms, NEW c \in Received(p, f)
  PROVE  c \in Configs /\ (ram.bound => c.bound)
<1>1. PICK named \in SUBSET Texts, claims \in BOOLEAN :
        c = [text  |-> Emptied(Overlay(ram.text, f), named),
             bound |-> ram.bound \/ Binds(p, f, named) \/ claims]
  <2>1. {k \in {User, Token} : f[k] = Empty} \subseteq Texts
    BY DEF User, Token, Texts
  <2> QED
    BY <2>1 DEF Received
<1>2. ram.text \in [Texts -> Values] /\ f \in [Texts -> Values] /\ ram.bound \in BOOLEAN
  BY ProvisioningAssumption DEF DataOK, Configs
<1>3. Emptied(Overlay(ram.text, f), named) \in [Texts -> Values]
  BY <1>2, OverlayType
<1>4. (ram.bound \/ Binds(p, f, named) \/ claims) \in BOOLEAN
  BY DEF Binds
<1> QED
  BY <1>1, <1>3, <1>4 DEF Configs

\* So is what a LAN request makes of it.
LEMMA RequestedType ==
  ASSUME DataOK, NEW f \in Forms
  PROVE  Requested(f) \in Configs /\ (ram.bound => Requested(f).bound)
<1>1. ram.text \in [Texts -> Values] /\ f \in [Texts -> Values] /\ ram.bound \in BOOLEAN
  BY ProvisioningAssumption DEF DataOK, Configs
<1>2. Overlay(ram.text, f) \in [Texts -> Values]
  BY <1>1, OverlayType
<1>3. (\E k \in {Broker, User, Token} : f[k] # Empty) \in BOOLEAN
  OBVIOUS
<1> QED
  BY <1>1, <1>2, <1>3 DEF Requested, Configs

\* What saveConfig() makes of a configuration before it writes it.
LEMMA SaverType ==
  ASSUME NEW c \in Configs, NEW t, BeginSave(t, c)
  PROVE  ram' \in Configs /\ ram'.text = c.text /\ (c.bound => ram'.bound)
<1> DEFINE flag == c.bound \/ HasBroker(c.text) \/ c.text[Token] # Empty
<1>1. flag \in BOOLEAN
  BY DEF HasBroker
<1>2. ram' = [c EXCEPT !.bound = flag]
  BY DEF BeginSave
<1>3. c.bound => flag
  OBVIOUS
<1> HIDE DEF flag
<1> QED
  BY <1>1, <1>2, <1>3 DEF Configs

\* Every write of saveConfig() keeps the types of the namespace.
LEMMA ValueType ==
  ASSUME DataOK, NEW k \in 1 .. LastPut
  PROVE  ValueOf(k) \in NvsStates
<1>1. CASE k \in Texts
  <2>1. ValueOf(k) = [nvs EXCEPT !.text[k] = ram.text[k]]
    BY <1>1 DEF ValueOf, Texts, BoundKey, ProvKey
  <2>2. ram.text[k] \in Values
    BY <1>1 DEF DataOK, Configs
  <2> QED
    BY <1>1, <2>1, <2>2 DEF DataOK, NvsStates
<1>2. CASE k = BoundKey
  BY <1>2 DEF DataOK, NvsStates, ValueOf, Texts, BoundKey, ProvKey
<1>3. CASE k = ProvKey
  <2>1. Configured(ram) \in BOOLEAN
    BY DEF Configured, HasBroker, HasNetwork
  <2>2. ValueOf(k) = [nvs EXCEPT !.prov = Configured(ram)]
    BY <1>3 DEF ValueOf, Texts, BoundKey, ProvKey
  <2> QED
    BY <2>1, <2>2 DEF DataOK, NvsStates
<1> QED
  BY <1>1, <1>2, <1>3 DEF LastPut, Texts, BoundKey, ProvKey

\* A thread that is not saving is at a place of SavesOK, and so is a main loop
\* that is not loading.
LEMMA IdleStep == 0 \in 0 .. LastPut + 1 /\ 0 \in 0 .. BoundKey + 1
BY DEF LastPut, ProvKey, BoundKey

\* begin() leaves the shared object in one of its states.
LEMMA BegunType ==
  ASSUME SavesOK, NEW as \in {"read", "write"}
  PROVE  Begun(as) \in {"read", "write"}
BY DEF SavesOK, Begun

\* saveConfig() starts with every thread at a place of SavesOK.
LEMMA BeginSaves ==
  ASSUME SavesOK, NEW t \in Threads, NEW c, BeginSave(t, c)
  PROVE  SavesOK'
<1>1. overlap' \in BOOLEAN
  BY DEF BeginSave, AnySaving
<1>2. step' \in [Threads -> 0 .. LastPut + 1]
  BY DEF BeginSave, SavesOK, LastPut, ProvKey
<1>3. open' \in {"closed", "read", "write"}
  BY BegunType DEF BeginSave
<1> QED
  BY <1>1, <1>2, <1>3 DEF BeginSave, SavesOK

\* What a device leaves the factory with.
LEMMA BlankType == Blank \in [Texts -> Values] /\ Cleared \in NvsStates /\ Factory \in Configs
BY ProvisioningAssumption DEF Blank, Cleared, Factory, NvsStates, Configs

\* Each step keeps the types of the three copies of the configuration.
LEMMA DataTyped == ASSUME TypeOK, [Next]_vars PROVE DataOK'
<1> USE DEF DataOK, TypeOK, storeVars
<1>0. CASE UNCHANGED vars
  BY <1>0 DEF vars
<1>1. CASE Boot
  BY <1>1, LoadedType DEF Boot
<1>2. CASE BleSeesSaved \/ BleTimeout \/ BleButton \/ BleDisconnect
  BY <1>2 DEF BleSeesSaved, BleTimeout, BleButton, BleExit, BleDisconnect
<1>3. CASE ApLoopEnds \/ ApTeardown \/ ResumeButton \/ VerifiedUnlink
  BY <1>3 DEF ApLoopEnds, ApTeardown, ResumeButton, VerifiedUnlink
<1>4. CASE BleCleanup \/ LongPress \/ LanRequest \/ LanDone \/ LanSled \/ Unlink
  BY <1>4 DEF BleCleanup, LongPress, LanRequest, LanDone, LanSled, Unlink
<1>5. CASE Erase \/ BootForced
  BY <1>5, BlankType, LoadedType DEF Erase, BootForced
<1>6. CASE Restart \/ Crash
  BY <1>6 DEF Restart, Crash, PowerUp
<1>7. CASE SmartConfigDone
  <2> PICK v \in Values \ {Empty} : BeginSave("main", [ram EXCEPT !.text[Ssid] = v])
    BY <1>7 DEF SmartConfigDone
  <2>1. [ram EXCEPT !.text[Ssid] = v] \in Configs
    BY DEF Configs
  <2> QED
    BY <1>7, <2>1, SaverType DEF SmartConfigDone
<1>8. CASE EditField
  <2> PICK e \in Entries :
        ram' = [text |-> [ram.text EXCEPT ![e[1]] = e[2]], bound |-> ram.bound \/ e[1] = Token]
    BY <1>8 DEF EditField
  <2>1. e[2] \in Values /\ ram.text \in [Texts -> Values] /\ ram.bound \in BOOLEAN
    BY ProvisioningAssumption DEF Configs
  <2>2. [ram.text EXCEPT ![e[1]] = e[2]] \in [Texts -> Values]
    BY <2>1
  <2>3. (ram.bound \/ e[1] = Token) \in BOOLEAN
    OBVIOUS
  <2>4. ram' \in Configs
    BY <2>2, <2>3, Zenon DEF Configs
  <2> QED
    BY <1>8, <2>4 DEF EditField
<1>9. CASE \E f \in Forms : LanConfig(f)
  <2> PICK f \in Forms : LanConfig(f)
    BY <1>9
  <2>1. Requested(f) \in Configs
    BY RequestedType
  <2> QED
    BY <2>1, SaverType DEF LanConfig
<1>10. CASE \E p \in Portals, f \in Forms : Submit(p, f)
  <2> PICK p \in Portals, f \in Forms : Submit(p, f)
    BY <1>10
  <2> PICK c \in Received(p, f) : BeginSave(p, c)
    BY DEF Submit
  <2>1. c \in Configs
    BY ReceivedType
  <2> QED
    BY <2>1, SaverType DEF Submit
<1>11. CASE \E t \in Threads : Put(t)
  BY <1>11, ValueType DEF Put
<1>12. CASE \E p \in Portals : Acknowledge(p)
  BY <1>12 DEF Acknowledge, EndSave
<1>13. CASE MainSaved
  BY <1>13 DEF MainSaved, EndSave
<1>14. CASE LoadAtOnce
  <2>1. ram' \in Configs
    BY <1>14, LoadedType DEF LoadAtOnce
  <2> QED
    BY <1>14, <2>1, CopiedType DEF LoadAtOnce, AfterLoad
<1>15. CASE BeginLoad \/ LoadKey \/ BeginAsk
  BY <1>15 DEF BeginLoad, LoadKey, BeginAsk
<1>16. CASE LoadText
  <2> DEFINE got == IF open = "closed" THEN Empty ELSE nvs.text[read]
  <2>1. got \in Values /\ read \in Texts
    BY <1>16, ProvisioningAssumption DEF LoadText, NvsStates
  <2>2. ram' = [ram EXCEPT !.text[read] = got]
    BY <1>16 DEF LoadText
  <2> HIDE DEF got
  <2>3. ram' \in Configs
    BY <2>1, <2>2 DEF Configs
  <2> QED
    BY <1>16, <2>3 DEF LoadText
<1>17. CASE EndLoad
  <2>1. ram' \in Configs
    <3>1. HasBroker(ram.text) \in BOOLEAN /\ (HasBoundKey /\ nvs.bound = "yes") \in BOOLEAN
      BY DEF HasBroker, HasBoundKey
    <3> QED
      BY <1>17, <3>1 DEF EndLoad, Configs
  <2> QED
    BY <1>17, <2>1, CopiedType DEF EndLoad, AfterLoad
<1>18. CASE Answer
  <2> DEFINE ok == IsProvisioned(nvs) /\ (read = 1 => open # "closed")
  <2>1. ok \in BOOLEAN /\ live' = [live EXCEPT !.prov = ok]
    BY <1>18 DEF Answer, IsProvisioned, NvsStates
  <2> HIDE DEF ok
  <2> QED
    BY <1>18, <2>1 DEF Answer, Copies
<1> QED
  BY <1>0, <1>1, <1>2, <1>3, <1>4, <1>5, <1>6, <1>7, <1>8, <1>9, <1>10, <1>11, <1>12, <1>13,
     <1>14, <1>15, <1>16, <1>17, <1>18 DEF Next, MainStep, UserStep, SaveStep, LoadStep

\* Each step keeps the types of the saving and loading threads.
LEMMA SavesTyped == ASSUME TypeOK, [Next]_vars PROVE SavesOK'
<1> USE DEF TypeOK
<1>0. CASE UNCHANGED vars
  BY <1>0 DEF vars, saveVars, SavesOK
<1>1. CASE UNCHANGED saveVars
  BY <1>1 DEF saveVars, SavesOK
<1>2. CASE \/ Boot \/ BootForced \/ BleSeesSaved \/ BleTimeout \/ BleButton \/ BleDisconnect
           \/ BleCleanup \/ ApLoopEnds \/ ApTeardown \/ ResumeButton \/ VerifiedUnlink
           \/ LongPress \/ LanRequest \/ LanDone
  BY <1>1, <1>2 DEF Boot, BootForced, BleSeesSaved, BleTimeout, BleButton, BleExit,
     BleDisconnect, BleCleanup, ApLoopEnds, ApTeardown, ResumeButton, VerifiedUnlink,
     LongPress, LanRequest, LanDone
<1>3. CASE Unlink
  <2>1. overlap' \in BOOLEAN /\ open' \in {"closed", "read", "write"}
    BY <1>3, BegunType DEF Unlink, AnySaving
  <2> QED
    BY <1>3, <2>1 DEF Unlink, SavesOK
<1>4. CASE Erase
  BY <1>4 DEF Erase, SavesOK
<1>5. CASE EditField \/ LanSled
  <2>1. overlap' \in BOOLEAN
    BY <1>5 DEF EditField, LanSled, AnySaving
  <2> QED
    BY <1>5, <2>1 DEF EditField, LanSled, SavesOK
<1>6. CASE Restart \/ Crash
  BY <1>6, IdleStep DEF Restart, Crash, PowerUp, SavesOK
<1>7. CASE \/ SmartConfigDone \/ \E f \in Forms : LanConfig(f)
           \/ \E p \in Portals, f \in Forms : Submit(p, f)
  BY <1>7, BeginSaves DEF SmartConfigDone, LanConfig, Submit, Threads, Portals
<1>8. CASE \E t \in Threads : Put(t)
  BY <1>8 DEF Put, SavesOK, LastPut, ProvKey
<1>9. CASE MainSaved \/ \E p \in Portals : Acknowledge(p)
  BY <1>9, IdleStep DEF MainSaved, Acknowledge, EndSave, SavesOK
<1>10. CASE LoadAtOnce \/ EndLoad \/ Answer
  BY <1>10, IdleStep DEF LoadAtOnce, EndLoad, Answer, SavesOK
<1>11. CASE BeginLoad \/ BeginAsk
  <2>1. open' \in {"closed", "read", "write"} /\ overlap' \in BOOLEAN
    BY <1>11, BegunType DEF BeginLoad, BeginAsk
  <2> QED
    BY <1>11, <2>1 DEF BeginLoad, BeginAsk, SavesOK, BoundKey
<1>12. CASE LoadText \/ LoadKey
  BY <1>12 DEF LoadText, LoadKey, SavesOK, BoundKey, Texts
<1> QED
  BY <1>0, <1>2, <1>3, <1>4, <1>5, <1>6, <1>7, <1>8, <1>9, <1>10, <1>11, <1>12
     DEF Next, MainStep, UserStep, SaveStep, LoadStep

\* Each step keeps the types of the main loop's place and flags.
LEMMA FlowTyped == ASSUME TypeOK, [Next]_vars PROVE FlowOK'
<1> USE DEF FlowOK, TypeOK, mainVars, historyVars, Places, Portals, EnterBle, AfterLoad
<1>0. CASE UNCHANGED vars
  BY <1>0 DEF vars
<1>1. CASE Boot \/ BootForced
  BY <1>1 DEF Boot, BootForced
<1>2. CASE BleSeesSaved \/ BleTimeout \/ BleButton \/ BleDisconnect
  BY <1>2 DEF BleSeesSaved, BleTimeout, BleButton, BleExit, BleDisconnect
<1>3. CASE ApLoopEnds \/ ApTeardown \/ ResumeButton \/ VerifiedUnlink
  BY <1>3 DEF ApLoopEnds, ApTeardown, ResumeButton, VerifiedUnlink
<1>4. CASE BleCleanup
  <2>1. NextStage \in Places
    BY DEF NextStage, ToSoftAp
  <2>2. saved' \in [Portals -> BOOLEAN]
    BY <1>4 DEF BleCleanup
  <2> QED
    BY <1>4, <2>1, <2>2 DEF BleCleanup
<1>5. CASE Unlink \/ Erase \/ LongPress \/ LanRequest \/ LanDone \/ LanSled
  BY <1>5 DEF Unlink, Erase, LongPress, LanRequest, LanDone, LanSled
<1>6. CASE Restart \/ Crash
  <2>1. crashes' \in 0 .. MaxCrashes
    BY <1>6, ProvisioningAssumption DEF Restart, Crash
  <2> QED
    BY <1>6, <2>1 DEF Restart, Crash, PowerUp
<1>7. CASE SmartConfigDone \/ EditField
  BY <1>7 DEF SmartConfigDone, EditField
<1>8. CASE \E f \in Forms : LanConfig(f)
  BY <1>8 DEF LanConfig
<1>9. CASE \E p \in Portals, f \in Forms : Submit(p, f)
  BY <1>9 DEF Submit
<1>10. CASE \E t \in Threads : Put(t)
  BY <1>10 DEF Put
<1>11. CASE \E p \in Portals : Acknowledge(p)
  BY <1>11 DEF Acknowledge, EndSave
<1>12. CASE MainSaved
  BY <1>12 DEF MainSaved, EndSave
<1>13. CASE LoadAtOnce \/ EndLoad
  BY <1>13 DEF LoadAtOnce, EndLoad, Loading
<1>14. CASE BeginLoad \/ LoadText \/ LoadKey \/ BeginAsk
  BY <1>14 DEF BeginLoad, LoadText, LoadKey, BeginAsk
<1>15. CASE Answer
  BY <1>15 DEF Answer
<1> QED
  BY <1>0, <1>1, <1>2, <1>3, <1>4, <1>5, <1>6, <1>7, <1>8, <1>9, <1>10, <1>11, <1>12,
     <1>13, <1>14, <1>15 DEF Next, MainStep, UserStep, SaveStep, LoadStep

\* No save outlives the thread it runs in.
LEMMA PlacesKept == ASSUME IInv, [Next]_vars PROVE SavesInPlace'
<1> USE DEF IInv, TypeOK, SavesOK, SavesInPlace, AnySaving, Saving, Threads, Portals, LastPut,
            storeVars, mainVars, saveVars, historyVars, AfterLoad, EnterBle, EndSave,
            BeginSave, PowerUp, Serving, Loading
<1>0. CASE UNCHANGED vars
  BY <1>0 DEF vars
<1>1. CASE Boot \/ BootForced
  BY <1>1 DEF Boot, BootForced
<1>2. CASE BleSeesSaved \/ BleTimeout \/ BleButton \/ BleDisconnect
  BY <1>2 DEF BleSeesSaved, BleTimeout, BleButton, BleExit, BleDisconnect
<1>3. CASE BleCleanup
  BY <1>3 DEF BleCleanup, NextStage, ToSoftAp
<1>4. CASE ApLoopEnds \/ ApTeardown \/ ResumeButton
  BY <1>4 DEF ApLoopEnds, ApTeardown, ResumeButton
<1>5. CASE LongPress \/ VerifiedUnlink \/ LanRequest
  BY <1>5 DEF LongPress, VerifiedUnlink, LanRequest
<1>6. CASE Unlink \/ Erase
  <2>1. CASE Unlink
    <3>1. ~overlap' => open' = "write"
      BY <2>1 DEF Unlink, Begun, SavedPrefix
    <3>2. pending' /\ pc' = "erase" /\ (overlap' \/ ~AnySaving)
      <4>1. pending' /\ pc' = "erase" /\ overlap' = (overlap \/ AnySaving)
        BY <2>1 DEF Unlink
      <4> HIDE DEF AnySaving
      <4> QED
        BY <4>1
    <3>3. read' = 0
      BY <2>1 DEF Unlink
    <3>4. AnySaving' = AnySaving /\ step' = step
      BY <2>1 DEF Unlink
    <3>5. ~Saving("ble") /\ ~Saving("main")
      BY <2>1 DEF Unlink
    <3> QED
      BY <3>1, <3>2, <3>3, <3>4, <3>5
  <2>2. CASE Erase
    BY <2>2 DEF Erase
  <2> QED
    BY <1>6, <2>1, <2>2
<1>7. CASE Restart \/ Crash
  BY <1>7 DEF Restart, Crash
<1>8. CASE SmartConfigDone \/ EditField
  BY <1>8 DEF SmartConfigDone, EditField
<1>9. CASE \E f \in Forms : LanConfig(f)
  BY <1>9 DEF LanConfig
<1>10. CASE \E p \in Portals, f \in Forms : Submit(p, f)
  BY <1>10 DEF Submit
<1>11. CASE \E t \in Threads : Put(t)
  BY <1>11 DEF Put
<1>12. CASE MainSaved \/ \E p \in Portals : Acknowledge(p)
  <2>1. CASE MainSaved
    BY <2>1 DEF MainSaved
  <2>2. CASE \E p \in Portals : Acknowledge(p)
    BY <2>2 DEF Acknowledge, ProvKey
  <2> QED
    BY <1>12, <2>1, <2>2
<1>13. CASE LanDone \/ LanSled
  BY <1>13 DEF LanDone, LanSled
<1>14. CASE LoadAtOnce \/ BeginLoad
  <2>1. CASE LoadAtOnce
    BY <2>1 DEF LoadAtOnce
  <2>2. CASE BeginLoad
    <3>1. /\ read' = 1 /\ overlap' = TRUE /\ step' = step /\ pc' = pc /\ mode' = mode
          /\ acked' = acked /\ pc # "boot" /\ pc # "erase" /\ Saving("ap")
          /\ ~Saving("ble") /\ ~Saving("main") /\ Loading'
      BY <2>2 DEF BeginLoad
    <3> QED
      BY <3>1
  <2> QED
    BY <1>14, <2>1, <2>2
<1>15. CASE LoadText \/ LoadKey \/ EndLoad
  <2>1. CASE LoadText \/ LoadKey
    <3>1. /\ read > 0 /\ overlap' = overlap /\ step' = step /\ pc' = pc /\ mode' = mode
          /\ acked' = acked /\ lanSaved' = lanSaved /\ pending' = pending /\ pc # "erase"
      BY <2>1 DEF LoadText, LoadKey, Texts, BoundKey
    <3> QED
      BY <2>1, <3>1
  <2>2. CASE EndLoad
    <3>1. ~Saving("ble") /\ ~Saving("main") /\ step' = step /\ read' = 0
      BY <2>2 DEF EndLoad
    <3>2. pc' \notin {"boot", "erase"}
      BY <2>2 DEF EndLoad
    <3> QED
      BY <3>1, <3>2
  <2> QED
    BY <1>15, <2>1, <2>2
<1>16. CASE BeginAsk \/ Answer
  BY <1>16 DEF BeginAsk, Answer
<1> QED
  BY <1>0, <1>1, <1>2, <1>3, <1>4, <1>5, <1>6, <1>7, <1>8, <1>9, <1>10, <1>11, <1>12,
     <1>13, <1>14, <1>15, <1>16 DEF Next, MainStep, UserStep, SaveStep, LoadStep

\* Quick Pairing has a result only at its end.
LEMMA ResultKept == ASSUME IInv, [Next]_vars PROVE ResultKnown'
<1> USE DEF IInv, TypeOK, FlowOK, ResultKnown, SavesInPlace, Saving,
            storeVars, mainVars, saveVars, historyVars, AfterLoad, EnterBle, EndSave,
            BeginSave, PowerUp, Serving
<1>0. CASE UNCHANGED vars
  BY <1>0 DEF vars
<1>1. CASE Boot \/ BootForced
  BY <1>1 DEF Boot, BootForced
<1>2. CASE BleSeesSaved \/ BleTimeout \/ BleButton \/ BleDisconnect
  BY <1>2 DEF BleSeesSaved, BleTimeout, BleButton, BleExit, BleDisconnect
<1>3. CASE BleCleanup
  BY <1>3 DEF BleCleanup, NextStage, ToSoftAp
<1>4. CASE ApLoopEnds \/ ApTeardown \/ ResumeButton
  BY <1>4 DEF ApLoopEnds, ApTeardown, ResumeButton
<1>5. CASE LongPress \/ VerifiedUnlink \/ LanRequest
  BY <1>5 DEF LongPress, VerifiedUnlink, LanRequest
<1>6. CASE Unlink \/ Erase
  BY <1>6 DEF Unlink, Erase
<1>7. CASE Restart \/ Crash
  BY <1>7 DEF Restart, Crash
<1>8. CASE SmartConfigDone \/ EditField
  BY <1>8 DEF SmartConfigDone, EditField
<1>9. CASE \E f \in Forms : LanConfig(f)
  BY <1>9 DEF LanConfig
<1>10. CASE \E p \in Portals, f \in Forms : Submit(p, f)
  BY <1>10 DEF Submit
<1>11. CASE \E t \in Threads : Put(t)
  BY <1>11 DEF Put
<1>12. CASE MainSaved \/ \E p \in Portals : Acknowledge(p)
  BY <1>12 DEF MainSaved, Acknowledge
<1>13. CASE LanDone \/ LanSled
  BY <1>13 DEF LanDone, LanSled
<1>14. CASE LoadAtOnce \/ BeginLoad
  BY <1>14 DEF LoadAtOnce, BeginLoad, Loading
<1>15. CASE LoadText \/ LoadKey \/ EndLoad
  BY <1>15 DEF LoadText, LoadKey, EndLoad, Loading
<1>16. CASE BeginAsk \/ Answer
  BY <1>16 DEF BeginAsk, Answer
<1> QED
  BY <1>0, <1>1, <1>2, <1>3, <1>4, <1>5, <1>6, <1>7, <1>8, <1>9, <1>10, <1>11, <1>12,
     <1>13, <1>14, <1>15, <1>16 DEF Next, MainStep, UserStep, SaveStep, LoadStep

\* loadConfig() never drops a binding that is in the namespace.
LEMMA LoadedBound ==
  ASSUME NEW n \in NvsStates, n.bound = "yes"
  PROVE  Loaded(n).bound
BY DEF Loaded

\* AppConfig keeps a bound account bound while threads keep apart.
LEMMA BindingKeptStep == ASSUME IInv, [Next]_vars PROVE BindingKept'
<1> USE DEF IInv, TypeOK, DataOK, BindingKept, storeVars, mainVars, saveVars
<1>0. CASE UNCHANGED vars
  BY <1>0 DEF vars
<1>1. CASE Boot
  BY <1>1, LoadedBound DEF Boot
<1>2. CASE BootForced
  BY <1>2 DEF BootForced, Cleared
<1>3. CASE \/ BleSeesSaved \/ BleTimeout \/ BleButton \/ BleDisconnect \/ BleCleanup
           \/ ApLoopEnds \/ ApTeardown \/ ResumeButton \/ LongPress \/ VerifiedUnlink
           \/ LanRequest \/ LanDone
  <2>1. nvs' = nvs /\ ram' = ram /\ overlap' = overlap /\ pc # "boot"
    BY <1>3 DEF BleSeesSaved, BleTimeout, BleButton, BleExit, BleDisconnect, BleCleanup,
       ApLoopEnds, ApTeardown, ResumeButton, LongPress, VerifiedUnlink, LanRequest, LanDone
  <2> QED
    BY <2>1
<1>4. CASE Unlink \/ LanSled
  BY <1>4 DEF Unlink, LanSled
<1>5. CASE Erase
  BY <1>5 DEF Erase, Cleared, SavesInPlace
<1>6. CASE Restart \/ Crash
  BY <1>6 DEF Restart, Crash, PowerUp
<1>7. CASE SmartConfigDone
  <2> PICK v \in Values \ {Empty} : BeginSave("main", [ram EXCEPT !.text[Ssid] = v])
    BY <1>7 DEF SmartConfigDone
  <2>1. /\ [ram EXCEPT !.text[Ssid] = v] \in Configs
        /\ ram.bound => [ram EXCEPT !.text[Ssid] = v].bound
    BY DEF Configs
  <2>2. ram.bound => ram'.bound
    BY <2>1, SaverType
  <2> QED
    BY <1>7, <2>2 DEF SmartConfigDone, BeginSave
<1>8. CASE EditField
  <2>1. ram.bound => ram'.bound
    <3> PICK e \in Entries :
          ram' = [text  |-> [ram.text EXCEPT ![e[1]] = e[2]],
                  bound |-> ram.bound \/ e[1] = Token]
      BY <1>8 DEF EditField
    <3>1. ram'.bound = (ram.bound \/ e[1] = Token)
      BY Zenon
    <3> QED
      BY <3>1
  <2> QED
    BY <1>8, <2>1 DEF EditField, Serving
<1>9. CASE \E f \in Forms : LanConfig(f)
  <2> PICK f \in Forms : LanConfig(f)
    BY <1>9
  <2>1. ram.bound => ram'.bound
    BY RequestedType, SaverType DEF LanConfig
  <2> QED
    BY <2>1 DEF LanConfig, BeginSave
<1>10. CASE \E p \in Portals, f \in Forms : Submit(p, f)
  <2> PICK p \in Portals, f \in Forms : Submit(p, f)
    BY <1>10
  <2> PICK c \in Received(p, f) : BeginSave(p, c)
    BY DEF Submit
  <2>1. ram.bound => ram'.bound
    BY ReceivedType, SaverType
  <2> QED
    BY <2>1 DEF Submit, BeginSave, Serving
<1>11. CASE \E t \in Threads : Put(t)
  <2> PICK t \in Threads : Put(t)
    BY <1>11
  <2>1. pc # "boot"
    BY DEF SavesInPlace, AnySaving, Saving, Put
  <2>2. CASE nvs' = nvs
    BY <2>1, <2>2 DEF Put
  <2>3. CASE nvs' = ValueOf(step[t])
    BY <2>1, <2>3 DEF Put, ValueOf, NvsStates, LastPut, Texts, BoundKey, ProvKey
  <2> QED
    BY <2>2, <2>3 DEF Put
<1>12. CASE MainSaved \/ \E p \in Portals : Acknowledge(p)
  <2>1. pc # "boot"
    BY <1>12 DEF SavesInPlace, AnySaving, Saving, MainSaved, Acknowledge, EndSave, Threads,
       LastPut, ProvKey
  <2> QED
    BY <1>12, <2>1 DEF MainSaved, Acknowledge, EndSave
<1>13. CASE LoadAtOnce
  BY <1>13, LoadedBound DEF LoadAtOnce
<1>14. CASE BeginLoad \/ BeginAsk
  BY <1>14 DEF BeginLoad, BeginAsk
<1>15. CASE LoadText \/ LoadKey \/ EndLoad
  <2>1. overlap /\ overlap' = overlap
    BY <1>15 DEF SavesInPlace, LoadText, LoadKey, EndLoad, Texts, BoundKey
  <2> QED
    BY <2>1
<1>16. CASE Answer
  BY <1>16 DEF Answer
<1> QED
  BY <1>0, <1>1, <1>2, <1>3, <1>4, <1>5, <1>6, <1>7, <1>8, <1>9, <1>10, <1>11, <1>12,
     <1>13, <1>14, <1>15, <1>16 DEF Next, MainStep, UserStep, SaveStep, LoadStep

\* Pairing from the button starts from what the controller operates on.
LEMMA ButtonPairingKept == ASSUME IInv, [Next]_vars PROVE ButtonPairing'
<1> USE DEF IInv, TypeOK, FlowOK, ResultKnown, ButtonPairing, OperatesOnStored,
            OperatesProvisioned, SavesInPlace, Pairing, Operating, AnySaving, Saving, Threads, Portals,
            storeVars, mainVars, saveVars, historyVars, AfterLoad, EnterBle, EndSave,
            BeginSave, PowerUp
<1>0. CASE UNCHANGED vars
  BY <1>0 DEF vars
<1>1. CASE Boot \/ BootForced
  BY <1>1 DEF Boot, BootForced
<1>2. CASE BleSeesSaved \/ BleTimeout \/ BleButton \/ BleDisconnect
  <2>1. CASE BleSeesSaved
    BY <2>1 DEF BleSeesSaved, BleExit
  <2>2. CASE BleTimeout
    BY <2>2 DEF BleTimeout, BleExit
  <2>3. CASE BleButton
    BY <2>3 DEF BleButton, BleExit
  <2>4. CASE BleDisconnect
    BY <2>4 DEF BleDisconnect
  <2> QED
    BY <1>2, <2>1, <2>2, <2>3, <2>4
<1>3. CASE BleCleanup
  BY <1>3 DEF BleCleanup, NextStage, ToSoftAp
<1>4. CASE ApLoopEnds \/ ApTeardown \/ ResumeButton
  BY <1>4 DEF ApLoopEnds, ApTeardown, ResumeButton
<1>5. CASE LongPress \/ VerifiedUnlink \/ LanRequest
  BY <1>5 DEF LongPress, VerifiedUnlink, LanRequest
<1>6. CASE Unlink \/ Erase
  BY <1>6 DEF Unlink, Erase
<1>7. CASE Restart \/ Crash
  BY <1>7 DEF Restart, Crash
<1>8. CASE SmartConfigDone \/ EditField
  <2>1. CASE SmartConfigDone
    BY <2>1 DEF SmartConfigDone
  <2>2. CASE EditField
    BY <2>2 DEF EditField
  <2> QED
    BY <1>8, <2>1, <2>2
<1>9. CASE \E f \in Forms : LanConfig(f)
  BY <1>9 DEF LanConfig
<1>10. CASE \E p \in Portals, f \in Forms : Submit(p, f)
  BY <1>10 DEF Submit
<1>11. CASE \E t \in Threads : Put(t)
  BY <1>11 DEF Put
<1>12. CASE MainSaved \/ \E p \in Portals : Acknowledge(p)
  <2>1. CASE MainSaved
    BY <2>1 DEF MainSaved
  <2>2. CASE \E p \in Portals : Acknowledge(p)
    BY <2>2 DEF Acknowledge
  <2> QED
    BY <1>12, <2>1, <2>2
<1>13. CASE LanDone \/ LanSled
  BY <1>13 DEF LanDone, LanSled
<1>14. CASE LoadAtOnce \/ BeginLoad
  BY <1>14 DEF LoadAtOnce, BeginLoad, Loading
<1>15. CASE LoadText \/ LoadKey \/ EndLoad
  BY <1>15 DEF LoadText, LoadKey, EndLoad, Loading
<1>16. CASE BeginAsk \/ Answer
  BY <1>16 DEF BeginAsk, Answer
<1> QED
  BY <1>0, <1>1, <1>2, <1>3, <1>4, <1>5, <1>6, <1>7, <1>8, <1>9, <1>10, <1>11, <1>12,
     <1>13, <1>14, <1>15, <1>16 DEF Next, MainStep, UserStep, SaveStep, LoadStep

\* The main loop operates as a provisioned device.
LEMMA OperatesProvisionedKept == ASSUME IInv, [Next]_vars PROVE OperatesProvisioned'
<1> USE DEF IInv, TypeOK, FlowOK, ResultKnown, ButtonPairing, OperatesProvisioned, Operating, Pairing,
            storeVars, mainVars, saveVars, historyVars, AfterLoad, EnterBle, EndSave,
            BeginSave, PowerUp
<1>0. CASE UNCHANGED vars
  BY <1>0 DEF vars
<1>1. CASE Boot \/ BootForced
  BY <1>1 DEF Boot, BootForced, Snapshot, Copied
<1>2. CASE BleSeesSaved \/ BleTimeout \/ BleButton \/ BleDisconnect
  BY <1>2 DEF BleSeesSaved, BleTimeout, BleButton, BleExit, BleDisconnect
<1>3. CASE BleCleanup
  BY <1>3 DEF BleCleanup, NextStage, ToSoftAp
<1>4. CASE ApLoopEnds \/ ApTeardown \/ ResumeButton
  BY <1>4 DEF ApLoopEnds, ApTeardown, ResumeButton
<1>5. CASE LongPress \/ VerifiedUnlink \/ LanRequest
  BY <1>5 DEF LongPress, VerifiedUnlink, LanRequest
<1>6. CASE Unlink \/ Erase
  BY <1>6 DEF Unlink, Erase
<1>7. CASE Restart \/ Crash
  BY <1>7 DEF Restart, Crash
<1>8. CASE SmartConfigDone \/ EditField
  BY <1>8 DEF SmartConfigDone, EditField
<1>9. CASE \E f \in Forms : LanConfig(f)
  BY <1>9 DEF LanConfig
<1>10. CASE \E p \in Portals, f \in Forms : Submit(p, f)
  BY <1>10 DEF Submit
<1>11. CASE \E t \in Threads : Put(t)
  BY <1>11 DEF Put
<1>12. CASE MainSaved \/ \E p \in Portals : Acknowledge(p)
  BY <1>12 DEF MainSaved, Acknowledge, SavesInPlace, Saving, LastPut, ProvKey
<1>13. CASE LanDone \/ LanSled
  BY <1>13 DEF LanDone, LanSled
<1>14. CASE LoadAtOnce \/ BeginLoad
  BY <1>14 DEF LoadAtOnce, BeginLoad, Loading
<1>15. CASE LoadText \/ LoadKey \/ EndLoad
  BY <1>15 DEF LoadText, LoadKey, EndLoad, Loading
<1>16. CASE BeginAsk \/ Answer
  BY <1>16 DEF BeginAsk, Answer
<1> QED
  BY <1>0, <1>1, <1>2, <1>3, <1>4, <1>5, <1>6, <1>7, <1>8, <1>9, <1>10, <1>11, <1>12,
     <1>13, <1>14, <1>15, <1>16 DEF Next, MainStep, UserStep, SaveStep, LoadStep

\* A load that goes on has begun.
LEMMA ReadsOn == LoadText \/ LoadKey \/ EndLoad => read > 0
BY DEF LoadText, LoadKey, EndLoad, Texts, BoundKey

\* The main loop operates on what NVS holds.
LEMMA OperatesOnStoredKept == ASSUME IInv, [Next]_vars PROVE OperatesOnStored'
<1> USE DEF IInv, TypeOK, FlowOK, ResultKnown, ButtonPairing, OperatesOnStored,
            SavesInPlace, Pairing, Operating, AnySaving, Saving, Threads, Portals,
            storeVars, mainVars, saveVars, historyVars, AfterLoad, EnterBle, EndSave,
            BeginSave, PowerUp
<1>0. CASE UNCHANGED vars
  BY <1>0 DEF vars
<1>1. CASE Boot \/ BootForced
  BY <1>1 DEF Boot, BootForced
<1>2. CASE BleSeesSaved \/ BleTimeout \/ BleButton \/ BleDisconnect
  BY <1>2 DEF BleSeesSaved, BleTimeout, BleButton, BleExit, BleDisconnect
<1>3. CASE BleCleanup
  BY <1>3 DEF BleCleanup, NextStage, ToSoftAp
<1>4. CASE ApLoopEnds \/ ApTeardown \/ ResumeButton
  <2>1. CASE ApLoopEnds
    BY <2>1 DEF ApLoopEnds
  <2>2. CASE ApTeardown
    BY <2>2 DEF ApTeardown
  <2>3. CASE ResumeButton
    BY <2>3 DEF ResumeButton
  <2> QED
    BY <1>4, <2>1, <2>2, <2>3
<1>5. CASE LongPress \/ VerifiedUnlink \/ LanRequest
  BY <1>5 DEF LongPress, VerifiedUnlink, LanRequest
<1>6. CASE Unlink \/ Erase
  BY <1>6 DEF Unlink, Erase
<1>7. CASE Restart \/ Crash
  BY <1>7 DEF Restart, Crash
<1>8. CASE SmartConfigDone \/ EditField
  BY <1>8 DEF SmartConfigDone, EditField
<1>9. CASE \E f \in Forms : LanConfig(f)
  BY <1>9 DEF LanConfig
<1>10. CASE \E p \in Portals, f \in Forms : Submit(p, f)
  <2> PICK p \in Portals, f \in Forms : Submit(p, f)
    BY <1>10
  <2>1. p \in Threads /\ step' = [step EXCEPT ![p] = 1]
    BY DEF Submit
  <2>2. AnySaving'
    BY <2>1 DEF SavesOK
  <2> QED
    BY <2>2
<1>11. CASE \E t \in Threads : Put(t)
  BY <1>11 DEF Put
<1>12. CASE MainSaved \/ \E p \in Portals : Acknowledge(p)
  <2>1. CASE MainSaved
    <3>1. pc' = "bleExit" \/ (pc = "lan" /\ lanSaved')
      BY <2>1 DEF MainSaved, LastPut, ProvKey
    <3> QED
      BY <3>1
  <2>2. CASE \E p \in Portals : Acknowledge(p)
    BY <2>2 DEF Acknowledge
  <2> QED
    BY <1>12, <2>1, <2>2
<1>13. CASE LanDone \/ LanSled
  BY <1>13 DEF LanDone, LanSled
<1>14. CASE LoadAtOnce \/ BeginLoad
  BY <1>14 DEF LoadAtOnce, BeginLoad, Loading
<1>15. CASE LoadText \/ LoadKey \/ EndLoad
  <2>1. step' = step /\ acked' = acked /\ AnySaving' = AnySaving
    BY <1>15 DEF LoadText, LoadKey, EndLoad
  <2>2. read > 0
    BY <1>15, ReadsOn
  <2>3. acked \/ AnySaving
    BY <2>2
  <2> QED
    BY <2>1, <2>3
<1>16. CASE BeginAsk \/ Answer
  <2>1. CASE BeginAsk
    BY <2>1 DEF BeginAsk
  <2>2. CASE Answer
    <3>1. /\ step' = step /\ acked' = acked /\ AnySaving' = AnySaving
          /\ pc = "ask" /\ nvs' = nvs /\ lanSaved' = lanSaved /\ pc' # "ask"
      BY <2>2 DEF Answer
    <3>2. CASE read = 1
      <4>1. acked \/ AnySaving
        BY <3>2
      <4> QED
        BY <3>1, <4>1
    <3>3. CASE read # 1
      <4>1. live' = [live EXCEPT !.prov = IsProvisioned(nvs)]
        BY <2>2, <3>3 DEF Answer, IsProvisioned
      <4>2. live = Copied(Loaded(nvs), FALSE) => live' = Snapshot(nvs)
        BY <4>1 DEF Copied, Snapshot
      <4> QED
        BY <3>1, <4>2
    <3> QED
      BY <3>2, <3>3
  <2> QED
    BY <1>16, <2>1, <2>2
<1> QED
  BY <1>0, <1>1, <1>2, <1>3, <1>4, <1>5, <1>6, <1>7, <1>8, <1>9, <1>10, <1>11, <1>12,
     <1>13, <1>14, <1>15, <1>16 DEF Next, MainStep, UserStep, SaveStep, LoadStep

\* A save that begins alone has written nothing yet.
LEMMA PrefixBegins ==
  ASSUME IInv, NEW t \in Threads, NEW c, BeginSave(t, c), nvs' = nvs
  PROVE  SavedPrefix'
<1> SUFFICES ASSUME ~overlap' PROVE SavedPrefix'
  BY DEF SavedPrefix
<1>1. ~overlap /\ ~AnySaving /\ overlap \in BOOLEAN
  BY DEF BeginSave, IInv, TypeOK, SavesOK
<1>2. open' = "write"
  BY <1>1 DEF BeginSave, Begun, IInv, SavedPrefix, TypeOK, SavesOK
<1>3. step' = [step EXCEPT ![t] = 1] /\ step \in [Threads -> 0 .. LastPut + 1]
  BY DEF BeginSave, IInv, TypeOK, SavesOK
<1>4. \A u \in Threads : step'[u] # 0 => u = t /\ step'[u] = 1
  BY <1>1, <1>3 DEF AnySaving, Saving
<1> QED
  BY <1>2, <1>4 DEF SavedPrefix, Saving, Texts, BoundKey

\* A save that runs alone writes AppConfig key by key.
LEMMA SavedPrefixKept == ASSUME IInv, [Next]_vars PROVE SavedPrefix'
<1> USE DEF IInv, TypeOK, SavesOK, SavesInPlace, SavedPrefix, AnySaving, Saving,
            Threads, Portals,
            storeVars, mainVars, saveVars, historyVars, AfterLoad, EnterBle, EndSave,
            BeginSave, PowerUp
<1>0. CASE UNCHANGED vars
  BY <1>0 DEF vars
<1>1. CASE Boot \/ BootForced
  BY <1>1 DEF Boot, BootForced
<1>2. CASE BleSeesSaved \/ BleTimeout \/ BleButton \/ BleDisconnect
  BY <1>2 DEF BleSeesSaved, BleTimeout, BleButton, BleExit, BleDisconnect
<1>3. CASE BleCleanup
  BY <1>3 DEF BleCleanup, NextStage, ToSoftAp
<1>4. CASE ApLoopEnds \/ ApTeardown \/ ResumeButton
  BY <1>4 DEF ApLoopEnds, ApTeardown, ResumeButton
<1>5. CASE LongPress \/ VerifiedUnlink \/ LanRequest
  BY <1>5 DEF LongPress, VerifiedUnlink, LanRequest
<1>6. CASE Unlink \/ Erase
  <2>1. CASE Unlink
    BY <2>1 DEF Unlink, Begun
  <2>2. CASE Erase
    <3>1. ~overlap' => ~AnySaving /\ ~overlap
      BY <2>2 DEF Erase
    <3>2. step' = step /\ open' = "closed"
      BY <2>2 DEF Erase
    <3> QED
      BY <3>1, <3>2
  <2> QED
    BY <1>6, <2>1, <2>2
<1>7. CASE Restart \/ Crash
  BY <1>7 DEF Restart, Crash
<1>8. CASE SmartConfigDone \/ EditField
  <2>1. CASE SmartConfigDone
    BY <2>1, PrefixBegins DEF SmartConfigDone
  <2>2. CASE EditField
    BY <2>2 DEF EditField
  <2> QED
    BY <1>8, <2>1, <2>2
<1>9. CASE \E f \in Forms : LanConfig(f)
  BY <1>9, PrefixBegins DEF LanConfig
<1>10. CASE \E p \in Portals, f \in Forms : Submit(p, f)
  BY <1>10, PrefixBegins DEF Submit
<1>11. CASE \E t \in Threads : Put(t)
  BY <1>11 DEF Put, DataOK, NvsStates, Configs, ValueOf, LastPut, Texts, BoundKey, ProvKey
<1>12. CASE MainSaved \/ \E p \in Portals : Acknowledge(p)
  BY <1>12 DEF MainSaved, Acknowledge
<1>13. CASE LanDone \/ LanSled
  BY <1>13 DEF LanDone, LanSled
<1>14. CASE LoadAtOnce \/ BeginLoad
  BY <1>14 DEF LoadAtOnce, BeginLoad, Loading
<1>15. CASE LoadText \/ LoadKey \/ EndLoad
  <2>1. read > 0
    BY <1>15, ReadsOn
  <2>2. overlap' = overlap /\ overlap
    BY <1>15, <2>1 DEF LoadText, LoadKey, EndLoad
  <2> QED
    BY <2>2
<1>16. CASE BeginAsk \/ Answer
  BY <1>16 DEF BeginAsk, Answer
<1> QED
  BY <1>0, <1>1, <1>2, <1>3, <1>4, <1>5, <1>6, <1>7, <1>8, <1>9, <1>10, <1>11, <1>12,
     <1>13, <1>14, <1>15, <1>16 DEF Next, MainStep, UserStep, SaveStep, LoadStep

\* A device as it leaves the factory satisfies the inductive invariant.
LEMMA InitEstablishes == Init => IInv
<1> SUFFICES ASSUME Init PROVE IInv
  OBVIOUS
<1>1. DataOK
  BY BlankType DEF Init, DataOK, Copies
<1>2. SavesOK
  BY IdleStep DEF Init, SavesOK
<1>3. FlowOK
  <2>1. crashes \in 0 .. MaxCrashes
    BY ProvisioningAssumption DEF Init
  <2> QED
    BY <2>1 DEF Init, FlowOK, Places
<1>4. \A t \in Threads : ~Saving(t)
  BY DEF Init, Saving
<1>5. SavesInPlace /\ SavedPrefix
  BY <1>4 DEF Init, SavesInPlace, SavedPrefix, AnySaving, Loading, Threads, Portals
<1>6. ResultKnown /\ BindingKept /\ ButtonPairing
  BY DEF Init, ResultKnown, BindingKept, ButtonPairing, Pairing
<1>7. OperatesOnStored /\ OperatesProvisioned
  BY DEF Init, OperatesOnStored, OperatesProvisioned, Operating
<1> QED
  BY <1>1, <1>2, <1>3, <1>5, <1>6, <1>7 DEF IInv, TypeOK

\* Each step preserves the inductive invariant.
LEMMA StepPreserves == IInv /\ [Next]_vars => IInv'
<1> SUFFICES ASSUME IInv, [Next]_vars PROVE IInv'
  OBVIOUS
<1>1. TypeOK'
  BY DataTyped, SavesTyped, FlowTyped DEF IInv, TypeOK
<1> QED
  BY <1>1, PlacesKept, ResultKept, BindingKeptStep, ButtonPairingKept,
     OperatesProvisionedKept, OperatesOnStoredKept, SavedPrefixKept DEF IInv

\* Types, places of saves, the binding in AppConfig, and that the controller
\* operates as a provisioned device on the stored configuration hold for ever.
THEOREM Safety == Spec => []IInv
<1> QED
  BY InitEstablishes, StepPreserves, PTL DEF Spec

\* The main loop runs only as a provisioned device (FirmwareController::setup()
\* and the restarts of the workflows see to it).
THEOREM Operational == Spec => []OperatesProvisioned
<1>1. IInv => OperatesProvisioned
  BY DEF IInv
<1> QED
  BY <1>1, Safety, PTL

\* The main loop operates on what NVS holds, unless a save was acknowledged
\* without a restart or came over the LAN.
THEOREM StoredIsLive == Spec => []OperatesOnStored
<1>1. IInv => OperatesOnStored
  BY DEF IInv
<1> QED
  BY <1>1, Safety, PTL

\* Where NVS can change: a write of saveConfig(), BOOT at start-up, an erasure.
LEMMA NvsChanges ==
  ASSUME [Next]_vars
  PROVE  (\E t \in Threads : Put(t)) \/ BootForced \/ Erase \/ nvs' = nvs
<1> USE DEF storeVars
<1>1. CASE LoadStep
  BY <1>1 DEF LoadStep, LoadAtOnce, BeginLoad, LoadText, LoadKey, EndLoad, BeginAsk, Answer
<1>2. CASE \E t \in Threads : SaveStep(t)
  BY <1>2 DEF SaveStep, Acknowledge, MainSaved, EndSave
<1>3. CASE MainStep /\ ~LoadStep
  BY <1>3 DEF MainStep, Boot, BleSeesSaved, BleTimeout, BleExit, BleDisconnect, BleCleanup,
     ApLoopEnds, ApTeardown, ResumeButton, Unlink, LanDone, Restart, PowerUp
<1>4. CASE UserStep
  BY <1>4 DEF UserStep, BleButton, BleExit, SmartConfigDone, LongPress, VerifiedUnlink,
     LanRequest, LanSled, EditField, LanConfig, Submit
<1>5. CASE Crash
  BY <1>5 DEF Crash, PowerUp
<1>6. CASE UNCHANGED vars
  BY <1>6 DEF vars
<1> QED
  BY <1>1, <1>2, <1>3, <1>4, <1>5, <1>6 DEF Next

\* While threads keep apart only an unlink order or BOOT at start-up takes a
\* stored binding back, and everything with it.
THEOREM BindingTheorem == Spec => BindingSurvives
<1>1. ASSUME IInv, [Next]_vars, TakenBack, ~overlap PROVE Erased
  <2>1. CASE \E t \in Threads : Put(t)
    <3> PICK t \in Threads : Put(t)
      BY <2>1
    <3>1. ram.bound
      BY <1>1 DEF IInv, BindingKept, SavesInPlace, AnySaving, Saving, Put, TakenBack
    <3>2. nvs' \in {nvs, ValueOf(step[t])}
      BY DEF Put
    <3>3. nvs \in NvsStates /\ step[t] \in 1 .. LastPut
      BY <1>1 DEF IInv, TypeOK, DataOK, Put
    <3>4. ValueOf(step[t]).bound \in {nvs.bound, "yes"}
      BY <3>1, <3>3 DEF ValueOf, NvsStates, LastPut, Texts, BoundKey, ProvKey
    <3> QED
      BY <1>1, <3>2, <3>4 DEF TakenBack
  <2>2. CASE BootForced
    BY <2>2 DEF BootForced, Erased
  <2>3. CASE Erase
    BY <1>1, <2>3 DEF Erase, Erased, TakenBack, IInv, SavesInPlace
  <2>4. CASE nvs' = nvs
    BY <1>1, <2>4 DEF TakenBack
  <2> QED
    BY <1>1, <2>1, <2>2, <2>3, <2>4, NvsChanges
<1>2. IInv /\ [Next]_vars => [TakenBack /\ ~overlap => Erased]_vars
  BY <1>1
<1> QED
  BY <1>2, Safety, PTL DEF Spec, BindingSurvives

\* The "provisioned" flag is raised only over a whole configuration.
THEOREM WholeTheorem == Spec => ProvisionedWhole
<1> DEFINE Whole == ~nvs.prov /\ nvs'.prov /\ ~overlap' => Matches(nvs', ram')
<1>1. ASSUME IInv, [Next]_vars, ~nvs.prov, nvs'.prov, ~overlap' PROVE Matches(nvs', ram')
  <2>1. CASE \E t \in Threads : Put(t)
    <3> PICK t \in Threads : Put(t)
      BY <2>1
    <3>1. /\ nvs \in NvsStates /\ ram \in Configs
          /\ step[t] \in 1 .. LastPut /\ Saving(t) /\ ~overlap /\ ram' = ram
      BY <1>1 DEF IInv, TypeOK, DataOK, Put, Saving
    <3>2. nvs' = ValueOf(step[t])
      BY <1>1, <3>1 DEF Put
    <3>3. step[t] = ProvKey /\ nvs' = [nvs EXCEPT !.prov = Configured(ram)]
      <4>1. CASE step[t] \in Texts
        BY <1>1, <3>1, <3>2, <4>1 DEF ValueOf, NvsStates
      <4>2. CASE step[t] = BoundKey
        BY <1>1, <3>1, <3>2, <4>2 DEF ValueOf, NvsStates, Texts, BoundKey
      <4>3. CASE step[t] = ProvKey
        BY <3>2, <4>3 DEF ValueOf, Texts, BoundKey, ProvKey
      <4> QED
        BY <3>1, <4>1, <4>2, <4>3 DEF LastPut, Texts, BoundKey, ProvKey
    <3>4. /\ \A k \in Texts : nvs.text[k] = ram.text[k]
          /\ (nvs.bound = "yes") = ram.bound
      BY <1>1, <3>1, <3>3 DEF IInv, SavedPrefix, Texts, BoundKey, ProvKey
    <3>5. nvs.text = ram.text
      BY <3>1, <3>4 DEF NvsStates, Configs
    <3>6. nvs'.text = nvs.text /\ nvs'.bound = nvs.bound
      BY <3>1, <3>3 DEF NvsStates
    <3> QED
      BY <3>1, <3>4, <3>5, <3>6 DEF Matches
  <2>2. CASE BootForced \/ Erase
    BY <1>1, <2>2 DEF BootForced, Erase, Cleared
  <2>3. CASE nvs' = nvs
    BY <1>1, <2>3
  <2> QED
    BY <1>1, <2>1, <2>2, <2>3, NvsChanges
<1>2. IInv /\ [Next]_vars => [Whole]_vars
  BY <1>1
<1> QED
  BY <1>2, Safety, PTL DEF Spec, ProvisionedWhole

\* A save that returns is the end of saveConfig().
LEMMA SaveReturns ==
  ASSUME IInv, [Next]_vars, NEW t \in Threads, Saving(t), ~Saving(t)', pc' # "boot"
  PROVE  EndSave(t)
<1>1. step[t] # 0 /\ step'[t] = 0 /\ step \in [Threads -> 0 .. LastPut + 1]
  BY DEF Saving, IInv, TypeOK, SavesOK
<1>2. CASE \E u \in Threads : Put(u)
  BY <1>1, <1>2 DEF Put, LastPut, ProvKey
<1>3. CASE \E q \in Portals : Acknowledge(q)
  BY <1>1, <1>3 DEF Acknowledge, EndSave, Threads
<1>4. CASE MainSaved
  BY <1>1, <1>4 DEF MainSaved, EndSave, Threads, Portals
<1>5. CASE Restart \/ Crash
  BY <1>5 DEF Restart, Crash, PowerUp
<1>6. CASE \E u \in Threads : step' = [step EXCEPT ![u] = 1]
  BY <1>1, <1>6
<1>7. CASE step' = step
  BY <1>1, <1>7
<1>8. CASE LoadStep
  <2>1. step' = step
    BY <1>8 DEF LoadStep, LoadAtOnce, BeginLoad, LoadText, LoadKey, EndLoad, BeginAsk, Answer
  <2> QED
    BY <1>7, <2>1
<1>9. CASE MainStep /\ ~LoadStep /\ ~Restart
  <2>1. step' = step
    BY <1>9 DEF MainStep, Boot, BleSeesSaved, BleTimeout, BleExit, BleDisconnect, BleCleanup,
       ApLoopEnds, ApTeardown, ResumeButton, Unlink, Erase, LanDone, saveVars
  <2> QED
    BY <1>7, <2>1
<1>10. CASE UserStep
  <2>1. step' = step \/ \E u \in Threads : step' = [step EXCEPT ![u] = 1]
    BY <1>10 DEF UserStep, BootForced, BleButton, BleExit, SmartConfigDone, LongPress,
       VerifiedUnlink, LanRequest, LanSled, EditField, LanConfig, Submit, BeginSave, saveVars,
       Threads, Portals
  <2> QED
    BY <1>6, <1>7, <2>1
<1>11. CASE UNCHANGED vars
  BY <1>7, <1>11 DEF vars, saveVars
<1> QED
  BY <1>2, <1>3, <1>4, <1>5, <1>8, <1>9, <1>10, <1>11 DEF Next, SaveStep

\* What a save returns from, a portal's, SmartConfig's or a LAN request's, is in
\* NVS when threads kept out of each other's way.
THEOREM AckTheorem == Spec => AckedIsStored
<1>1. ASSUME IInv, [Next]_vars
      PROVE  \A t \in Threads : Acknowledged(t) /\ ~overlap => Matches(nvs', ram)
  <2> SUFFICES ASSUME NEW t \in Threads, Saving(t), ~Saving(t)', pc' # "boot", ~overlap
               PROVE  Matches(nvs', ram)
    BY DEF Acknowledged
  <2>1. EndSave(t)
    BY <1>1, SaveReturns
  <2>2. (\A k \in Texts : nvs.text[k] = ram.text[k]) /\ (nvs.bound = "yes") = ram.bound
    BY <1>1, <2>1
       DEF IInv, SavedPrefix, Saving, EndSave, LastPut, Texts, BoundKey, ProvKey
  <2>3. nvs.text = ram.text
    BY <1>1, <2>2 DEF IInv, TypeOK, DataOK, NvsStates, Configs
  <2> QED
    BY <2>1, <2>2, <2>3 DEF Matches, EndSave
<1>2. IInv /\ [Next]_vars =>
        [\A t \in Threads : Acknowledged(t) /\ ~overlap => Matches(nvs', ram)]_vars
  BY <1>1
<1> QED
  BY <1>2, Safety, PTL DEF Spec, AckedIsStored

\* Where a verified unlink order can end: the erasure, and a loss of power.
LEMMA PendingChanges ==
  ASSUME [Next]_vars
  PROVE  VerifiedUnlink \/ Erase \/ PowerUp \/ pending' = pending
<1>1. CASE LoadStep
  BY <1>1 DEF LoadStep, LoadAtOnce, BeginLoad, LoadText, LoadKey, EndLoad, BeginAsk, Answer
<1>2. CASE \E t \in Threads : SaveStep(t)
  BY <1>2 DEF SaveStep, Put, Acknowledge, MainSaved, EndSave
<1>3. CASE MainStep /\ ~LoadStep
  BY <1>3 DEF MainStep, Boot, BleSeesSaved, BleTimeout, BleExit, BleDisconnect, BleCleanup,
     ApLoopEnds, ApTeardown, ResumeButton, Unlink, LanDone, Restart
<1>4. CASE UserStep
  BY <1>4 DEF UserStep, BootForced, BleButton, BleExit, SmartConfigDone, LongPress,
     LanRequest, LanSled, EditField, LanConfig, Submit
<1>5. CASE Crash
  BY <1>5 DEF Crash
<1>6. CASE UNCHANGED vars
  BY <1>6 DEF vars
<1> QED
  BY <1>1, <1>2, <1>3, <1>4, <1>5, <1>6 DEF Next

\* A verified unlink order ends with the configuration erased or with a loss of
\* power, while threads keep out of each other's way.
THEOREM OrdersAreKept == Spec => OrderKept
<1>1. ASSUME IInv, [Next]_vars, pending, ~pending'
      PROVE  nvs' = Cleared \/ pc' = "boot" \/ overlap
  <2>1. CASE Erase
    BY <1>1, <2>1 DEF Erase, IInv, SavesInPlace
  <2>2. CASE PowerUp
    BY <2>2 DEF PowerUp
  <2>3. QED
    BY <1>1, <2>1, <2>2, PendingChanges DEF VerifiedUnlink
<1>2. IInv /\ [Next]_vars =>
        [pending /\ ~pending' => nvs' = Cleared \/ pc' = "boot" \/ overlap]_vars
  BY <1>1
<1> QED
  BY <1>2, Safety, PTL DEF Spec, OrderKept

(***************************************************************************)
(* The store that is saved at once                                         *)
(***************************************************************************)
\* Thread t enters saveConfig().
Begins(t) ==
    /\ ~Saving(t) /\ step' = [step EXCEPT ![t] = 1]
    /\ nvs' = nvs /\ overlap' = (overlap \/ AnySaving)

\* AppConfig is loaded, edited or erased; the namespace stays or is erased.
Touches ==
    /\ nvs' \in {nvs, Cleared} /\ step' = step
    /\ overlap' = (overlap \/ AnySaving)

\* Nothing a save depends on changes.
Leaves == UNCHANGED <<nvs, ram, step, overlap>>

\* What a step can be to the stored configuration.
LEMMA StepKinds ==
  ASSUME IInv, [Next]_vars
  PROVE  \/ Restart \/ Crash
         \/ \E t \in Threads : EndSave(t) \/ Put(t) \/ Begins(t)
         \/ Touches \/ Leaves
<1> USE DEF storeVars, mainVars, saveVars, historyVars
<1>0. CASE UNCHANGED vars
  BY <1>0 DEF vars, Leaves
<1>1. CASE EditField \/ Unlink \/ LanSled
  BY <1>1 DEF EditField, Unlink, LanSled, Touches
<1>2. CASE Boot \/ BootForced
  <2>1. ~AnySaving
    BY <1>2 DEF Boot, BootForced, IInv, SavesInPlace
  <2>2. overlap' = (overlap \/ AnySaving)
    <3>1. overlap' = overlap /\ overlap \in BOOLEAN
      BY <1>2 DEF Boot, BootForced, IInv, TypeOK, SavesOK
    <3> QED
      BY <2>1, <3>1
  <2> QED
    BY <1>2, <2>2 DEF Boot, BootForced, Touches
<1>3. CASE BleCleanup \/ LongPress \/ LanRequest \/ LanDone
  BY <1>3 DEF BleCleanup, LongPress, LanRequest, LanDone, Leaves
<1>4. CASE BleSeesSaved \/ BleTimeout \/ BleButton \/ BleDisconnect
  BY <1>4 DEF BleSeesSaved, BleTimeout, BleButton, BleExit, BleDisconnect, Leaves
<1>5. CASE ApLoopEnds \/ ApTeardown \/ ResumeButton \/ VerifiedUnlink
  BY <1>5 DEF ApLoopEnds, ApTeardown, ResumeButton, VerifiedUnlink, Leaves
<1>6. CASE SmartConfigDone \/ \E f \in Forms : LanConfig(f)
  <2>1. Begins("main")
    BY <1>6 DEF SmartConfigDone, LanConfig, BeginSave, Begins
  <2> QED
    BY <2>1 DEF Threads
<1>7. CASE \E p \in Portals, f \in Forms : Submit(p, f)
  BY <1>7 DEF Submit, BeginSave, Begins, Threads
<1>8. CASE \E t \in Threads : SaveStep(t)
  BY <1>8 DEF SaveStep, Acknowledge, MainSaved
<1>9. CASE Restart \/ Crash
  BY <1>9
<1>10. CASE LoadText \/ LoadKey \/ EndLoad \/ Erase
  <2>1. overlap' = overlap /\ overlap \in BOOLEAN /\ (overlap \/ ~AnySaving)
    BY <1>10 DEF LoadText, LoadKey, EndLoad, Erase, IInv, TypeOK, SavesOK, SavesInPlace,
       Texts, BoundKey
  <2>2. overlap' = (overlap \/ AnySaving)
    BY <2>1
  <2> QED
    BY <1>10, <2>2 DEF LoadText, LoadKey, EndLoad, Erase, Touches
<1>11. CASE LoadAtOnce
  <2>1. overlap' = (overlap \/ AnySaving)
    BY <1>11 DEF LoadAtOnce, IInv, TypeOK, SavesOK
  <2> QED
    BY <1>11, <2>1 DEF LoadAtOnce, Touches
<1>12. CASE BeginLoad \/ BeginAsk
  BY <1>12 DEF BeginLoad, BeginAsk, Touches
<1>13. CASE Answer
  BY <1>13 DEF Answer, Leaves
<1> QED
  BY <1>0, <1>1, <1>2, <1>3, <1>4, <1>5, <1>6, <1>7, <1>8, <1>9, <1>10, <1>11, <1>12, <1>13
     DEF Next, MainStep, UserStep, LoadStep

\* A restart ends all saves and leaves the namespace alone.
LEMMA AfterRestart ==
  ASSUME Restart \/ Crash
  PROVE  ~AnySaving' /\ ~overlap' /\ nvs' = nvs
BY DEF Restart, Crash, PowerUp, AnySaving, Saving, storeVars

\* A save under way that nobody disturbed is the only one.
LEMMA OnlySaver ==
  ASSUME IInv, ~overlap, NEW t \in Threads, Saving(t)
  PROVE  Alone /\ open = "write" /\ \A u \in Threads : Saving(u) => u = t
BY DEF IInv, SavedPrefix, Alone, AnySaving

\* Its end leaves none.
LEMMA AfterEnd ==
  ASSUME IInv, ~overlap, NEW t \in Threads, EndSave(t)
  PROVE  ~AnySaving' /\ ~overlap' /\ nvs' = nvs /\ Alone
<1>1. step \in [Threads -> 0 .. LastPut + 1] /\ Saving(t)
  BY DEF IInv, TypeOK, SavesOK, EndSave, Saving, LastPut, ProvKey
<1>2. \A u \in Threads : step'[u] = 0
  BY <1>1, OnlySaver DEF EndSave, Saving
<1>3. QED  BY <1>1, <1>2, OnlySaver DEF EndSave, AnySaving, Saving

\* What AppConfig amounts to is a state of the namespace, and so is what is
\* written of it.
LEMMA TargetTyped == DataOK => Target \in NvsStates
<1> SUFFICES ASSUME DataOK PROVE Target \in NvsStates
  OBVIOUS
<1>1. Configured(ram) \in BOOLEAN
  BY DEF Configured, HasBroker, HasNetwork
<1>2. ram.text \in [Texts -> Values]
  BY DEF DataOK, Configs
<1>3. (IF ram.bound THEN "yes" ELSE "no") \in {"none", "no", "yes"}
  OBVIOUS
<1> QED
  BY <1>1, <1>2, <1>3 DEF Target, NvsStates

\* The k-th write adds the k-th key to those written.
LEMMA NextWritten ==
  ASSUME DataOK, before \in NvsStates, NEW k \in 1 .. LastPut, nvs = Written(k)
  PROVE  ValueOf(k) = Written(k + 1)
<1> DEFINE new == Target
<1>1. /\ new.text = ram.text /\ new.bound = (IF ram.bound THEN "yes" ELSE "no")
      /\ new.prov = Configured(ram)
  BY DEF Target
<1>2. new \in NvsStates
  BY TargetTyped
<1> HIDE DEF new
<1>3. nvs = [text  |-> [i \in Texts |-> IF i < k THEN new.text[i] ELSE before.text[i]],
             bound |-> IF k > BoundKey THEN new.bound ELSE before.bound,
             prov  |-> IF k > ProvKey  THEN new.prov  ELSE before.prov]
  BY DEF Written, new
<1>4. Written(k + 1) =
            [text  |-> [i \in Texts |-> IF i < k + 1 THEN new.text[i] ELSE before.text[i]],
             bound |-> IF k + 1 > BoundKey THEN new.bound ELSE before.bound,
             prov  |-> IF k + 1 > ProvKey  THEN new.prov  ELSE before.prov]
  BY DEF Written, new
<1>5. CASE k \in Texts
  <2>1. ValueOf(k) = [nvs EXCEPT !.text[k] = new.text[k]]
    BY <1>1, <1>5 DEF ValueOf, Texts, BoundKey, ProvKey
  <2>2. [nvs.text EXCEPT ![k] = new.text[k]] =
            [i \in Texts |-> IF i < k + 1 THEN new.text[i] ELSE before.text[i]]
    BY <1>3, <1>5 DEF Texts
  <2>3. ~(k > BoundKey) /\ ~(k + 1 > BoundKey) /\ ~(k > ProvKey) /\ ~(k + 1 > ProvKey)
    BY <1>5 DEF Texts, BoundKey, ProvKey
  <2>4. ValueOf(k) = [text |-> [nvs.text EXCEPT ![k] = new.text[k]],
                      bound |-> nvs.bound, prov |-> nvs.prov]
    BY <2>1 DEF DataOK, NvsStates
  <2> QED
    BY <1>3, <1>4, <2>2, <2>3, <2>4
<1>6. CASE k = BoundKey
  <2>1. ValueOf(k) = [nvs EXCEPT !.bound = new.bound]
    BY <1>1, <1>6 DEF ValueOf, Texts, BoundKey, ProvKey
  <2>2. [i \in Texts |-> IF i < k THEN new.text[i] ELSE before.text[i]] =
            [i \in Texts |-> IF i < k + 1 THEN new.text[i] ELSE before.text[i]]
    BY <1>6 DEF Texts, BoundKey
  <2>3. k + 1 > BoundKey /\ ~(k > ProvKey) /\ ~(k + 1 > ProvKey)
    BY <1>6 DEF BoundKey, ProvKey
  <2>4. ValueOf(k) = [text |-> nvs.text, bound |-> new.bound, prov |-> nvs.prov]
    BY <2>1 DEF DataOK, NvsStates
  <2> QED
    BY <1>3, <1>4, <2>2, <2>3, <2>4
<1>7. CASE k = ProvKey
  <2>1. ValueOf(k) = [nvs EXCEPT !.prov = new.prov]
    BY <1>1, <1>7 DEF ValueOf, Texts, BoundKey, ProvKey
  <2>2. [i \in Texts |-> IF i < k THEN new.text[i] ELSE before.text[i]] =
            [i \in Texts |-> IF i < k + 1 THEN new.text[i] ELSE before.text[i]]
    BY <1>7 DEF Texts, ProvKey
  <2>3. k > BoundKey /\ k + 1 > BoundKey /\ k + 1 > ProvKey
    BY <1>7 DEF BoundKey, ProvKey
  <2>4. ValueOf(k) = [text |-> nvs.text, bound |-> nvs.bound, prov |-> new.prov]
    BY <2>1 DEF DataOK, NvsStates
  <2> QED
    BY <1>3, <1>4, <2>2, <2>3, <2>4
<1> QED
  BY <1>5, <1>6, <1>7 DEF LastPut, Texts, BoundKey, ProvKey

\* So does a step of a save that nobody disturbs.
LEMMA PutWrites ==
  ASSUME StoreInv, ~overlap, NEW t \in Threads, Put(t), before' = before
  PROVE  nvs' = Written(step[t])'
<1>1. step[t] \in 1 .. LastPut /\ nvs' = ValueOf(step[t]) /\ ram' = ram
  <2>1. Saving(t)
    BY DEF Put, Saving
  <2>2. open = "write"
    BY <2>1, OnlySaver DEF StoreInv
  <2> QED
    BY <2>2 DEF Put
<1>2. nvs = Written(step[t]) /\ DataOK /\ before \in NvsStates
  BY <1>1 DEF StoreInv, SaveIsPrefix, Saving, IInv, TypeOK, LastPut, ProvKey
<1>3. nvs' = Written(step[t] + 1)
  BY <1>1, <1>2, NextWritten
<1>4. step'[t] = step[t] + 1
  BY DEF StoreInv, IInv, TypeOK, SavesOK, Put
<1>5. Written(step[t])' = Written(step'[t])
  BY <1>1 DEF Written, Target
<1> QED
  BY <1>3, <1>4, <1>5

\* Before the first write the namespace is as it was.
LEMMA WrittenFirst == before \in NvsStates => Written(1) = before
BY DEF Written, NvsStates, Texts, BoundKey, ProvKey

\* A save that begins alone is the only one, and begins with the namespace.
LEMMA AfterBegin ==
  ASSUME StoreInv, ~overlap, ~AnySaving, NEW t \in Threads, Begins(t),
         before' = IF Alone /\ Alone' THEN before ELSE nvs'
  PROVE  /\ Alone' /\ before' = nvs
         /\ step'[t] = 1 /\ \A u \in Threads : Saving(u)' => u = t
<1>1. step \in [Threads -> 0 .. LastPut + 1] /\ ~overlap'
  BY DEF StoreInv, IInv, TypeOK, SavesOK, Begins
<1>2. step'[t] = 1 /\ \A u \in Threads : u # t => step'[u] = 0
  BY <1>1 DEF Begins, AnySaving, Saving
<1>3. Alone' /\ ~Alone
  BY <1>1, <1>2 DEF Alone, AnySaving, Saving
<1>4. before' = nvs
  BY <1>3 DEF Begins
<1>5. QED  BY <1>2, <1>3, <1>4 DEF Saving

\* The history knows what NVS held when the save under way began.
LEMMA PrefixKept ==
  ASSUME StoreInv, [Next]_vars, before' = IF Alone /\ Alone' THEN before ELSE nvs'
  PROVE  SaveIsPrefix'
<1>1. before' \in NvsStates
  <2>1. nvs' \in NvsStates
    BY StepPreserves DEF StoreInv, IInv, TypeOK, DataOK
  <2>2. QED  BY <2>1 DEF StoreInv, SaveIsPrefix
<1>2. SUFFICES ASSUME NEW t \in Threads, Saving(t)', ~overlap'
               PROVE  nvs' = Written(step[t])'
  BY <1>1 DEF SaveIsPrefix
<1>3. ~Restart /\ ~Crash
  BY <1>2, AfterRestart DEF AnySaving
<1>4. IInv /\ step \in [Threads -> 0 .. LastPut + 1]
  BY DEF StoreInv, IInv, TypeOK, SavesOK
<1>5. CASE \E u \in Threads : EndSave(u)
  <2>1. ~overlap
    BY <1>2, <1>5 DEF EndSave
  <2>2. QED  BY <1>2, <1>4, <1>5, <2>1, AfterEnd DEF AnySaving
<1>6. CASE \E u \in Threads : Put(u)
  <2> PICK u \in Threads : Put(u)
    BY <1>6
  <2>1. ~overlap /\ Saving(u) /\ step'[u] # 0 /\ \A v \in Threads : v # u => step'[v] = step[v]
    BY <1>2, <1>4 DEF Put, Saving, LastPut, ProvKey
  <2>2. Alone /\ \A v \in Threads : Saving(v) => v = u
    BY <1>4, <2>1, OnlySaver
  <2>3. t = u
    BY <1>2, <2>1, <2>2 DEF Saving
  <2>4. before' = before
    BY <1>2, <2>2 DEF Alone, AnySaving
  <2>5. QED  BY <2>1, <2>3, <2>4, PutWrites
<1>7. CASE \E u \in Threads : Begins(u)
  <2> PICK u \in Threads : Begins(u)
    BY <1>7
  <2>1. ~overlap /\ ~AnySaving
    BY <1>2 DEF Begins
  <2>2. before' = nvs /\ step'[u] = 1 /\ t = u
    BY <1>2, <2>1, AfterBegin
  <2>3. Written(1)' = before'
    <3>1. (before \in NvsStates => Written(1) = before)'
      BY WrittenFirst, PTL
    <3>2. QED  BY <1>1, <3>1
  <2>4. Written(step[t])' = Written(1)'
    BY <2>2 DEF Written
  <2>5. QED  BY <2>2, <2>3, <2>4 DEF Begins
<1>8. CASE Touches
  <2>1. ~AnySaving /\ step' = step
    BY <1>2, <1>8 DEF Touches
  <2>2. QED  BY <1>2, <2>1 DEF AnySaving, Saving
<1>9. CASE Leaves
  <2>1. nvs' = nvs /\ ram' = ram /\ step' = step /\ ~overlap /\ Saving(t)
    BY <1>2, <1>9 DEF Leaves, Saving
  <2>2. before' = before
    BY <1>2, <2>1 DEF Alone, AnySaving
  <2>3. Written(step[t])' = Written(step[t])
    BY <2>1, <2>2 DEF Written, Target
  <2>4. QED  BY <2>1, <2>3 DEF StoreInv, SaveIsPrefix
<1>10. QED  BY <1>3, <1>4, <1>5, <1>6, <1>7, <1>8, <1>9, StepKinds

\* While nobody is disturbed, the stored configuration is the one before the
\* save under way; what is written so far is what a cut of it leaves.
THEOREM StoreSafety == StoreSpec => []StoreInv
<1>1. StoreInit => StoreInv
  <2> SUFFICES ASSUME StoreInit PROVE StoreInv
    OBVIOUS
  <2>1. IInv /\ before \in NvsStates
    <3>1. IInv /\ before = nvs
      BY InitEstablishes DEF StoreInit
    <3>2. QED  BY <3>1 DEF IInv, TypeOK, DataOK
  <2>2. \A t \in Threads : ~Saving(t)
    BY DEF StoreInit, Init, Saving
  <2>3. QED  BY <2>1, <2>2 DEF StoreInv, SaveIsPrefix
<1>2. StoreInv /\ [StoreNext]_allVars => StoreInv'
  <2> SUFFICES ASSUME StoreInv, [StoreNext]_allVars PROVE StoreInv'
    OBVIOUS
  <2>1. CASE StoreNext
    <3>1. IInv'
      BY <2>1, StepPreserves DEF StoreNext, StoreInv
    <3>2. SaveIsPrefix'
      BY <2>1, PrefixKept DEF StoreNext
    <3>3. QED  BY <3>1, <3>2 DEF StoreInv
  <2>2. CASE UNCHANGED allVars
    <3>1. IInv'
      BY <2>2, StepPreserves DEF StoreInv, allVars
    <3>2. /\ before' = before /\ nvs' = nvs /\ ram' = ram
          /\ step' = step /\ overlap' = overlap
      BY <2>2 DEF allVars, vars, storeVars, saveVars
    <3>3. \A t \in Threads : Written(step[t])' = Written(step[t])
      BY <3>2 DEF Written, Target
    <3>4. SaveIsPrefix'
      BY <3>2, <3>3 DEF StoreInv, SaveIsPrefix, Saving
    <3>5. QED  BY <3>1, <3>4 DEF StoreInv
  <2>3. QED  BY <2>1, <2>2
<1>3. QED  BY <1>1, <1>2, PTL DEF StoreSpec

\* What is written before any write is one of the cuts of the store.
LEMMA WrittenIsCut ==
  ASSUME DataOK, before \in NvsStates, NEW k \in 1 .. LastPut + 1
  PROVE  Written(k) \in Store!Cuts(before, Target)
<1> DEFINE new == Target
<1>1. new \in NvsStates
  BY TargetTyped
<1> HIDE DEF new
<1>2. Written(k) =
            [text  |-> [i \in Texts |-> IF i < k THEN new.text[i] ELSE before.text[i]],
             bound |-> IF k > BoundKey THEN new.bound ELSE before.bound,
             prov  |-> IF k > ProvKey  THEN new.prov  ELSE before.prov]
  BY DEF Written, new
<1>3. CASE k \in Texts
  <2>1. Written(k) = Store!Cut(before, new, {i \in Texts : i < k}, FALSE, FALSE)
    BY <1>2, <1>3 DEF Store!Cut, Texts, BoundKey, ProvKey
  <2> QED
    BY <1>3, <2>1 DEF Store!Cuts, new
<1>4. CASE k \in {BoundKey, ProvKey}
  <2>1. Written(k) = Store!Cut(before, new, Texts, k > BoundKey, FALSE)
    BY <1>2, <1>4 DEF Store!Cut, Texts, BoundKey, ProvKey
  <2>2. (k > BoundKey) \in BOOLEAN
    OBVIOUS
  <2> QED
    BY <2>1, <2>2 DEF Store!Cuts, new
<1>5. CASE k = LastPut + 1
  <2>1. Written(k) = [text |-> [i \in Texts |-> new.text[i]], bound |-> new.bound,
                      prov |-> new.prov]
    BY <1>2, <1>5 DEF Texts, BoundKey, ProvKey, LastPut
  <2>2. Written(k) = new
    BY <1>1, <2>1 DEF NvsStates
  <2> QED
    BY <2>2 DEF Store!Cuts, new
<1> QED
  BY <1>3, <1>4, <1>5 DEF LastPut, Texts, BoundKey, ProvKey

\* Every step is one of the store's, or none. A restart cuts the save under way.
LEMMA StoreRestarts == ASSUME StoreInv, Restart \/ Crash PROVE [Store!Next]_(Store!vars)
<1>1. ~Alone' /\ ~overlap' /\ nvs' = nvs
  BY AfterRestart DEF Alone
<1>2. CASE overlap
  <2>1. ~Alone
    BY <1>2 DEF Alone
  <2>2. Store!Restart
    BY <1>1, <1>2, <2>1 DEF Store!Restart
  <2>3. QED  BY <2>2 DEF Store!Next
<1>3. CASE ~overlap /\ ~AnySaving
  <2>1. ~Alone
    BY <1>3 DEF Alone
  <2>2. UNCHANGED Store!vars
    BY <1>1, <1>3, <2>1 DEF Store!vars
  <2>3. QED  BY <2>2
<1>4. CASE ~overlap /\ AnySaving
  <2>1. PICK t \in Threads : Saving(t)
    BY <1>4 DEF AnySaving
  <2>2. Alone /\ step[t] \in 1 .. LastPut + 1
    BY <1>4, <2>1 DEF Alone, Saving, StoreInv, IInv, TypeOK, SavesOK, LastPut, ProvKey
  <2>3. nvs = Written(step[t]) /\ before \in NvsStates
    BY <1>4, <2>1 DEF StoreInv, SaveIsPrefix
  <2>4. Written(step[t]) \in Store!Cuts(before, Target)
    BY <2>2, <2>3, WrittenIsCut DEF StoreInv, IInv, TypeOK
  <2>5. nvs' \in Store!Cuts(before, Target)
    BY <1>1, <2>3, <2>4
  <2>6. Store!PowerLoss
    BY <1>1, <1>4, <2>2, <2>5 DEF Store!PowerLoss
  <2>7. QED  BY <2>6 DEF Store!Next
<1>5. QED  BY <1>2, <1>3, <1>4

\* The end of a save is the store's commit.
LEMMA StoreCommits ==
  ASSUME StoreInv, NEW t \in Threads, EndSave(t)
  PROVE  [Store!Next]_(Store!vars)
<1>1. CASE overlap
  <2>1. overlap' /\ ~Alone /\ ~Alone'
    BY <1>1 DEF EndSave, Alone
  <2>2. Store!Broken
    BY <1>1, <2>1 DEF Store!Broken
  <2>3. QED  BY <2>2 DEF Store!Next
<1>2. CASE ~overlap
  <2>1. ~Alone' /\ ~overlap' /\ nvs' = nvs /\ Alone
    BY <1>2, AfterEnd DEF StoreInv, Alone
  <2>2. nvs = Target
    <3>1. nvs = Written(step[t]) /\ step[t] = LastPut + 1
      BY <1>2 DEF StoreInv, SaveIsPrefix, EndSave, Saving, LastPut, ProvKey
    <3>2. Written(step[t]) = Target
      BY <3>1, TargetTyped DEF Written, StoreInv, IInv, TypeOK, NvsStates, LastPut, Texts,
         BoundKey, ProvKey
    <3> QED
      BY <3>1, <3>2
  <2>3. Store!Commit
    BY <1>2, <2>1, <2>2 DEF Store!Commit
  <2>4. QED  BY <2>3 DEF Store!Next
<1>3. QED  BY <1>1, <1>2

\* A save begins, or runs into another one.
LEMMA StoreBegins ==
  ASSUME StoreInv, NEW t \in Threads, Begins(t), [Next]_vars,
         before' = IF Alone /\ Alone' THEN before ELSE nvs'
  PROVE  [Store!Next]_(Store!vars)
<1>1. CASE overlap
  <2>1. overlap' /\ ~Alone /\ ~Alone'
    BY <1>1 DEF Begins, Alone
  <2>2. Store!Broken
    <3>1. overlap \in BOOLEAN /\ overlap' = overlap
      BY <1>1, <2>1 DEF Begins, StoreInv, IInv, TypeOK, SavesOK
    <3>2. QED  BY <1>1, <2>1, <3>1 DEF Store!Broken
  <2>3. QED  BY <2>2 DEF Store!Next
<1>2. CASE ~overlap /\ AnySaving
  <2>1. overlap' /\ Alone /\ ~Alone'
    BY <1>2 DEF Begins, Alone
  <2>2. Store!Collide
    BY <1>2, <2>1 DEF Store!Collide
  <2>3. QED  BY <2>2 DEF Store!Next
<1>3. CASE ~overlap /\ ~AnySaving
  <2>1. Alone' /\ before' = nvs /\ ~Alone /\ ~overlap'
    BY <1>3, AfterBegin DEF Alone
  <2>2. Target' \in NvsStates
    <3>1. DataOK'
      BY StepPreserves DEF StoreInv, IInv, TypeOK
    <3>2. (DataOK => Target \in NvsStates)'
      BY TargetTyped, PTL
    <3>3. QED  BY <3>1, <3>2
  <2>3. Store!Begin
    BY <1>3, <2>1, <2>2 DEF Store!Begin
  <2>4. QED  BY <2>3 DEF Store!Next
<1>4. QED  BY <1>1, <1>2, <1>3

\* A write of a save, a step that touches AppConfig, and one that leaves it.
LEMMA StoreStays ==
  ASSUME StoreInv, (\E t \in Threads : Put(t)) \/ Touches \/ Leaves,
         before' = IF Alone /\ Alone' THEN before ELSE nvs'
  PROVE  [Store!Next]_(Store!vars)
<1>0. overlap \in BOOLEAN /\ step \in [Threads -> 0 .. LastPut + 1]
  BY DEF StoreInv, IInv, TypeOK, SavesOK
<1>1. CASE overlap
  <2>1. overlap' = overlap
    BY <1>0, <1>1 DEF Put, Touches, Leaves
  <2>2. ~Alone /\ ~Alone'
    BY <1>1, <2>1 DEF Alone
  <2>3. Store!Broken
    BY <1>1, <2>1, <2>2 DEF Store!Broken
  <2>4. QED  BY <2>3 DEF Store!Next
<1>2. CASE ~overlap /\ \E t \in Threads : Put(t)
  <2> PICK t \in Threads : Put(t)
    BY <1>2
  <2>1. Saving(t) /\ step'[t] # 0
    BY <1>0 DEF Put, Saving, LastPut, ProvKey
  <2>2. Alone /\ Alone'
    BY <1>2, <2>1 DEF Alone, AnySaving, Saving, Put
  <2>3. before' = before /\ Target' = Target /\ overlap' = overlap
    BY <2>2 DEF Put, Target
  <2>4. QED  BY <2>2, <2>3 DEF Store!vars
<1>3. CASE ~overlap /\ Touches
  <2>1. CASE AnySaving
    <3>1. overlap' /\ Alone /\ ~Alone'
      BY <1>3, <2>1 DEF Touches, Alone
    <3>2. Store!Collide
      BY <1>3, <3>1 DEF Store!Collide
    <3>3. QED  BY <3>2 DEF Store!Next
  <2>2. CASE ~AnySaving
    <3>1. ~overlap' /\ ~Alone /\ ~Alone'
      BY <1>3, <2>2 DEF Touches, Alone, AnySaving, Saving
    <3>2. CASE nvs' = nvs
      BY <1>3, <3>1, <3>2 DEF Store!vars
    <3>3. CASE nvs' = Cleared
      <4>1. Store!Erase
        BY <1>3, <3>1, <3>3 DEF Store!Erase
      <4>2. QED  BY <4>1 DEF Store!Next
    <3>4. QED  BY <1>3, <3>2, <3>3 DEF Touches
  <2>3. QED  BY <2>1, <2>2
<1>4. CASE ~overlap /\ Leaves
  <2>1. /\ nvs' = nvs /\ Target' = Target /\ overlap' = overlap
        /\ Alone' = Alone
    BY <1>4 DEF Leaves, Target, Alone, AnySaving, Saving
  <2>2. Alone => before' = before
    BY <2>1
  <2>3. QED  BY <2>1, <2>2 DEF Store!vars
<1>5. QED  BY <1>1, <1>2, <1>3, <1>4

\* With its history variable the device behaves as without: what the other
\* theorems say of Spec holds of StoreSpec.
THEOREM HistoryOnly == StoreSpec => Spec
<1>1. StoreInit => Init
  BY DEF StoreInit
<1>2. [StoreNext]_allVars => [Next]_vars
  BY DEF StoreNext, allVars
<1>3. QED  BY <1>1, <1>2, PTL DEF StoreSpec, Spec

\* The configuration's life, with saves written key by key beside three threads,
\* power losses and restarts, implements the store that is saved at once.
THEOREM ImplementsTheStore == StoreSpec => ImplementsStore
<1>1. StoreInit => Store!Init
  <2> SUFFICES ASSUME StoreInit PROVE Store!Init
    OBVIOUS
  <2>1. ~Alone /\ nvs = Cleared /\ overlap = FALSE
    BY DEF StoreInit, Init, Alone, AnySaving, Saving
  <2>2. QED  BY <2>1 DEF Store!Init
<1>2. StoreInv /\ [StoreNext]_allVars => [Store!Next]_(Store!vars)
  <2> SUFFICES ASSUME StoreInv, [StoreNext]_allVars
               PROVE  [Store!Next]_(Store!vars)
    OBVIOUS
  <2>1. CASE StoreNext
    <3>1. Next /\ before' = IF Alone /\ Alone' THEN before ELSE nvs'
      BY <2>1 DEF StoreNext
    <3>2. \/ Restart \/ Crash
          \/ \E t \in Threads : EndSave(t) \/ Put(t) \/ Begins(t)
          \/ Touches \/ Leaves
      BY <3>1, StepKinds DEF StoreInv
    <3>3. QED  BY <3>1, <3>2, StoreRestarts, StoreCommits, StoreBegins, StoreStays
  <2>2. CASE UNCHANGED allVars
    <3>1. before' = before /\ Leaves
      BY <2>2 DEF allVars, vars, storeVars, saveVars, Leaves
    <3>2. Alone' = Alone /\ Target' = Target
      BY <3>1 DEF Leaves, Target, Alone, AnySaving, Saving
    <3>3. QED  BY <3>1, <3>2 DEF Leaves, Store!vars
  <2>3. QED  BY <2>1, <2>2
<1>3. QED
  BY <1>1, <1>2, StoreSafety, PTL DEF StoreSpec, ImplementsStore, Store!Spec
=============================================================================
