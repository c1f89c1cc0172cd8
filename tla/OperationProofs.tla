-------------------------- MODULE OperationProofs ---------------------------
(***************************************************************************)
(* Proofs about Operation, for every set of accounts and brokers and any   *)
(* number of power losses.                                                 *)
(***************************************************************************)
EXTENDS Operation, TLAPS

LEMMA ConfigFacts ==
    /\ Factory \in Configs
    /\ \A c \in Configs, s \in BOOLEAN : [c EXCEPT !.sled = s] \in Configs
    /\ \A c \in Configs, a \in Owners : [c EXCEPT !.acct = a] \in Configs
  BY DEF Configs, Factory, Owners

LEMMA StoredFacts ==
    ASSUME nvs \in Configs, NEW a \in Owners, NEW s \in BOOLEAN
    PROVE  /\ Stored(a, s) \in Configs
           /\ Stored(a, s).prov
           /\ Stored(a, s).sled = s
           /\ Stored(a, s).acct = IF a = None THEN nvs.acct ELSE a
  BY DEF Configs, Stored, Owners

LEMMA BrokerFacts ==
    ASSUME home \in Homes, NEW a \in Owners
    PROVE  BrokerOf(a) \in Brokers \cup {None}
  BY SessionAssumption DEF BrokerOf

LEMMA InitIInv == Init => IInv
<1> SUFFICES ASSUME Init PROVE IInv
  OBVIOUS
<1>1. nvs \in Configs /\ ram \in Configs
  BY ConfigFacts DEF Init
<1>2. SessionOK
  BY DEF Init, SessionInit, SessionOK, Owners
<1>3. LanOK
  BY DEF Init, LanInit, LanOK
<1>4. crashes \in 0 .. MaxCrashes
  BY OperationAssumption DEF Init
<1>5. TypeOK
  BY <1>1, <1>2, <1>3, <1>4 DEF Init, TypeOK, Places
<1>6. Consistent /\ SledAgrees
  BY DEF Init, SessionInit, LanInit, Consistent, SledAgrees, Factory
<1> QED
  BY <1>5, <1>6 DEF IInv

(***************************************************************************)
(* What the session's actions keep.                                        *)
(***************************************************************************)
\* A restart.
LEMMA SessionReseted ==
    ASSUME SessionOK, SessionReset, UNCHANGED <<home, subs, queued, serviceVars>>
    PROVE  SessionOK'
  BY DEF SessionOK, SessionReset, Owners, serviceVars

LEMMA SessionSame ==
    ASSUME SessionOK, UNCHANGED sessionVars
    PROVE  SessionOK'
  BY DEF SessionOK, sessionVars, clientVars, serviceVars, queueVars

\* An attempt to connect with account a or with what the client has.
LEMMA SessionDialled ==
    ASSUME SessionOK, NEW a \in Owners, Dialled(a) \/ Redialled,
           Admitted \/ RefusedBy \/ Unanswered
    PROVE  SessionOK'
<1>1. /\ home' = home /\ begun' \in BOOLEAN
      /\ host' \in Brokers \cup {None} /\ user' \in Owners
  BY BrokerFacts DEF SessionOK, Dialled, Redialled
<1>2. up' \in BOOLEAN /\ UNCHANGED <<queued, linked, unlinked>>
  BY DEF SessionOK, Admitted, RefusedBy, Unanswered, queueVars, serviceVars
<1>3. subs' \subseteq Brokers
  <2>1. CASE Admitted
    <3>1. host' \in Brokers
      BY <2>1, <1>1, SessionAssumption DEF Admitted, Admits, Known, BrokerOf, SessionOK
    <3> QED
      BY <2>1, <3>1 DEF Admitted, SessionOK
  <2>2. CASE RefusedBy \/ Unanswered
    BY <2>2 DEF RefusedBy, Unanswered, queueVars, SessionOK
  <2> QED
    BY <2>1, <2>2
<1> QED
  BY <1>1, <1>2, <1>3 DEF SessionOK

LEMMA SessionElsewhere ==
    ASSUME SessionOK,
           \/ SessionLost
           \/ \E b \in Brokers : SessionExpires(b)
           \/ \E a \in Accounts : ServiceLinks(a) \/ ServiceUnlinks(a) \/ CommandArrives(a)
    PROVE  SessionOK'
<1>1. CASE SessionLost
  BY <1>1 DEF SessionLost, SessionOK, queueVars, serviceVars
<1>2. CASE \E b \in Brokers : SessionExpires(b)
  BY <1>2 DEF SessionExpires, SessionOK, clientVars, serviceVars
<1>3. CASE \E a \in Accounts : ServiceLinks(a) \/ ServiceUnlinks(a)
  BY <1>3 DEF ServiceLinks, ServiceUnlinks, SessionOK, clientVars, queueVars, Owners
<1>4. CASE \E a \in Accounts : CommandArrives(a)
  BY <1>4 DEF CommandArrives, SessionOK, serviceVars
<1> QED
  BY <1>1, <1>2, <1>3, <1>4

LEMMA LanSame ==
    ASSUME LanOK, UNCHANGED lanVars
    PROVE  LanOK'
  BY DEF LanOK, lanVars

\* Every action of LanServer.
LEMMA LanStep ==
    ASSUME LanOK, NEW setting \in BOOLEAN,
           \/ Served \/ Stopped \/ SledSet(setting) \/ SledAnswered \/ Reannounced
           \/ UnlinkPosted \/ UnlinkGivenUp \/ UnlinkAccepted
           \/ (LanReset /\ led' \in BOOLEAN)
    PROVE  LanOK'
  BY DEF LanOK, Served, Stopped, SledSet, SledAnswered, Reannounced, UnlinkPosted, UnlinkGivenUp,
         UnlinkAccepted, LanReset, Notified, Text

(***************************************************************************)
(* Type correctness.                                                       *)
(***************************************************************************)
\* The pairings that store something: at start-up, from the button, and from
\* the button without a restart.
PairBoot   == \E a \in Owners, s \in BOOLEAN : PairAtBoot(a, s)
PairButton == \E a \in Owners, s \in BOOLEAN : PairByButton(a, s)
PairLate   == \E a \in Owners, s \in BOOLEAN : PairingLate(a, s)

LEMMA RestartType ==
    ASSUME SessionOK, LanOK, Restarted, nvs' \in Configs
    PROVE  /\ SessionOK' /\ LanOK'
           /\ pending' = FALSE /\ edited' = FALSE /\ behind' = FALSE /\ pc' = "boot"
<1>1. SessionOK'
  BY SessionReseted DEF Restarted
<1>2. led' \in BOOLEAN
  BY DEF Restarted, Configs
<1>3. LanOK'
  BY <1>2, LanStep DEF Restarted
<1> QED
  BY <1>1, <1>3 DEF Restarted

LEMMA TypeBoot ==
    ASSUME TypeOK, Boot \/ EraseAtBoot \/ PairBoot
    PROVE  TypeOK'
<1> USE DEF TypeOK
<1>1. CASE Boot
  <2>1. SessionOK' /\ LanOK'
    BY <1>1, SessionSame, LanSame DEF Boot
  <2> QED
    BY <1>1, <2>1 DEF Boot, Reload, Places
<1>2. CASE EraseAtBoot
  <2>1. SessionOK' /\ LanOK'
    BY <1>2, SessionSame, LanSame DEF EraseAtBoot
  <2> QED
    BY <1>2, <2>1, ConfigFacts DEF EraseAtBoot
<1>3. CASE PairBoot
  <2>1. PICK a \in Owners, s \in BOOLEAN : PairAtBoot(a, s)
    BY <1>3 DEF PairBoot
  <2>2. SessionOK' /\ LanOK' /\ behind' \in BOOLEAN
    BY <2>1, SessionSame DEF PairAtBoot, LanOK
  <2>3. nvs' \in Configs /\ ram' \in Configs
    BY <2>1, StoredFacts DEF PairAtBoot
  <2> QED
    BY <2>1, <2>2, <2>3 DEF PairAtBoot
<1> QED
  BY <1>1, <1>2, <1>3

\* What every pairing without a restart keeps.
LEMMA TypeOver ==
    ASSUME TypeOK, PairingOver, nvs' \in Configs, behind' \in BOOLEAN
    PROVE  TypeOK'
<1> USE DEF TypeOK
<1>1. SessionOK' /\ LanOK'
  BY SessionSame, LanSame DEF PairingOver
<1>2. nvs'.acct \in Owners
  BY DEF Configs
<1>3. PICK a \in Edits \cup {nvs'.acct} : ram' = [nvs' EXCEPT !.acct = a]
  BY DEF PairingOver
<1>4. a \in Owners
  BY <1>2, OperationAssumption DEF Owners
<1>5. ram' \in Configs
  BY <1>3, <1>4, ConfigFacts
<1>6. edited' \in BOOLEAN
  BY DEF PairingOver
<1> QED
  BY <1>1, <1>5, <1>6 DEF PairingOver, Places

LEMMA TypeTop ==
    ASSUME TypeOK,
           Wipe \/ Pass \/ PairingCancelled \/ PairLate \/ Crash \/ PairButton
    PROVE  TypeOK'
<1>1. CASE Wipe
  <2>1. nvs' \in Configs /\ ram' \in Configs
    BY <1>1, ConfigFacts DEF Wipe
  <2>2. /\ SessionOK' /\ LanOK'
        /\ pending' = FALSE /\ edited' = FALSE /\ behind' = FALSE /\ pc' = "boot"
    BY <1>1, <2>1, RestartType DEF Wipe, TypeOK
  <2> QED
    BY <1>1, <2>1, <2>2 DEF Wipe, Places, TypeOK
<1>2. CASE Pass
  <2>1. SessionOK' /\ LanOK'
    BY <1>2, SessionSame, LanSame DEF Pass, TypeOK
  <2> QED
    BY <1>2, <2>1 DEF Pass, storeVars, Places, TypeOK
<1>3. CASE PairingCancelled
  <2>1. PairingOver /\ nvs' \in Configs /\ behind' \in BOOLEAN
    BY <1>3 DEF PairingCancelled, TypeOK
  <2> QED
    BY <2>1, TypeOver
<1>4. CASE PairLate
  <2>1. PICK a \in Owners, s \in BOOLEAN : PairingLate(a, s)
    BY <1>4 DEF PairLate
  <2>2. PairingOver /\ nvs' \in Configs /\ behind' \in BOOLEAN
    BY <2>1, StoredFacts DEF PairingLate, TypeOK
  <2> QED
    BY <2>2, TypeOver
<1>5. CASE Crash
  <2>1. nvs' \in Configs /\ ram' \in Configs
    BY <1>5 DEF Crash, TypeOK
  <2>2. /\ SessionOK' /\ LanOK'
        /\ pending' = FALSE /\ edited' = FALSE /\ behind' = FALSE /\ pc' = "boot"
    BY <1>5, <2>1, RestartType DEF Crash, TypeOK
  <2>3. crashes' \in 0 .. MaxCrashes
    BY <1>5, OperationAssumption DEF Crash, TypeOK
  <2> QED
    BY <2>1, <2>2, <2>3 DEF Places, TypeOK
<1>6. CASE PairButton
  <2>1. PICK a \in Owners, s \in BOOLEAN : PairByButton(a, s)
    BY <1>6 DEF PairButton
  <2>2. nvs' \in Configs /\ ram' \in Configs
    BY <2>1, StoredFacts DEF PairByButton, TypeOK
  <2>3. /\ SessionOK' /\ LanOK'
        /\ pending' = FALSE /\ edited' = FALSE /\ behind' = FALSE /\ pc' = "boot"
    BY <2>1, <2>2, RestartType DEF PairByButton, TypeOK
  <2> QED
    BY <2>1, <2>2, <2>3 DEF PairByButton, Places, TypeOK
<1> QED
  BY <1>1, <1>2, <1>3, <1>4, <1>5, <1>6

LanAction ==
    \/ LanDown \/ LanUp \/ NoRequest \/ Query \/ SledSaved \/ SledReply \/ LanUnlink
    \/ \E a \in Owners : LanConfig(a)
    \/ \E setting \in BOOLEAN : SledRequest(setting)

LEMMA TypeLan ==
    ASSUME TypeOK, LanAction
    PROVE  TypeOK'
<1> USE DEF TypeOK
<1>1. CASE LanDown
  <2>1. SessionOK' /\ LanOK'
    BY <1>1, SessionSame, LanStep DEF LanDown
  <2> QED
    BY <1>1, <2>1 DEF LanDown, storeVars, Places
<1>2. CASE LanUp
  <2>1. SessionOK' /\ LanOK'
    BY <1>2, SessionSame, LanStep DEF LanUp
  <2> QED
    BY <1>2, <2>1 DEF LanUp, Reload, Places
<1>3. CASE NoRequest
  <2>1. SessionOK' /\ LanOK'
    BY <1>3, SessionSame, LanSame DEF NoRequest
  <2> QED
    BY <1>3, <2>1 DEF NoRequest, storeVars, Places
<1>4. CASE Query
  <2>1. SessionOK' /\ LanOK'
    BY <1>4, SessionSame, LanSame DEF Query
  <2> QED
    BY <1>4, <2>1 DEF Query, Reload, Places
<1>5. CASE SledSaved
  <2>1. SessionOK' /\ LanOK'
    BY <1>5, SessionSame, LanSame DEF SledSaved
  <2>2. nvs' \in Configs /\ ram' \in Configs
    BY <1>5, ConfigFacts DEF SledSaved, LanOK
  <2> QED
    BY <1>5, <2>1, <2>2 DEF SledSaved, Places
<1>6. CASE SledReply
  <2>1. SessionOK' /\ LanOK'
    BY <1>6, SessionSame, LanStep DEF SledReply
  <2> QED
    BY <1>6, <2>1 DEF SledReply, Reload, Places
<1>7. CASE LanUnlink
  <2>1. SessionOK' /\ LanOK'
    BY <1>7, SessionSame, LanStep DEF LanUnlink
  <2> QED
    BY <1>7, <2>1 DEF LanUnlink, Reload, Places
<1>8. CASE \E a \in Owners : LanConfig(a)
  <2>1. PICK a \in Owners : LanConfig(a)
    BY <1>8
  <2>2. SessionOK' /\ LanOK'
    BY <2>1, SessionSame, LanStep DEF LanConfig
  <2>3. nvs.sled \in BOOLEAN
    BY DEF Configs
  <2>4. nvs' \in Configs /\ ram' \in Configs
    BY <2>1, <2>3, StoredFacts DEF LanConfig
  <2> QED
    BY <2>1, <2>2, <2>4 DEF LanConfig, Places
<1>9. CASE \E setting \in BOOLEAN : SledRequest(setting)
  <2>1. PICK setting \in BOOLEAN : SledRequest(setting)
    BY <1>9
  <2>2. SessionOK' /\ LanOK'
    BY <2>1, SessionSame, LanStep DEF SledRequest
  <2> QED
    BY <2>1, <2>2 DEF SledRequest, Reload, Places
<1> QED
  BY <1>1, <1>2, <1>3, <1>4, <1>5, <1>6, <1>7, <1>8, <1>9 DEF LanAction

TickAction == Idle \/ Dial \/ Redial \/ Kicked \/ \E a \in Accounts : Command(a)

LEMMA TypeTick ==
    ASSUME TypeOK, TickAction
    PROVE  TypeOK'
<1> USE DEF TypeOK
<1>1. CASE Idle
  <2>1. SessionOK' /\ LanOK'
    BY <1>1, SessionSame, LanSame DEF Idle
  <2> QED
    BY <1>1, <2>1 DEF Idle, storeVars, Places
<1>2. CASE Dial \/ Redial
  <2>1. Admitted \/ RefusedBy \/ Unanswered
    BY <1>2 DEF Dial, Redial, Answered
  <2>2. ram.acct \in Owners
    BY DEF Configs
  <2>3. Dialled(ram.acct) \/ Redialled
    BY <1>2 DEF Dial, Redial
  <2>4. SessionOK'
    BY <2>1, <2>2, <2>3, SessionDialled
  <2>5. LanOK' /\ pc' \in Places /\ UNCHANGED <<nvs, ram, edited, behind, crashes>>
    BY <1>2, LanSame DEF Dial, Redial, storeVars, Places
  <2>6. pending' \in BOOLEAN
    BY <1>2 DEF Dial, Redial, Answered, Refusal
  <2> QED
    BY <2>4, <2>5, <2>6
<1>3. CASE Kicked
  <2>1. SessionOK' /\ LanOK'
    BY <1>3, SessionElsewhere, LanSame DEF Kicked
  <2> QED
    BY <1>3, <2>1 DEF Kicked, storeVars, Places
<1>4. CASE \E a \in Accounts : Command(a)
  <2>1. SessionOK' /\ LanOK'
    BY <1>4, SessionElsewhere, LanSame DEF Command
  <2> QED
    BY <1>4, <2>1 DEF Command, storeVars, Places
<1> QED
  BY <1>1, <1>2, <1>3, <1>4 DEF TickAction

LEMMA TypeElsewhere ==
    ASSUME TypeOK, Elsewhere
    PROVE  TypeOK'
<1>1. SessionOK'
  BY SessionSame, SessionElsewhere DEF TypeOK, Elsewhere
<1>2. LanOK'
  BY LanSame, LanStep DEF TypeOK, Elsewhere
<1> QED
  BY <1>1, <1>2 DEF TypeOK, Elsewhere, storeVars

LEMMA TypeIdle ==
    ASSUME TypeOK, UNCHANGED vars
    PROVE  TypeOK'
<1>1. SessionOK' /\ LanOK'
  BY SessionSame, LanSame DEF TypeOK, vars
<1> QED
  BY <1>1 DEF TypeOK, vars, storeVars

\* The steps by the place of the loop they start from.
LEMMA NextCases ==
    Next <=> \/ Boot \/ EraseAtBoot \/ PairBoot
             \/ Wipe \/ Pass \/ PairingCancelled \/ PairLate \/ Crash \/ PairButton
             \/ LanAction
             \/ TickAction
             \/ Elsewhere
  BY Zenon DEF Next, LoopStep, UserStep, LanAction, TickAction, PairBoot, PairButton, PairLate

LEMMA TypeStep == TypeOK /\ [Next]_vars => TypeOK'
  BY NextCases, TypeBoot, TypeTop, TypeLan, TypeTick, TypeElsewhere, TypeIdle

(***************************************************************************)
(* The places of the loop, the copies of the configuration and the client. *)
(***************************************************************************)
LEMMA ConsistentBoot ==
    ASSUME TypeOK, Consistent, Boot \/ EraseAtBoot \/ PairBoot
    PROVE  Consistent'
<1> USE DEF Consistent
<1>1. CASE Boot
  BY <1>1 DEF Boot, Reload, sessionVars, clientVars, lanVars
<1>2. CASE EraseAtBoot
  BY <1>2 DEF EraseAtBoot, sessionVars, clientVars, lanVars
<1>3. CASE PairBoot
  <2>1. PICK a \in Owners, s \in BOOLEAN : PairAtBoot(a, s)
    BY <1>3 DEF PairBoot
  <2>2. nvs'.prov
    BY <2>1, StoredFacts DEF PairAtBoot, TypeOK
  <2> QED
    BY <2>1, <2>2 DEF PairAtBoot, sessionVars, clientVars
<1> QED
  BY <1>1, <1>2, <1>3

\* A pairing without a restart.
LEMMA ConsistentOver ==
    ASSUME Consistent, PairingOver, nvs' \in Configs, nvs'.prov
    PROVE  Consistent'
<1>1. PICK a : ram' = [nvs' EXCEPT !.acct = a]
  BY DEF PairingOver
<1>2. ram'.acct = a
  BY <1>1 DEF Configs
<1>3. ~edited' => ram' = nvs'
  BY <1>1, <1>2 DEF PairingOver, Configs
<1> QED
  BY <1>3 DEF PairingOver, Consistent, sessionVars, clientVars, lanVars

LEMMA ConsistentTop ==
    ASSUME TypeOK, Consistent,
           Wipe \/ Pass \/ PairingCancelled \/ PairLate \/ Crash \/ PairButton
    PROVE  Consistent'
<1> USE DEF Consistent
<1>1. CASE Wipe
  BY <1>1 DEF Wipe, Restarted, SessionReset, LanReset
<1>2. CASE Pass
  BY <1>2 DEF Pass, sessionVars, clientVars, storeVars, lanVars
<1>3. CASE PairingCancelled
  <2>1. PairingOver /\ nvs' \in Configs /\ nvs'.prov
    BY <1>3 DEF PairingCancelled, PairingOver, TypeOK
  <2> QED
    BY <2>1, ConsistentOver
<1>4. CASE PairLate
  <2>1. PICK a \in Owners, s \in BOOLEAN : PairingLate(a, s)
    BY <1>4 DEF PairLate
  <2>2. PairingOver /\ nvs' \in Configs /\ nvs'.prov
    BY <2>1, StoredFacts DEF PairingLate, TypeOK
  <2> QED
    BY <2>2, ConsistentOver
<1>5. CASE Crash
  BY <1>5 DEF Crash, Restarted, SessionReset, LanReset
<1>6. CASE PairButton
  <2>1. PICK a \in Owners, s \in BOOLEAN : PairByButton(a, s)
    BY <1>6 DEF PairButton
  <2>2. nvs'.prov
    BY <2>1, StoredFacts DEF PairByButton, TypeOK
  <2> QED
    BY <2>1, <2>2 DEF PairByButton, Restarted, SessionReset, LanReset
<1> QED
  BY <1>1, <1>2, <1>3, <1>4, <1>5, <1>6

LEMMA ConsistentLan ==
    ASSUME TypeOK, Consistent, LanAction
    PROVE  Consistent'
<1> USE DEF Consistent
<1>1. CASE LanDown
  BY <1>1 DEF LanDown, sessionVars, clientVars, storeVars
<1>2. CASE LanUp
  BY <1>2 DEF LanUp, Served, Reload, sessionVars, clientVars
<1>3. CASE NoRequest
  BY <1>3 DEF NoRequest, sessionVars, clientVars, storeVars
<1>4. CASE Query
  BY <1>4 DEF Query, Reload, sessionVars, clientVars
<1>5. CASE SledSaved
  <2>1. nvs.prov /\ nvs'.prov = nvs.prov
    BY <1>5 DEF SledSaved, TypeOK, Configs
  <2>2. running' /\ ~pending' /\ UNCHANGED <<up, begun, host>> /\ pc' = "sledReply"
    BY <1>5 DEF SledSaved, sessionVars, clientVars, lanVars
  <2>3. pc = "sledSave" /\ UNCHANGED edited
    BY <1>5 DEF SledSaved
  <2>4. ~edited' => ram' = nvs'
    BY <1>5, <2>3 DEF SledSaved
  <2> QED
    BY <2>1, <2>2, <2>4
<1>6. CASE SledReply
  BY <1>6 DEF SledReply, Reload, sessionVars, clientVars
<1>7. CASE LanUnlink
  BY <1>7 DEF LanUnlink, Reload, sessionVars, clientVars
<1>8. CASE \E a \in Owners : LanConfig(a)
  <2>1. PICK a \in Owners : LanConfig(a)
    BY <1>8
  <2>2. nvs'.prov
    BY <2>1, StoredFacts DEF LanConfig, TypeOK, Configs
  <2> QED
    BY <2>1, <2>2 DEF LanConfig, Reannounced, sessionVars, clientVars
<1>9. CASE \E setting \in BOOLEAN : SledRequest(setting)
  BY <1>9 DEF SledRequest, SledSet, Reload, sessionVars, clientVars
<1> QED
  BY <1>1, <1>2, <1>3, <1>4, <1>5, <1>6, <1>7, <1>8, <1>9 DEF LanAction

LEMMA ConsistentTick ==
    ASSUME TypeOK, Consistent, TickAction
    PROVE  Consistent'
<1> USE DEF Consistent
<1>1. CASE Idle
  BY <1>1 DEF Idle, sessionVars, clientVars, storeVars
<1>2. CASE Dial \/ Redial
  <2>1. pc = "tick" /\ pc' = "top" /\ ~up /\ begun' /\ UNCHANGED <<nvs, ram, edited, home>>
    BY <1>2 DEF Dial, Redial, Dialled, Redialled, storeVars
  <2>2. up' => host' # None
    <3>1. CASE Admitted
      BY <3>1, <2>1, SessionAssumption DEF Admitted, Admits, Known, BrokerOf, TypeOK, SessionOK
    <3>2. CASE RefusedBy \/ Unanswered
      BY <3>2, <2>1 DEF RefusedBy, Unanswered
    <3> QED
      BY <1>2, <3>1, <3>2 DEF Dial, Redial, Answered
  <2> QED
    BY <2>1, <2>2
<1>3. CASE Kicked
  BY <1>3 DEF Kicked, SessionLost, storeVars
<1>4. CASE \E a \in Accounts : Command(a)
  BY <1>4 DEF Command, CommandArrives, storeVars
<1> QED
  BY <1>1, <1>2, <1>3, <1>4 DEF TickAction

LEMMA ConsistentElsewhere ==
    ASSUME Consistent, Elsewhere \/ UNCHANGED vars
    PROVE  Consistent'
<1>1. CASE Elsewhere
  <2>1. running' = running
    BY <1>1 DEF Elsewhere, lanVars, UnlinkPosted, UnlinkGivenUp
  <2>2. UNCHANGED <<begun, host>> /\ (up' => up)
    BY <1>1 DEF Elsewhere, SessionLost, SessionExpires, ServiceLinks, ServiceUnlinks, sessionVars, clientVars
  <2> QED
    BY <1>1, <2>1, <2>2 DEF Elsewhere, Consistent, storeVars
<1>2. CASE UNCHANGED vars
  BY <1>2 DEF Consistent, vars, storeVars, lanVars, sessionVars, clientVars
<1> QED
  BY <1>1, <1>2

LEMMA ConsistentStep == TypeOK /\ Consistent /\ [Next]_vars => Consistent'
  BY NextCases, ConsistentBoot, ConsistentTop, ConsistentLan, ConsistentTick, ConsistentElsewhere

(***************************************************************************)
(* LED, store and announcement.                                            *)
(***************************************************************************)
LEMMA SledStep == IInv /\ [Next]_vars => SledAgrees'
<1> SUFFICES ASSUME TypeOK, Consistent, SledAgrees, [Next]_vars PROVE SledAgrees'
  BY DEF IInv
<1> USE DEF SledAgrees
<1>1. CASE Boot \/ EraseAtBoot
  BY <1>1 DEF Boot, EraseAtBoot, Consistent, Factory, lanVars
<1>2. CASE PairBoot \/ PairButton
  <2>1. PICK a \in Owners, s \in BOOLEAN : PairAtBoot(a, s) \/ PairByButton(a, s)
    BY <1>2 DEF PairBoot, PairButton
  <2>2. nvs'.sled = s
    BY <2>1, StoredFacts DEF PairAtBoot, PairByButton, TypeOK
  <2> QED
    BY <2>1, <2>2 DEF PairAtBoot, PairByButton, Restarted, LanReset, Consistent
<1>3. CASE Wipe \/ Crash \/ Pass \/ PairingCancelled \/ PairLate
  <2>1. CASE Wipe \/ Crash
    BY <2>1 DEF Wipe, Crash, Restarted, LanReset
  <2>2. CASE Pass \/ PairingCancelled \/ PairLate
    BY <2>2 DEF Pass, PairingCancelled, PairLate, PairingLate, PairingOver, storeVars, lanVars
  <2> QED
    BY <1>3, <2>1, <2>2
<1>4. CASE LanAction
  <2>1. CASE LanDown
    BY <2>1 DEF LanDown, Stopped, storeVars
  <2>2. CASE LanUp
    BY <2>2 DEF LanUp, Served, Notified
  <2>3. CASE NoRequest \/ Query \/ LanUnlink
    BY <2>3 DEF NoRequest, Query, LanUnlink, UnlinkAccepted, storeVars, lanVars
  <2>4. CASE SledSaved
    BY <2>4 DEF SledSaved, TypeOK, Configs, lanVars
  <2>5. CASE SledReply
    BY <2>5 DEF SledReply, SledAnswered, Notified
  <2>6. CASE \E a \in Owners : LanConfig(a)
    <3>1. PICK a \in Owners : LanConfig(a)
      BY <2>6
    <3>2. nvs'.sled = nvs.sled /\ nvs.prov
      BY <3>1, StoredFacts DEF LanConfig, TypeOK, Consistent, Configs
    <3> QED
      BY <3>1, <3>2 DEF LanConfig, Reannounced, Notified
  <2>7. CASE \E setting \in BOOLEAN : SledRequest(setting)
    BY <2>7 DEF SledRequest
  <2> QED
    BY <1>4, <2>1, <2>2, <2>3, <2>4, <2>5, <2>6, <2>7 DEF LanAction
<1>5. CASE TickAction
  BY <1>5 DEF TickAction, Idle, Dial, Redial, Kicked, Command, storeVars, lanVars
<1>6. CASE Elsewhere
  BY <1>6 DEF Elsewhere, UnlinkPosted, UnlinkGivenUp, storeVars, lanVars
<1>7. CASE UNCHANGED vars
  BY <1>7 DEF vars, storeVars, lanVars
<1> QED
  BY NextCases, <1>1, <1>2, <1>3, <1>4, <1>5, <1>6, <1>7

LEMMA NextIInv == IInv /\ [Next]_vars => IInv'
  BY TypeStep, ConsistentStep, SledStep DEF IInv

\* The inductive invariant holds in every state.
THEOREM Safety == Spec => []IInv
  BY InitIInv, NextIInv, PTL DEF Spec

\* LED and store agree whenever no request about them is under way, unless a
\* portal stored a setting and no restart followed; announcement and LED even
\* then.
THEOREM SledStaysAgreed == Spec => []SledAgrees
<1>1. IInv => SledAgrees
  BY DEF IInv
<1> QED
  BY Safety, <1>1, PTL

\* The account the broker is dialled with is the stored one, unless AppConfig
\* holds edits of a cancelled pairing.
THEOREM DialsStoredAccount == Spec => StoredAccountDialled
<1>1. ASSUME IInv, [Next]_vars
      PROVE  [user' # user /\ user' # None => user' = nvs.acct \/ edited]_vars
  <2>1. SUFFICES ASSUME user' # user, user' # None, ~edited PROVE user' = nvs.acct
    OBVIOUS
  <2>2. CASE Dial
    BY <1>1, <2>1, <2>2 DEF Dial, Dialled, IInv, Consistent
  <2>3. CASE ~Dial
    <3>1. CASE Boot \/ EraseAtBoot \/ PairBoot \/ Pass \/ PairingCancelled \/ PairLate
      BY <2>1, <3>1 DEF Boot, EraseAtBoot, PairBoot, PairAtBoot, Pass, PairingCancelled, PairLate,
             PairingLate, PairingOver, sessionVars, clientVars
    <3>2. CASE Wipe \/ Crash \/ PairButton
      BY <2>1, <3>2 DEF Wipe, Crash, PairButton, PairByButton, Restarted, SessionReset
    <3>3. CASE LanAction
      BY <2>1, <3>3 DEF LanAction, LanDown, LanUp, NoRequest, Query, SledSaved, SledReply, LanUnlink, LanConfig,
             SledRequest, sessionVars, clientVars
    <3>4. CASE TickAction
      BY <2>1, <2>3, <3>4 DEF TickAction, Idle, Redial, Redialled, Kicked, SessionLost, Command, CommandArrives,
             sessionVars, clientVars
    <3>5. CASE Elsewhere
      BY <2>1, <3>5 DEF Elsewhere, SessionLost, SessionExpires, ServiceLinks, ServiceUnlinks, sessionVars, clientVars
    <3>6. CASE UNCHANGED vars
      BY <2>1, <3>6 DEF vars, sessionVars, clientVars
    <3> QED
      BY <1>1, NextCases, <3>1, <3>2, <3>3, <3>4, <3>5, <3>6
  <2> QED
    BY <2>1, <2>2, <2>3
<1> QED
  BY Safety, <1>1, PTL DEF Spec, StoredAccountDialled

(***************************************************************************)
(* The device implements Ownership: each step is a step of it, or none.    *)
(***************************************************************************)
\* The unlink orders somebody has issued.
Orders == queued \cup unlinked \cup (IF posted THEN {"lan"} ELSE {})

OwnerStep == [Owner!Next]_(Owner!vars)

\* What Ownership sees.
LEMMA OwnerSame ==
    ASSUME nvs'.acct = nvs.acct, UNCHANGED <<queued, unlinked, posted, pending>>,
           (pc' = "boot") <=> (pc = "boot")
    PROVE  OwnerStep
  BY DEF OwnerStep, Owner!vars

\* The device is paired with account a, or keeps the account it has.
LEMMA OwnerBinds ==
    ASSUME NEW a \in Owners, nvs'.acct = IF a = None THEN nvs.acct ELSE a, ~pending,
           UNCHANGED <<queued, unlinked, posted, pending>>,
           ((pc' = "boot") <=> (pc = "boot")) \/ pc' = "boot"
    PROVE  OwnerStep
<1>1. CASE a = None
  <2>1. CASE (pc' = "boot") <=> (pc = "boot")
    BY <1>1, <2>1, OwnerSame
  <2>2. CASE pc' = "boot"
    <3>1. Owner!Stop
      BY <1>1, <2>2 DEF Owner!Stop
    <3> QED
      BY <3>1 DEF OwnerStep, Owner!Next
  <2> QED
    BY <2>1, <2>2
<1>2. CASE a # None
  <2>1. Owner!Bind
    BY <1>2 DEF Owner!Bind, Owners
  <2> QED
    BY <2>1 DEF OwnerStep, Owner!Next
<1> QED
  BY <1>1, <1>2

LEMMA OwnerReceives ==
    ASSUME pc # "boot", pc' # "boot", Orders # {}, Orders' \subseteq Orders, pending' = TRUE,
           nvs'.acct = nvs.acct
    PROVE  OwnerStep
<1>1. Owner!Receive
  BY DEF Owner!Receive, Orders
<1> QED
  BY <1>1 DEF OwnerStep, Owner!Next

LEMMA OwnerStops ==
    ASSUME nvs'.acct = nvs.acct, UNCHANGED <<queued, unlinked, posted>>, pc' = "boot", pending' = FALSE
    PROVE  OwnerStep
<1>1. Owner!Stop
  BY DEF Owner!Stop
<1> QED
  BY <1>1 DEF OwnerStep, Owner!Next

LEMMA OwnerBoot ==
    ASSUME IInv, Boot \/ EraseAtBoot \/ PairBoot
    PROVE  OwnerStep
<1>1. CASE Boot
  <2>1. Owner!Start
    BY <1>1 DEF Boot, Owner!Start, sessionVars, queueVars, serviceVars, lanVars
  <2> QED
    BY <2>1 DEF OwnerStep, Owner!Next
<1>2. CASE EraseAtBoot
  <2>1. Owner!Erase
    BY <1>2 DEF EraseAtBoot, Factory, Owner!Erase, sessionVars, queueVars, serviceVars, lanVars
  <2> QED
    BY <2>1 DEF OwnerStep, Owner!Next
<1>3. CASE PairBoot
  <2>1. PICK a \in Owners, s \in BOOLEAN : PairAtBoot(a, s)
    BY <1>3 DEF PairBoot
  <2>2. nvs'.acct = IF a = None THEN nvs.acct ELSE a
    BY <2>1, StoredFacts DEF PairAtBoot, IInv, TypeOK
  <2>3. ~pending /\ UNCHANGED <<queued, unlinked, posted, pending, pc>>
    BY <2>1 DEF PairAtBoot, IInv, Consistent, sessionVars, queueVars, serviceVars
  <2> QED
    BY <2>2, <2>3, OwnerBinds
<1> QED
  BY <1>1, <1>2, <1>3

LEMMA OwnerTop ==
    ASSUME IInv, Wipe \/ Pass \/ PairingCancelled \/ PairLate \/ Crash \/ PairButton
    PROVE  OwnerStep
<1>1. CASE Wipe
  <2>1. Owner!Release
    BY <1>1 DEF Wipe, Restarted, LanReset, Factory, serviceVars, Owner!Release
  <2> QED
    BY <2>1 DEF OwnerStep, Owner!Next
<1>2. CASE Pass \/ PairingCancelled
  BY <1>2, OwnerSame DEF Pass, PairingCancelled, PairingOver, storeVars, sessionVars, queueVars, serviceVars,
         lanVars
<1>3. CASE PairLate
  <2>1. PICK a \in Owners, s \in BOOLEAN : PairingLate(a, s)
    BY <1>3 DEF PairLate
  <2>2. nvs'.acct = IF a = None THEN nvs.acct ELSE a
    BY <2>1, StoredFacts DEF PairingLate, IInv, TypeOK
  <2>3. /\ ~pending /\ pc = "top" /\ pc' = "lan"
        /\ UNCHANGED <<queued, unlinked, posted, pending>>
    BY <2>1 DEF PairingLate, PairingOver, sessionVars, queueVars, serviceVars, lanVars
  <2> QED
    BY <2>2, <2>3, OwnerBinds
<1>4. CASE Crash
  BY <1>4, OwnerStops DEF Crash, Restarted, LanReset, serviceVars
<1>5. CASE PairButton
  <2>1. PICK a \in Owners, s \in BOOLEAN : PairByButton(a, s)
    BY <1>5 DEF PairButton
  <2>2. nvs'.acct = IF a = None THEN nvs.acct ELSE a
    BY <2>1, StoredFacts DEF PairByButton, IInv, TypeOK
  <2>3. ~pending /\ pending' = FALSE /\ pc' = "boot" /\ UNCHANGED <<queued, unlinked, posted>>
    BY <2>1 DEF PairByButton, Restarted, LanReset, serviceVars
  <2>4. pending' = pending
    BY <2>3 DEF IInv, TypeOK
  <2> QED
    BY <2>2, <2>3, <2>4, OwnerBinds
<1> QED
  BY <1>1, <1>2, <1>3, <1>4, <1>5

LEMMA OwnerLan ==
    ASSUME IInv, LanAction
    PROVE  OwnerStep
<1>1. CASE LanDown \/ LanUp \/ NoRequest \/ Query
  BY <1>1, OwnerSame DEF LanDown, LanUp, NoRequest, Query, Stopped, Served, storeVars, lanVars,
         sessionVars, queueVars, serviceVars
<1>2. CASE SledSaved
  <2>1. nvs'.acct = nvs.acct
    BY <1>2 DEF SledSaved, IInv, TypeOK, Configs
  <2> QED
    BY <1>2, <2>1, OwnerSame DEF SledSaved, lanVars, sessionVars, queueVars, serviceVars
<1>3. CASE SledReply \/ \E setting \in BOOLEAN : SledRequest(setting)
  BY <1>3, OwnerSame DEF SledReply, SledRequest, SledSet, SledAnswered, sessionVars, queueVars, serviceVars
<1>4. CASE LanUnlink
  <2>1. Orders # {} /\ Orders' \subseteq Orders
    BY <1>4 DEF LanUnlink, UnlinkAccepted, Orders, sessionVars, queueVars, serviceVars
  <2> QED
    BY <1>4, <2>1, OwnerReceives DEF LanUnlink
<1>5. CASE \E a \in Owners : LanConfig(a)
  <2>1. PICK a \in Owners : LanConfig(a)
    BY <1>5
  <2>2. nvs'.acct = IF a = None THEN nvs.acct ELSE a
    BY <2>1, StoredFacts DEF LanConfig, IInv, TypeOK, Configs
  <2>3. /\ ~pending /\ pc # "boot" /\ pc' # "boot"
        /\ UNCHANGED <<queued, unlinked, posted, pending>>
    BY <2>1 DEF LanConfig, Reannounced, IInv, Consistent, sessionVars, queueVars, serviceVars
  <2> QED
    BY <2>2, <2>3, OwnerBinds
<1> QED
  BY <1>1, <1>2, <1>3, <1>4, <1>5 DEF LanAction

LEMMA OwnerTick ==
    ASSUME IInv, TickAction
    PROVE  OwnerStep
<1>1. CASE Idle
  BY <1>1, OwnerSame DEF Idle, storeVars, lanVars, sessionVars, queueVars, serviceVars
<1>2. CASE Dial \/ Redial
  <2>1. pc = "tick" /\ pc' = "top" /\ UNCHANGED <<nvs, posted, queued, unlinked>>
    BY <1>2 DEF Dial, Redial, Answered, Admitted, RefusedBy, Unanswered, storeVars, lanVars,
           queueVars, serviceVars
  <2>2. CASE pending' = pending
    BY <2>1, <2>2, OwnerSame
  <2>3. CASE pending' # pending
    <3>1. Refusal
      BY <1>2, <2>3 DEF Dial, Redial, Answered
    <3>2. pending' = TRUE /\ unlinked # {}
      BY <2>3, <3>1 DEF Refusal, ProvesUnlinked, IInv, TypeOK
    <3>3. Orders # {} /\ Orders' \subseteq Orders
      BY <2>1, <3>2 DEF Orders
    <3> QED
      BY <2>1, <3>2, <3>3, OwnerReceives
  <2> QED
    BY <2>2, <2>3
<1>3. CASE Kicked \/ \E a \in Accounts : Command(a)
  <2>1. Orders # {} /\ Orders' \subseteq Orders
    BY <1>3 DEF Kicked, Command, SessionLost, CommandArrives, Orders, lanVars, queueVars, serviceVars
  <2> QED
    BY <1>3, <2>1, OwnerReceives DEF Kicked, Command, storeVars
<1> QED
  BY <1>1, <1>2, <1>3 DEF TickAction

LEMMA OwnerElsewhere ==
    ASSUME IInv, Elsewhere \/ UNCHANGED vars
    PROVE  OwnerStep
<1>1. CASE UNCHANGED vars
  BY <1>1, OwnerSame DEF vars, storeVars, lanVars, sessionVars, queueVars, serviceVars
<1>2. CASE Elsewhere
  <2>1. UNCHANGED <<nvs, pending, pc>>
    BY <1>2 DEF Elsewhere, storeVars
  <2>2. CASE Orders \subseteq Orders'
    <3>1. Owner!Issue
      BY <2>1, <2>2 DEF Owner!Issue, Orders
    <3> QED
      BY <3>1 DEF OwnerStep, Owner!Next
  <2>3. CASE Orders' \subseteq Orders
    <3>1. Owner!Lapse
      BY <2>1, <2>3 DEF Owner!Lapse, Orders
    <3> QED
      BY <3>1 DEF OwnerStep, Owner!Next
  <2>4. CASE SessionLost /\ UNCHANGED lanVars
    BY <2>2, <2>4 DEF SessionLost, Orders, lanVars, queueVars, serviceVars
  <2>5. CASE (\E b \in Brokers : SessionExpires(b)) /\ UNCHANGED lanVars
    BY <2>3, <2>5 DEF SessionExpires, Orders, lanVars, serviceVars
  <2>6. CASE (\E a \in Accounts : ServiceUnlinks(a)) /\ UNCHANGED lanVars
    BY <2>2, <2>6 DEF ServiceUnlinks, Orders, lanVars
  <2>7. CASE (\E a \in Accounts : ServiceLinks(a)) /\ UNCHANGED lanVars
    BY <2>3, <2>7 DEF ServiceLinks, Orders, lanVars, queueVars
  <2>8. CASE UnlinkPosted /\ UNCHANGED sessionVars
    BY <2>2, <2>8 DEF UnlinkPosted, Orders, sessionVars, queueVars, serviceVars
  <2>9. CASE UnlinkGivenUp /\ UNCHANGED sessionVars
    BY <2>3, <2>9 DEF UnlinkGivenUp, Orders, sessionVars, queueVars, serviceVars
  <2> QED
    BY <1>2, <2>4, <2>5, <2>6, <2>7, <2>8, <2>9 DEF Elsewhere
<1> QED
  BY <1>1, <1>2

LEMMA OwnerInit == Init => Owner!Init
  BY DEF Init, SessionInit, LanInit, Factory, Owner!Init

LEMMA OwnerNext == IInv /\ [Next]_vars => [Owner!Next]_(Owner!vars)
  BY NextCases, OwnerBoot, OwnerTop, OwnerLan, OwnerTick, OwnerElsewhere DEF OwnerStep

\* The device gives its account up only to an order somebody issued, and
\* nobody takes it over between the order and the erasure.
THEOREM ImplementsOwner == Spec => ImplementsOwnership
  BY Safety, OwnerInit, OwnerNext, PTL DEF Spec, ImplementsOwnership, Owner!Spec
=============================================================================
