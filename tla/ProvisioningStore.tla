------------------------- MODULE ProvisioningStore -------------------------
(***************************************************************************)
(* Provisioning as an implementation of ConfigStore. A save becomes one    *)
(* step at its end: until then a reader would have to be another thread,   *)
(* and the threads have run into each other. What NVS held when the save   *)
(* began is kept in a history variable, which no step depends on.          *)
(***************************************************************************)
EXTENDS Provisioning

VARIABLE before   \* history: NVS when the save under way began; otherwise, NVS

allVars == <<vars, before>>

\* A save is under way and nobody disturbed it.
Alone == AnySaving /\ ~overlap

StoreInit == Init /\ before = nvs

StoreNext ==
    /\ Next
    /\ before' = IF Alone /\ Alone' THEN before ELSE nvs'

StoreSpec == StoreInit /\ [][StoreNext]_allVars

\* What saveConfig() makes of AppConfig, all keys written.
Target ==
    [text |-> ram.text, bound |-> IF ram.bound THEN "yes" ELSE "no", prov |-> Configured(ram)]

Store == INSTANCE ConfigStore WITH
    Namespaces <- NvsStates,
    Blank      <- Cleared,
    stored     <- IF Alone THEN before ELSE nvs,
    saving     <- IF Alone THEN {Target} ELSE {},
    apart      <- ~overlap

\* nvs_config.h: saves, resets, restarts and power losses, with the keys written
\* one by one beside three threads, are those of the store that is saved at
\* once, as long as the threads keep apart.
ImplementsStore == Store!Spec

\* Before the k-th write of the save under way the keys before it are written,
\* and the others are as they were.
Written(k) ==
    [text  |-> [i \in Texts |-> IF i < k THEN Target.text[i] ELSE before.text[i]],
     bound |-> IF k > BoundKey THEN Target.bound ELSE before.bound,
     prov  |-> IF k > ProvKey  THEN Target.prov  ELSE before.prov]

\* The part of the inductive invariant about the history.
SaveIsPrefix ==
    /\ before \in NvsStates
    /\ \A t \in Threads : Saving(t) /\ ~overlap => nvs = Written(step[t])

StoreInv == IInv /\ SaveIsPrefix
=============================================================================
