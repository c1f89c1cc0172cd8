------------------------ MODULE MCProvisioningStore ------------------------
(* Instance of ProvisioningStore for TLC: an account over WiFi in one frame, *)
(* and the user emptied by a characteristic.                                 *)
EXTENDS ProvisioningStore

CONSTANTS v   \* a text

Sent  == {[k \in Texts |-> IF k \in {Broker, User, Ssid} THEN v ELSE Empty]}
Typed == {<<User, Empty>>}
=============================================================================
