--------------------------- MODULE MCProvisioning ---------------------------
(* Instance of Provisioning for TLC: frames with an account over WiFi, with  *)
(* a network only, and frames that carry none of the texts.                  *)
EXTENDS Provisioning

CONSTANTS v   \* a text

Text(S)  == [k \in Texts |-> IF k \in S THEN v ELSE Empty]
Bare     == {Text({})}
Accounts == {Text({}), Text({Ssid, Token})}
Typed    == {<<Token, v>>}
Network  == {Text({Ssid})}
Edited   == {<<Ssid, v>>}
=============================================================================
