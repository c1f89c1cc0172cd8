---------------------------- MODULE MqttSession -----------------------------
(***************************************************************************)
(* The MQTT client (Mqttv5Transport, mqtt_client) and the brokers and      *)
(* account service it talks to, as far as unlinking an account needs them. *)
(*                                                                         *)
(* initMQTT() gives the client its broker once per boot; every connect     *)
(* presents the account AppConfig holds by then, and the library dials     *)
(* again by itself with what it was last given. The session is persistent  *)
(* (cleanStart false, expiry 3600 s) and the unlink command is QoS 1: the  *)
(* broker keeps it for a device that is away and repeats it until the      *)
(* PUBACK arrives. A broker that knows an account as unlinked refuses it,  *)
(* or ends its session, with 0x87 and the proof in the reason string.      *)
(*                                                                         *)
(* These are actions on the variables below only; Operation adds what they *)
(* do to the configuration.                                                *)
(***************************************************************************)
CONSTANTS Accounts,  \* accounts a device may be bound to
          Brokers,   \* MQTT brokers
          Homes,     \* which accounts may live on which brokers
          None       \* no account, or no broker

ASSUME SessionAssumption ==
    /\ None \notin Accounts \cup Brokers
    /\ Homes \subseteq [Accounts -> Brokers]

VARIABLES
    home,      \* the broker of each account; never changes
    begun,     \* begun_: initMQTT() has run
    host,      \* the broker mqtt.begin() was given; None for an empty name
    user,      \* the account mqtt.connect() was last given
    up,        \* mqtt.connected()
    subs,      \* brokers that hold the subscription to unlink/command
    queued,    \* accounts whose unlink command waits at their broker
    linked,    \* the account the service believes the device belongs to
    unlinked   \* accounts the service took the device from

clientVars  == <<begun, host, user, up>>
serviceVars == <<linked, unlinked>>
queueVars   == <<subs, queued>>
sessionVars == <<home, clientVars, serviceVars, queueVars>>

Owners == Accounts \cup {None}

SessionOK ==
    /\ home \in Homes
    /\ begun \in BOOLEAN /\ up \in BOOLEAN
    /\ host \in Brokers \cup {None}
    /\ user \in Owners /\ linked \in Owners
    /\ subs \subseteq Brokers
    /\ queued \subseteq Accounts /\ unlinked \subseteq Accounts

SessionInit ==
    /\ home \in Homes
    /\ begun = FALSE /\ host = None /\ user = None /\ up = FALSE
    /\ subs = {} /\ queued = {}
    /\ linked = None /\ unlinked = {}

BrokerOf(acct) == IF acct \in Accounts THEN home[acct] ELSE None

\* The client as it is after a restart; brokers and service do not notice.
SessionReset == begun' = FALSE /\ host' = None /\ user' = None /\ up' = FALSE

(***************************************************************************)
(* Dialling: Mqttv5Transport::connect() presents acct, the library's own   *)
(* reconnection what the client already has.                               *)
(***************************************************************************)
Dialled(acct) ==
    /\ ~up
    /\ begun' = TRUE
    /\ host' = IF begun THEN host ELSE BrokerOf(acct)
    /\ user' = acct
    /\ UNCHANGED home

Redialled ==
    /\ ~up /\ begun
    /\ UNCHANGED <<home, begun, host, user>>

\* A broker answers for the accounts that live on it.
Known(acct)   == acct \in Accounts /\ BrokerOf(acct) = host'
Admits(acct)  == Known(acct) /\ acct = linked
ProvesUnlinked(acct) == Known(acct) /\ acct \in unlinked

\* onConnect() subscribes at once, but the connection may be gone by then.
Admitted ==
    /\ Admits(user')
    /\ up' = TRUE
    /\ subs' \in {subs, subs \cup {host'}}
    /\ UNCHANGED <<queued, serviceVars>>

Unanswered == UNCHANGED <<up, queueVars, serviceVars>>

\* Any refusal; only ProvesUnlinked() comes with a proof.
RefusedBy == host' # None /\ ~Admits(user') /\ UNCHANGED <<up, queueVars, serviceVars>>

(***************************************************************************)
(* A session that is up.                                                   *)
(***************************************************************************)
\* onMessage() gets the unlink command for account a: it publishes the
\* acknowledgement. If the session breaks first the command stays queued.
CommandArrives(a) ==
    /\ up /\ a \in queued /\ BrokerOf(a) = host
    /\ \/ queued' = queued \ {a} /\ UNCHANGED up
       \/ up' = FALSE /\ UNCHANGED queued
    /\ UNCHANGED <<home, begun, host, user, subs, serviceVars>>

\* The session ends, for any reason or for none.
SessionLost ==
    /\ up
    /\ up' = FALSE
    /\ UNCHANGED <<home, begun, host, user, queueVars, serviceVars>>

(***************************************************************************)
(* The brokers and the account service.                                    *)
(***************************************************************************)
\* The service links the device to account a. The firmware has no part in
\* this: it may come before or after the pairing it belongs to.
ServiceLinks(a) ==
    /\ linked' = a
    /\ unlinked' = unlinked \ {a}
    /\ UNCHANGED <<home, clientVars, queueVars>>

\* The owner unlinks the device: the command is published, and reaches the
\* queue of a persistent session that is subscribed.
ServiceUnlinks(a) ==
    /\ linked = a
    /\ linked' = None
    /\ unlinked' = unlinked \cup {a}
    /\ queued' = IF home[a] \in subs THEN queued \cup {a} ELSE queued
    /\ UNCHANGED <<home, clientVars, subs>>

\* A session nobody came back to for an hour is dropped with its queue.
SessionExpires(b) ==
    /\ b \in subs
    /\ up => host # b
    /\ subs' = subs \ {b}
    /\ queued' = {a \in queued : home[a] # b}
    /\ UNCHANGED <<home, clientVars, serviceVars>>
=============================================================================
