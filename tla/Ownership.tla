----------------------------- MODULE Ownership ------------------------------
(***************************************************************************)
(* What unlinking promises about the account a device belongs to: a        *)
(* running device gives its account up only to an unlink order that        *)
(* somebody issued, nobody takes the device over between the moment the    *)
(* order is received and the moment it is carried out, and carrying it out *)
(* ends in a restart. Only while it is off can the account be erased       *)
(* without an order, by a person at the device.                            *)
(***************************************************************************)
CONSTANTS Accounts, None

VARIABLES
    owner,     \* the stored account, or None
    orders,    \* unlink orders issued and not yet used up
    received,  \* an order was received and must be carried out
    running    \* the firmware is past its start-up

vars == <<owner, orders, received, running>>

Init == owner = None /\ orders = {} /\ ~received /\ ~running

\* Somebody issues an order, or it is forgotten on its way.
Issue == orders \subseteq orders' /\ UNCHANGED <<owner, received, running>>
Lapse == orders' \subseteq orders /\ UNCHANGED <<owner, received, running>>

\* An order may be delivered more than once, so it need not be used up.
Receive ==
    /\ running /\ orders # {}
    /\ received' = TRUE
    /\ orders' \subseteq orders
    /\ UNCHANGED <<owner, running>>

Release ==
    /\ running /\ received
    /\ owner' = None /\ ~received' /\ ~running'
    /\ UNCHANGED orders

\* The device is paired, with or without a restart.
Bind ==
    /\ ~received
    /\ owner' \in Accounts
    /\ orders' \subseteq orders
    /\ running' \in {running, FALSE}
    /\ UNCHANGED received

Start == ~running /\ running' /\ UNCHANGED <<owner, orders, received>>
Stop  == ~running' /\ ~received' /\ UNCHANGED <<owner, orders>>
Erase == ~running /\ owner' = None /\ UNCHANGED <<orders, received, running>>

Next == Issue \/ Lapse \/ Receive \/ Release \/ Bind \/ Start \/ Stop \/ Erase

Spec == Init /\ [][Next]_vars
=============================================================================
