---------------------------- MODULE ConfigStore ----------------------------
(***************************************************************************)
(* What the stored configuration promises to whoever reads and saves it,   *)
(* as long as threads keep apart: a save that returns is stored, a reader  *)
(* never meets half of one, and a power loss in the middle leaves its      *)
(* first keys over the rest of the old ones: the texts in their order, the *)
(* binding, and "provisioned" the last. When threads run into each other   *)
(* nothing is promised before the next start.                              *)
(*                                                                         *)
(* nvs_config.h declares this store (saveConfig, loadConfig, resetConfig); *)
(* Provisioning.tla, with its writes one by one, implements it.            *)
(***************************************************************************)
EXTENDS Naturals

CONSTANTS Namespaces,  \* what the namespace can hold
          Blank,       \* what an erased one holds
          Texts        \* its texts: 1 .. n, in the order of nvs_config.cpp

VARIABLES stored,  \* what a reader finds
          saving,  \* {what is being saved}, or {}
          apart    \* since the last start, threads kept apart

vars == <<stored, saving, apart>>

\* A save of new over old that is cut after the texts of kept, the binding and
\* the flag, where bound and prov say so.
Cut(old, new, kept, bound, prov) ==
    [text  |-> [k \in Texts |-> IF k \in kept THEN new.text[k] ELSE old.text[k]],
     bound |-> IF bound THEN new.bound ELSE old.bound,
     prov  |-> IF prov  THEN new.prov  ELSE old.prov]

\* What such a save may have written: some of the texts, of which none comes
\* before one that is missing; with all of them the binding; then the flag.
Cuts(old, new) ==
    {Cut(old, new, {k \in Texts : k < n}, FALSE, FALSE) : n \in Texts}
    \cup {Cut(old, new, Texts, b, FALSE) : b \in BOOLEAN}
    \cup {new}

Init == stored = Blank /\ saving = {} /\ apart = TRUE

Begin ==
    /\ apart /\ saving = {}
    /\ \E n \in Namespaces : saving' = {n}
    /\ UNCHANGED <<stored, apart>>

Commit ==
    /\ apart /\ saving = {stored'}
    /\ saving' = {}
    /\ UNCHANGED apart

\* The device starts again with a save under way.
PowerLoss ==
    /\ apart
    /\ \E new \in saving : stored' \in Cuts(stored, new)
    /\ saving' = {}
    /\ UNCHANGED apart

Erase ==
    /\ apart /\ saving = {}
    /\ stored' = Blank
    /\ UNCHANGED <<saving, apart>>

\* A second thread uses AppConfig or the Preferences object during a save.
Collide ==
    /\ apart /\ saving # {}
    /\ saving' = {} /\ apart' = FALSE

Broken == ~apart /\ UNCHANGED <<saving, apart>>

Restart ==
    /\ ~apart /\ apart' = TRUE
    /\ UNCHANGED <<stored, saving>>

Next == Begin \/ Commit \/ PowerLoss \/ Erase \/ Collide \/ Broken \/ Restart

Spec == Init /\ [][Next]_vars
=============================================================================
