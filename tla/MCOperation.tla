---------------------------- MODULE MCOperation -----------------------------
(* Instance of Operation for TLC. *)
EXTENDS Operation, FiniteSets

\* Accounts that share a broker, and accounts that do not.
OnBrokers(n) == {h \in [Accounts -> Brokers] : Cardinality({h[a] : a \in Accounts}) = n}
SharedOrNot  == {CHOOSE h \in OnBrokers(n) : TRUE : n \in 1 .. Cardinality(Brokers)}
=============================================================================
