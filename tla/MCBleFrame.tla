----------------------------- MODULE MCBleFrame -----------------------------
(* Instance of BleFrame for TLC: JSON objects that fit the buffer. *)
EXTENDS BleFrame

\* Objects of one item, and objects that hold one of those.
Short(S) == {t \in S : Len(t) <= MaxBuffer}

MCBodies   == MoreBodies({<<>>})
MCContents == MoreContents({<<>>}, MCBodies)

MCFrames    == Short(Objects(MCContents \cup Objects(MCContents)))
\* The document holds half of what the buffer does, and braces are not in it.
MCFitting   == {t \in MCFrames : 2 * (Len(t) - 2) <= MaxBuffer - 2}
MCKeyValues == {<<Plain>>}
=============================================================================
