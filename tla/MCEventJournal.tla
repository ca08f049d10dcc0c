--------------------------- MODULE MCEventJournal ---------------------------
(* Instances of the normalizer for TLC. *)
EXTENDS EventJournal

MCTradesOf == [s \in Signatures |-> 1]
MCBlocked == {<<1, 1>>}
MCContradictable == {<<2, 1>>}
MCDisputable == {<<2, 1>>, <<3, 1>>}
=============================================================================
