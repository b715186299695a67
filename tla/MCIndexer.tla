------------------------------ MODULE MCIndexer ------------------------------
(* Indexer with one game that two payloads carry. *)
EXTENDS Indexer

MCOf == [p \in {"a1", "a2", "u"} |-> "a"]
MCBefore == {<<"a1", "a2">>}
=============================================================================
