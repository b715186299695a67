---------------------------- MODULE MCSavesStore ----------------------------
(* SavesStore on a few threads and digests, for TLC. *)
EXTENDS SavesStore, TLC

CONSTANTS t1, t2, r1

MCThread == {t1, t2}
MCReader == {r1}
MCHash == 1..2
MCHashes == 1..3

NoReader == {}

ThreadSymmetry == Permutations(MCThread)
=============================================================================
