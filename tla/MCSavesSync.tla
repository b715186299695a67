---------------------------- MODULE MCSavesSync -----------------------------
(* SavesSync on one machine and one or two save files, for TLC. *)
EXTENDS SavesSync, TLC

CONSTANTS a, f1, f2

OneMachine == {a}
OneFile == {f1}
TwoFiles == {f1, f2}
OneSlot == {"cmd"}
TwoSlots == {"cmd", "picker"}
None == {}
SyncOnly == {"sync", "launch"}
EveryCommand == {"sync", "launch", "push", "keepHere", "pull", "restore"}
NoGame == EveryCommand \ {"launch"}
Reload == {"push", "restore"}

FileSymmetry == Permutations(TwoFiles)
=============================================================================
