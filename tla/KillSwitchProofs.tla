-------------------------- MODULE KillSwitchProofs ---------------------------
(***************************************************************************)
(* That a contained stop leaves nothing, and that a save is put back under *)
(* no game, for any number of games started, loads picked and processes    *)
(* that end when they like.                                                *)
(***************************************************************************)
EXTENDS KillSwitch, TLAPS

Procs == {Top, Wrapper} \cup {GameNo(n) : n \in Nat} \cup {Child(n) : n \in Nat}

Typed ==
  /\ procs \subseteq Procs
  /\ wrapper \in [at : {"start", "named", "wait", "check", "picked", "push", "restore", "over"}, game : Nat]
  /\ session \in [restart : BOOLEAN, pid : Nat]
  /\ switch \in [at : {"watch", "load", "ask", "grace", "kill", "push", "gone"}, how : {"", "scope", "tree"},
                 tree : SUBSET Procs, why : {"", "chord", "menu"},
                 end : {"", "gently", "left", "killed"}, game : Nat]

\* While there is a wrapper, the one game there may be is the one it started last,
\* and only from its start to the end of the wait for it.
GamesFollow ==
  \A n \in Nat : GameNo(n) \in procs /\ Wrapper \in procs =>
    n = wrapper.game /\ wrapper.at \in {"named", "wait"}

\* A stop has ended when the loop says so, and not before; a kill by hand is of a
\* scope that cannot be killed at once.
StopFollows ==
  /\ StopIsWhole
  /\ switch.end # "" => switch.at \in {"push", "gone"}
  /\ switch.at = "kill" => switch.how = "scope" /\ ~launch.atonce

IInv == Typed /\ GamesFollow /\ StopFollows

-----------------------------------------------------------------------------

\* Processes of one kind are told from those of another, and by their numbers.
LEMMA Distinct ==
  /\ \A m, n \in Nat : /\ GameNo(m) = GameNo(n) => m = n
                       /\ GameNo(m) # Child(n)
  /\ \A n \in Nat : GameNo(n) # Wrapper /\ GameNo(n) # Top /\ Child(n) # Wrapper /\ Child(n) # Top
  BY DEF GameNo, Child, Wrapper, Top

\* What is read of a tree is of the launch.
LEMMA TreeTyped == \A p \in Procs : procs \subseteq Procs => descendants(p) \subseteq Procs
  BY DEF descendants

LEMMA InitIInv == Init => IInv
<1> SUFFICES ASSUME Init PROVE IInv
  OBVIOUS
<1>1. Typed
  BY DEF Init, Typed, Procs
<1>2. GamesFollow
  BY Distinct DEF Init, GamesFollow
<1>3. StopFollows
  BY DEF Init, StopFollows, StopIsWhole
<1> QED BY <1>1, <1>2, <1>3 DEF IInv

LEMMA StartInv == IInv /\ Start => IInv'
<1> SUFFICES ASSUME IInv, Start PROVE IInv'
  OBVIOUS
<1>0. wrapper.game + 1 \in Nat /\ GameNo(wrapper.game + 1) \in Procs
  <2>1. wrapper.game \in Nat
    BY DEF IInv, Typed
  <2>2. wrapper.game + 1 \in Nat
    BY <2>1
  <2> QED BY <2>2 DEF Procs
<1>1. Typed'
  BY <1>0 DEF IInv, Typed, Start, At, Outside
<1>2. GamesFollow'
  <2> SUFFICES ASSUME NEW n \in Nat, GameNo(n) \in procs'
               PROVE  n = wrapper'.game /\ wrapper'.at \in {"named", "wait"}
    BY DEF GamesFollow
  <2>1. GameNo(n) \notin procs
    BY DEF IInv, GamesFollow, Start, At
  <2>2. GameNo(n) = GameNo(wrapper.game + 1)
    BY <2>1 DEF Start
  <2> QED BY <2>2, <1>0, Distinct DEF Start
<1>3. StopFollows'
  BY DEF IInv, Typed, StopFollows, StopIsWhole, Start, At, Outside
<1> QED BY <1>1, <1>2, <1>3 DEF IInv

LEMMA NamesInv == IInv /\ Names => IInv'
<1> SUFFICES ASSUME IInv, Names PROVE IInv'
  OBVIOUS
<1>1. Typed'
  BY DEF IInv, Typed, Names, At, To, Outside
<1>2. GamesFollow'
  BY DEF IInv, Typed, GamesFollow, Names, At, To, Outside
<1>3. StopFollows'
  BY DEF IInv, Typed, StopFollows, StopIsWhole, Names, At, To, Outside
<1> QED BY <1>1, <1>2, <1>3 DEF IInv

LEMMA TrappedInv == IInv /\ Trapped => IInv'
<1> SUFFICES ASSUME IInv, Trapped PROVE IInv'
  OBVIOUS
<1>1. Typed'
  BY DEF IInv, Typed, Trapped, At, Outside
<1>2. GamesFollow'
  BY DEF IInv, Typed, GamesFollow, Trapped, At, Outside
<1>3. StopFollows'
  BY DEF IInv, Typed, StopFollows, StopIsWhole, Trapped, At, Outside
<1> QED BY <1>1, <1>2, <1>3 DEF IInv

LEMMA WaitedInv == IInv /\ Waited => IInv'
<1> SUFFICES ASSUME IInv, Waited PROVE IInv'
  OBVIOUS
<1>1. Typed'
  BY DEF IInv, Typed, Waited, At, To, Outside
<1>2. GamesFollow'
  BY DEF IInv, Typed, GamesFollow, Waited, At, To, Outside
<1>3. StopFollows'
  BY DEF IInv, Typed, StopFollows, StopIsWhole, Waited, At, To, Outside
<1> QED BY <1>1, <1>2, <1>3 DEF IInv

LEMMA CheckInv == IInv /\ Check => IInv'
<1> SUFFICES ASSUME IInv, Check PROVE IInv'
  OBVIOUS
<1>1. Typed'
  BY DEF IInv, Typed, Check, At, To, Outside, Dead
<1>2. GamesFollow'
  BY DEF IInv, Typed, GamesFollow, Check, At, To, Outside, Dead
<1>3. StopFollows'
  BY DEF IInv, Typed, StopFollows, StopIsWhole, Check, At, To, Outside, Dead
<1> QED BY <1>1, <1>2, <1>3 DEF IInv

LEMMA PicksInv == IInv /\ Picks => IInv'
<1> SUFFICES ASSUME IInv, Picks PROVE IInv'
  OBVIOUS
<1>1. Typed'
  BY DEF IInv, Typed, Picks, At, To, Outside
<1>2. GamesFollow'
  BY DEF IInv, Typed, GamesFollow, Picks, At, To, Outside
<1>3. StopFollows'
  BY DEF IInv, Typed, StopFollows, StopIsWhole, Picks, At, To, Outside
<1> QED BY <1>1, <1>2, <1>3 DEF IInv

LEMMA SpawnInv == IInv /\ Spawn => IInv'
<1> SUFFICES ASSUME IInv, Spawn PROVE IInv'
  OBVIOUS
<1>0. PICK k \in Nat : GameNo(k) \in procs /\ procs' = procs \cup {Child(k)}
  <2>1. PICK k \in 1..MaxGames : GameNo(k) \in procs /\ procs' = procs \cup {Child(k)}
    BY DEF Spawn
  <2>2. k \in Nat
    OBVIOUS
  <2> QED BY <2>1, <2>2
<1>1. Typed'
  <2>1. Child(k) \in Procs
    BY <1>0 DEF Procs
  <2> QED BY <2>1, <1>0 DEF IInv, Typed, Spawn, Outside
<1>2. GamesFollow'
  <2> SUFFICES ASSUME NEW n \in Nat, GameNo(n) \in procs', Wrapper \in procs'
               PROVE  n = wrapper'.game /\ wrapper'.at \in {"named", "wait"}
    BY DEF GamesFollow
  <2>1. GameNo(n) \in procs /\ Wrapper \in procs
    BY <1>0, Distinct
  <2> QED BY <2>1 DEF IInv, GamesFollow, Spawn
<1>3. StopFollows'
  BY DEF IInv, Typed, StopFollows, StopIsWhole, Spawn, Outside
<1> QED BY <1>1, <1>2, <1>3 DEF IInv

LEMMA ExitInv == IInv /\ Exit => IInv'
<1> SUFFICES ASSUME IInv, Exit PROVE IInv'
  OBVIOUS
<1>1. Typed'
  BY DEF IInv, Typed, Exit, Outside, Dead
<1>2. GamesFollow'
  BY DEF IInv, Typed, GamesFollow, Exit, Outside, Dead
<1>3. StopFollows'
  BY DEF IInv, Typed, StopFollows, StopIsWhole, Exit, Outside, Dead
<1> QED BY <1>1, <1>2, <1>3 DEF IInv

LEMMA TopEndsInv == IInv /\ TopEnds => IInv'
<1> SUFFICES ASSUME IInv, TopEnds PROVE IInv'
  OBVIOUS
<1>1. Typed'
  BY DEF IInv, Typed, TopEnds, Outside, Dead
<1>2. GamesFollow'
  BY DEF IInv, Typed, GamesFollow, TopEnds, Outside, Dead
<1>3. StopFollows'
  BY DEF IInv, Typed, StopFollows, StopIsWhole, TopEnds, Outside, Dead
<1> QED BY <1>1, <1>2, <1>3 DEF IInv

LEMMA StopScopeInv == IInv /\ StopScope => IInv'
<1> SUFFICES ASSUME IInv, StopScope PROVE IInv'
  OBVIOUS
<1>0. Top \in Procs
  BY DEF Procs
<1>1. Typed'
  BY TreeTyped, <1>0 DEF IInv, Typed, StopScope, Watching, Around, Term
<1>2. GamesFollow'
  BY DEF IInv, Typed, GamesFollow, StopScope, Watching, Around, Term
<1>3. StopFollows'
  BY DEF IInv, Typed, StopFollows, StopIsWhole, StopScope, Watching, Around, Term
<1> QED BY <1>1, <1>2, <1>3 DEF IInv

LEMMA StopTreeInv == IInv /\ StopTree => IInv'
<1> SUFFICES ASSUME IInv, StopTree PROVE IInv'
  OBVIOUS
<1>0. Top \in Procs
  BY DEF Procs
<1>1. Typed'
  BY TreeTyped, <1>0 DEF IInv, Typed, StopTree, Watching, Around, Term
<1>2. GamesFollow'
  BY DEF IInv, Typed, GamesFollow, StopTree, Watching, Around, Term
<1>3. StopFollows'
  BY DEF IInv, Typed, StopFollows, StopIsWhole, StopTree, Watching, Around, Term
<1> QED BY <1>1, <1>2, <1>3 DEF IInv

LEMMA AskTreeInv == IInv /\ AskTree => IInv'
<1> SUFFICES ASSUME IInv, AskTree PROVE IInv'
  OBVIOUS
<1>0. Top \in Procs
  BY DEF Procs
<1>1. Typed'
  BY TreeTyped, <1>0 DEF IInv, Typed, AskTree, Around, Term
<1>2. GamesFollow'
  BY DEF IInv, Typed, GamesFollow, AskTree, Around, Term
<1>3. StopFollows'
  BY DEF IInv, Typed, StopFollows, StopIsWhole, AskTree, Around, Term
<1> QED BY <1>1, <1>2, <1>3 DEF IInv

LEMMA GentlyInv == IInv /\ Gently => IInv'
<1> SUFFICES ASSUME IInv, Gently PROVE IInv'
  OBVIOUS
<1>1. Typed'
  BY DEF IInv, Typed, Gently, Stopped, Left, Around
<1>2. GamesFollow'
  BY DEF IInv, Typed, GamesFollow, Gently, Stopped, Left, Around
<1>3. StopFollows'
  BY DEF IInv, Typed, StopFollows, StopIsWhole, Gently, Stopped, Left, Around
<1> QED BY <1>1, <1>2, <1>3 DEF IInv

LEMMA LeftToItInv == IInv /\ LeftToIt => IInv'
<1> SUFFICES ASSUME IInv, LeftToIt PROVE IInv'
  OBVIOUS
<1>1. Typed'
  BY DEF IInv, Typed, LeftToIt, Stopped, Around
<1>2. GamesFollow'
  BY DEF IInv, Typed, GamesFollow, LeftToIt, Stopped, Around
<1>3. StopFollows'
  BY DEF IInv, Typed, StopFollows, StopIsWhole, LeftToIt, Stopped, Around
<1> QED BY <1>1, <1>2, <1>3 DEF IInv

LEMMA KilledInv == IInv /\ Killed => IInv'
<1> SUFFICES ASSUME IInv, Killed PROVE IInv'
  OBVIOUS
<1>0. Top \in Procs
  BY DEF Procs
<1>1. Typed'
  BY TreeTyped, <1>0 DEF IInv, Typed, Killed, Reached, Stopped, Around, Dead
<1>2. GamesFollow'
  BY DEF IInv, Typed, GamesFollow, Killed, Reached, Stopped, Around, Dead
<1>3. StopFollows'
  BY DEF IInv, Typed, StopFollows, StopIsWhole, Killed, Reached, ByPid, Stopped, Around, Dead
<1> QED BY <1>1, <1>2, <1>3 DEF IInv

LEMMA ListsInv == IInv /\ Lists => IInv'
<1> SUFFICES ASSUME IInv, Lists PROVE IInv'
  OBVIOUS
<1>1. Typed'
  BY DEF IInv, Typed, Lists, Around
<1>2. GamesFollow'
  BY DEF IInv, Typed, GamesFollow, Lists, Around
<1>3. StopFollows'
  BY DEF IInv, Typed, StopFollows, StopIsWhole, Lists, ByPid, Around
<1> QED BY <1>1, <1>2, <1>3 DEF IInv

LEMMA ByHandInv == IInv /\ ByHand => IInv'
<1> SUFFICES ASSUME IInv, ByHand PROVE IInv'
  OBVIOUS
<1>1. Typed'
  BY DEF IInv, Typed, ByHand, Stopped, Around, Dead
<1>2. GamesFollow'
  BY DEF IInv, Typed, GamesFollow, ByHand, Stopped, Around, Dead
<1>3. StopFollows'
  BY DEF IInv, Typed, StopFollows, StopIsWhole, ByHand, Stopped, Around, Dead
<1> QED BY <1>1, <1>2, <1>3 DEF IInv

LEMMA PushedInv == IInv /\ Pushed => IInv'
<1> SUFFICES ASSUME IInv, Pushed PROVE IInv'
  OBVIOUS
<1>1. Typed'
  BY DEF IInv, Typed, Pushed, Around
<1>2. GamesFollow'
  BY DEF IInv, Typed, GamesFollow, Pushed, Around
<1>3. StopFollows'
  BY DEF IInv, Typed, StopFollows, StopIsWhole, Pushed, Around
<1> QED BY <1>1, <1>2, <1>3 DEF IInv

LEMMA UnwatchedInv == IInv /\ Unwatched => IInv'
<1> SUFFICES ASSUME IInv, Unwatched PROVE IInv'
  OBVIOUS
<1>1. Typed'
  BY DEF IInv, Typed, Unwatched, Watching, Around
<1>2. GamesFollow'
  BY DEF IInv, Typed, GamesFollow, Unwatched, Watching, Around
<1>3. StopFollows'
  BY DEF IInv, Typed, StopFollows, StopIsWhole, Unwatched, Watching, Around
<1> QED BY <1>1, <1>2, <1>3 DEF IInv

LEMMA TellInv == IInv /\ Tell => IInv'
<1> SUFFICES ASSUME IInv, Tell PROVE IInv'
  OBVIOUS
<1>1. Typed'
  BY DEF IInv, Typed, Tell
<1>2. GamesFollow'
  BY DEF IInv, Typed, GamesFollow, Tell
<1>3. StopFollows'
  BY DEF IInv, Typed, StopFollows, StopIsWhole, Tell
<1> QED BY <1>1, <1>2, <1>3 DEF IInv

LEMMA LoadReadsInv == IInv /\ LoadReads => IInv'
<1> SUFFICES ASSUME IInv, LoadReads PROVE IInv'
  OBVIOUS
<1>1. Typed'
  BY DEF IInv, Typed, LoadReads, Watching, Around
<1>2. GamesFollow'
  BY DEF IInv, Typed, GamesFollow, LoadReads, Watching, Around
<1>3. StopFollows'
  BY DEF IInv, Typed, StopFollows, StopIsWhole, LoadReads, Watching, Around
<1> QED BY <1>1, <1>2, <1>3 DEF IInv

LEMMA LoadNamesInv == IInv /\ LoadNames => IInv'
<1> SUFFICES ASSUME IInv, LoadNames PROVE IInv'
  OBVIOUS
<1>1. Typed'
  BY DEF IInv, Typed, LoadNames
<1>2. GamesFollow'
  BY DEF IInv, Typed, GamesFollow, LoadNames
<1>3. StopFollows'
  BY DEF IInv, Typed, StopFollows, StopIsWhole, LoadNames
<1> QED BY <1>1, <1>2, <1>3 DEF IInv

LEMMA LoadInv == ASSUME IInv, NEW l \in loads, LoadAsks(l) \/ LoadEnds(l) PROVE IInv'
<1>1. Typed'
  BY DEF IInv, Typed, LoadAsks, LoadEnds, Around, Term, Dead
<1>2. GamesFollow'
  BY DEF IInv, Typed, GamesFollow, LoadAsks, LoadEnds, Around, Term, Dead
<1>3. StopFollows'
  BY DEF IInv, Typed, StopFollows, StopIsWhole, LoadAsks, LoadEnds, Around, Term, Dead
<1> QED BY <1>1, <1>2, <1>3 DEF IInv

LEMMA NextInv == IInv /\ [Next]_vars => IInv'
<1> SUFFICES ASSUME IInv, [Next]_vars PROVE IInv'
  OBVIOUS
<1>1. CASE UNCHANGED vars
  BY <1>1 DEF IInv, Typed, GamesFollow, StopFollows, StopIsWhole, vars
<1>2. CASE \E l \in loads : LoadAsks(l) \/ LoadEnds(l)
  BY <1>2, LoadInv
<1>3. CASE Start
  BY <1>3, StartInv
<1>4. CASE Names
  BY <1>4, NamesInv
<1>5. CASE Trapped
  BY <1>5, TrappedInv
<1>6. CASE Waited
  BY <1>6, WaitedInv
<1>7. CASE Check
  BY <1>7, CheckInv
<1>8. CASE Picks
  BY <1>8, PicksInv
<1>9. CASE Spawn
  BY <1>9, SpawnInv
<1>10. CASE Exit
  BY <1>10, ExitInv
<1>11. CASE TopEnds
  BY <1>11, TopEndsInv
<1>12. CASE StopScope
  BY <1>12, StopScopeInv
<1>13. CASE StopTree
  BY <1>13, StopTreeInv
<1>14. CASE AskTree
  BY <1>14, AskTreeInv
<1>15. CASE Gently
  BY <1>15, GentlyInv
<1>16. CASE LeftToIt
  BY <1>16, LeftToItInv
<1>17. CASE Killed
  BY <1>17, KilledInv
<1>18. CASE Pushed
  BY <1>18, PushedInv
<1>19. CASE Unwatched
  BY <1>19, UnwatchedInv
<1>20. CASE Tell
  BY <1>20, TellInv
<1>21. CASE LoadReads
  BY <1>21, LoadReadsInv
<1>22. CASE LoadNames
  BY <1>22, LoadNamesInv
<1>23. CASE Lists
  BY <1>23, ListsInv
<1>24. CASE ByHand
  BY <1>24, ByHandInv
<1> QED BY <1>1, <1>2, <1>3, <1>4, <1>5, <1>6, <1>7, <1>8, <1>9, <1>10, <1>11, <1>12, <1>13, <1>14, <1>15, <1>16, <1>17, <1>18, <1>19, <1>20, <1>21, <1>22, <1>23, <1>24 DEF Next

LEMMA IInvHolds == Spec => []IInv
  BY InitIInv, NextInv, PTL DEF Spec

\* A contained launch that is stopped, and whose switch is not told to go
\* meanwhile, leaves no process, a game started again under the stop included,
\* where the kernel has cgroup.kill or none is needed (contain.rs
\* stop_scope_unless).
THEOREM StopsWhole == Spec => []StopIsWhole
<1>1. IInv => StopIsWhole
  BY DEF IInv, StopFollows
<1> QED BY <1>1, IInvHolds, PTL

\* A picked save is put back while no game of the play runs, however the game
\* before ended (env/machinery/lib.nix gotg-play).
THEOREM PutsBackAtRest == Spec => []PutBackAtRest
<1>1. IInv => PutBackAtRest
  <2> SUFFICES ASSUME IInv, At("restore"), NEW n \in 1..MaxGames PROVE GameNo(n) \notin procs
    BY DEF PutBackAtRest
  <2>1. n \in Nat
    OBVIOUS
  <2> QED BY <2>1 DEF IInv, GamesFollow, At
<1> QED BY <1>1, IInvHolds, PTL
=============================================================================
