------------------------------ MODULE ArtCache -------------------------------
(***************************************************************************)
(* What is known of one game's tile (service/artcache.py, ArtCache, and    *)
(* routes_art.py): a picture in one of three formats, or the record that   *)
(* nobody has one.  Each is a file, and every write forgets all four       *)
(* first, one unlink at a time, then writes beside and renames.  Nothing   *)
(* locks: a GET probes the formats one by one and only then the record.    *)
(* Pictures are written by the holder of the index token.                  *)
(***************************************************************************)
EXTENDS Naturals, FiniteSets, Sequences

CONSTANTS Warmer,  \* the index token's requests
          Viewer,  \* the clients' requests
          MaxOverlap  \* bound: how many writes may run at once

EXTENSIONS == <<"png", "jpg", "webp">>
Kinds == Append(EXTENSIONS, "miss")
Format == {EXTENSIONS[i] : i \in DOMAIN EXTENSIONS}
Kind == Format \cup {"miss"}

VARIABLES known,  \* the names that exist
          writes, \* per warmer's request: what it is to leave, how far forget is
          looks,  \* per client's request: what it has probed
          misled, \* history: a client was told "miss" while a picture stood throughout
          crossed \* history: two writes ran at once

vars == <<known, writes, looks, misled, crossed>>

Idle == [at |-> 0, leaves |-> {}]
Look0 == [at |-> 0, stood |-> FALSE]

Init == /\ known = {}
        /\ writes = [w \in Warmer |-> Idle]
        /\ looks = [v \in Viewer |-> Look0]
        /\ misled = FALSE /\ crossed = FALSE

Writing == {w \in Warmer : writes[w].at > 0}
Picture == known \cap Format # {}

\* Bookkeeping of a change: does a picture still stand for who is looking?
Settle(k) == /\ known' = k
             /\ looks' = [v \in Viewer |-> [looks[v] EXCEPT !.stood = @ /\ k \cap Format # {}]]

\* _art_put with a body that is a picture by its bytes, or ?miss=1; _art_delete.
\* Anything else is refused with nothing written.
Begin(w, leaves) ==
  /\ writes[w].at = 0 /\ Cardinality(Writing) < MaxOverlap
  /\ writes' = [writes EXCEPT ![w] = [at |-> 1, leaves |-> leaves]]
  /\ crossed' = (crossed \/ Writing # {})
  /\ UNCHANGED <<known, looks, misled>>

\* A slip of forget: the record that there is none is left.
ForgetPictures(w) ==
  /\ writes[w].at \in DOMAIN Kinds
  /\ Settle(known \ ({Kinds[writes[w].at]} \cap Format))
  /\ writes' = [writes EXCEPT ![w].at = @ + 1]
  /\ UNCHANGED <<misled, crossed>>

\* forget: the next name goes, if it is there.
Forget(w) ==
  /\ writes[w].at \in DOMAIN Kinds
  /\ Settle(known \ {Kinds[writes[w].at]})
  /\ writes' = [writes EXCEPT ![w].at = @ + 1]
  /\ UNCHANGED <<misled, crossed>>

\* os.replace: the name appears, whole; a forget alone ends here.
Replace(w) ==
  /\ writes[w].at > Len(Kinds)
  /\ Settle(known \cup writes[w].leaves)
  /\ writes' = [writes EXCEPT ![w] = Idle]
  /\ UNCHANGED <<misled, crossed>>

\* The service stops in the middle of a write.
Stop ==
  /\ Writing # {}
  /\ writes' = [w \in Warmer |-> Idle] /\ looks' = [v \in Viewer |-> Look0]
  /\ UNCHANGED <<known, misled, crossed>>

BeginLook(v) ==
  /\ looks[v].at = 0
  /\ looks' = [looks EXCEPT ![v] = [at |-> 1, stood |-> Picture]]
  /\ UNCHANGED <<known, writes, misled, crossed>>

\* get, is_miss: one exists() after another.  A picture found is opened, and is
\* served or gone meanwhile (a 404 that claims nothing); the record is a "miss".
Probe(v) ==
  LET l == looks[v] found == Kinds[l.at] \in known IN
  /\ l.at \in DOMAIN Kinds
  /\ looks' = [looks EXCEPT ![v] = IF found \/ l.at = Len(Kinds) THEN Look0
                                   ELSE [l EXCEPT !.at = @ + 1]]
  /\ misled' = (misled \/ (found /\ Kinds[l.at] = "miss" /\ l.stood))
  /\ UNCHANGED <<known, writes, crossed>>

Next == \/ \E w \in Warmer : \/ \E k \in SUBSET Kind : Cardinality(k) <= 1 /\ Begin(w, k)
                             \/ Forget(w) \/ Replace(w)
        \/ \E v \in Viewer : BeginLook(v) \/ Probe(v)
        \/ Stop

Spec == Init /\ [][Next]_vars

-----------------------------------------------------------------------------
\* As long as no two writes of the game crossed, one answer stands for it: a
\* picture in one format or the record that there is none ("a game whose art
\* changes format would otherwise keep both"), also after a stop.  And a client
\* is never told "miss", after which it stops asking, while a picture stands.
OneAnswer == /\ ~crossed => Cardinality(known) <= 1
             /\ ~crossed => ~misled

=============================================================================
