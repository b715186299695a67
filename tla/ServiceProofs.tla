---------------------------- MODULE ServiceProofs -----------------------------
(***************************************************************************)
(* What the service's parts promise, proved for every value of their       *)
(* constants.                                                              *)
(***************************************************************************)
EXTENDS Service, Sequences, FiniteSetTheorems, SequenceTheorems, WellFoundedInduction, TLAPS

(***************************************************************************)
(* The art cache.  While no two writes have crossed there is at most one   *)
(* writer, and what it has forgotten so far is gone: so what it then names *)
(* is alone.  A look remembers a picture only as long as one stands.       *)
(***************************************************************************)

LEMMA ArtKinds ==
  /\ Len(Art!Kinds) = 4 /\ DOMAIN Art!Kinds = 1..4
  /\ Art!Kinds[1] = "png" /\ Art!Kinds[2] = "jpg" /\ Art!Kinds[3] = "webp" /\ Art!Kinds[4] = "miss"
  /\ Art!Format = {"png", "jpg", "webp"}
  /\ Art!Kind = {"png", "jpg", "webp", "miss"}
<1>1. Art!Format = {"png", "jpg", "webp"}
  <2>1. DOMAIN Art!EXTENSIONS = {1, 2, 3}
    BY DEF Art!EXTENSIONS
  <2>2. Art!EXTENSIONS[1] = "png" /\ Art!EXTENSIONS[2] = "jpg" /\ Art!EXTENSIONS[3] = "webp"
    BY DEF Art!EXTENSIONS
  <2>3. Art!Format \subseteq {"png", "jpg", "webp"}
    BY <2>1, <2>2 DEF Art!Format
  <2>4. "png" \in Art!Format /\ "jpg" \in Art!Format /\ "webp" \in Art!Format
    <3>1. 1 \in DOMAIN Art!EXTENSIONS /\ 2 \in DOMAIN Art!EXTENSIONS /\ 3 \in DOMAIN Art!EXTENSIONS
      BY <2>1
    <3> QED BY <3>1, <2>2 DEF Art!Format
  <2> QED BY <2>3, <2>4
<1>2. Art!Kind = {"png", "jpg", "webp", "miss"}
  BY <1>1 DEF Art!Kind
<1>3. /\ Len(Art!Kinds) = 4 /\ DOMAIN Art!Kinds = 1..4
      /\ Art!Kinds[1] = "png" /\ Art!Kinds[2] = "jpg" /\ Art!Kinds[3] = "webp" /\ Art!Kinds[4] = "miss"
  <2> DEFINE e == <<"png", "jpg", "webp">>
  <2>1. Len(e) = 3 /\ e[1] = "png" /\ e[2] = "jpg" /\ e[3] = "webp"
    OBVIOUS
  <2>2. e \in Seq({"png", "jpg", "webp", "miss"})
    OBVIOUS
  <2>3. Art!Kinds = Append(e, "miss")
    BY DEF Art!Kinds, Art!EXTENSIONS
  <2> HIDE DEF e
  <2>4. /\ Len(Art!Kinds) = Len(e) + 1
        /\ \A i \in 1..Len(e) : Art!Kinds[i] = e[i]
        /\ Art!Kinds[Len(e) + 1] = "miss"
        /\ Art!Kinds \in Seq({"png", "jpg", "webp", "miss"})
    <3>1. "miss" \in {"png", "jpg", "webp", "miss"}
      OBVIOUS
    <3> QED BY <2>2, <2>3, <3>1, AppendProperties, Zenon
  <2> QED BY <2>1, <2>4
<1> QED BY <1>1, <1>2, <1>3

LEMMA ArtKindFinite == IsFiniteSet(Art!Kind)
<1>1. IsFiniteSet({"png"})
  BY FS_Singleton
<1>2. IsFiniteSet({"png"} \cup {"jpg"})
  BY <1>1, FS_AddElement
<1>3. IsFiniteSet(({"png"} \cup {"jpg"}) \cup {"webp"})
  BY <1>2, FS_AddElement
<1>4. IsFiniteSet((({"png"} \cup {"jpg"}) \cup {"webp"}) \cup {"miss"})
  BY <1>3, FS_AddElement
<1>5. Art!Kind = (({"png"} \cup {"jpg"}) \cup {"webp"}) \cup {"miss"}
  BY ArtKinds
<1> QED BY <1>4, <1>5

\* A set's size is what its theorems say of it.
LEMMA ArtCardinality ==
  ASSUME NEW S
  PROVE  Art!Cardinality(S) = Cardinality(S)
  BY DEF Art!Cardinality, Cardinality, Art!IsFiniteSet, IsFiniteSet

AtMostOne(S) == \A x, y \in S : x = y

LEMMA AtMostOneCounts ==
  ASSUME NEW S, IsFiniteSet(S)
  PROVE  Cardinality(S) <= 1 <=> AtMostOne(S)
<1>1. CASE S = {}
  BY <1>1, FS_EmptySet DEF AtMostOne
<1>2. CASE S # {}
  <2>1. PICK x \in S : TRUE
    BY <1>2
  <2>2. S = {x} => Cardinality(S) = 1
    BY FS_Singleton
  <2>3. ASSUME NEW y \in S, y # x
        PROVE  Cardinality(S) > 1
    <3>1. Cardinality({x}) = 1 /\ IsFiniteSet({x})
      BY FS_Singleton
    <3>2. Cardinality({x} \cup {y}) = 2
      BY <3>1, <2>3, FS_AddElement
    <3>3. {x} \cup {y} \subseteq S
      BY <2>3
    <3>4. Cardinality({x} \cup {y}) <= Cardinality(S) /\ Cardinality(S) \in Nat
      BY <3>3, FS_Subset, FS_CardinalityType
    <3> QED BY <3>2, <3>4
  <2>4. CASE \E y \in S : y # x
    <3>1. ~AtMostOne(S)
      BY <2>4, <2>1 DEF AtMostOne
    <3>2. Cardinality(S) \in Nat /\ Cardinality(S) > 1
      BY <2>3, <2>4, FS_CardinalityType
    <3> QED BY <3>1, <3>2
  <2>5. CASE \A y \in S : y = x
    <3>1. S = {x}
      BY <2>1, <2>5
    <3> QED BY <3>1, <2>2 DEF AtMostOne
  <2> QED BY <2>4, <2>5
<1> QED BY <1>1, <1>2

ArtWrite == [at : 0..5, leaves : {k \in SUBSET Art!Kind : AtMostOne(k)}]

ArtTyped ==
  /\ known \subseteq Art!Kind
  /\ artWrites \in [Warmer -> ArtWrite]
  /\ looks \in [Viewer -> [at : 0..4, stood : BOOLEAN]]
  /\ misled \in BOOLEAN /\ crossed \in BOOLEAN

\* A picture that stood throughout a look stands.
LooksFollow == \A v \in Viewer : looks[v].stood => known \cap Art!Format # {}

\* There is one writer, what it has forgotten is gone, and one name is known.
WritesFollow ==
  /\ \A w, x \in Warmer : artWrites[w].at > 0 /\ artWrites[x].at > 0 => w = x
  /\ \A w \in Warmer : \A i \in 1..4 : i < artWrites[w].at => Art!Kinds[i] \notin known
  /\ AtMostOne(known)
  /\ ~misled

ArtInv == ArtTyped /\ LooksFollow /\ (~crossed => WritesFollow)

LEMMA ArtInit ==
  ASSUME Art!Init
  PROVE  ArtInv
<1>1. /\ known = {} /\ misled = FALSE /\ crossed = FALSE
      /\ artWrites = [w \in Warmer |-> [at |-> 0, leaves |-> {}]]
      /\ looks = [v \in Viewer |-> [at |-> 0, stood |-> FALSE]]
  BY DEF Art!Init, Art!Idle, Art!Look0
<1>2. {} \in {k \in SUBSET Art!Kind : AtMostOne(k)}
  BY DEF AtMostOne
<1>3. ArtTyped
  <2>1. artWrites \in [Warmer -> ArtWrite]
    BY <1>1, <1>2 DEF ArtWrite
  <2>2. looks \in [Viewer -> [at : 0..4, stood : BOOLEAN]]
    BY <1>1
  <2> QED BY <1>1, <2>1, <2>2 DEF ArtTyped
<1>4. LooksFollow /\ WritesFollow
  BY <1>1 DEF LooksFollow, WritesFollow, AtMostOne
<1> QED BY <1>3, <1>4 DEF ArtInv

\* What a look remembers follows every change.
LEMMA SettleStep ==
  ASSUME ArtTyped, LooksFollow, NEW k \in SUBSET Art!Kind, Art!Settle(k)
  PROVE  /\ LooksFollow'
         /\ known' = k /\ looks' \in [Viewer -> [at : 0..4, stood : BOOLEAN]]
  BY DEF ArtTyped, LooksFollow, Art!Settle

LEMMA BeginWriteStep ==
  ASSUME ArtInv, NEW w \in Warmer, NEW leaves \in SUBSET Art!Kind,
         Art!Cardinality(leaves) <= 1, Art!Begin(w, leaves)
  PROVE  ArtInv'
<1>1. AtMostOne(leaves)
  <2>1. IsFiniteSet(leaves)
    BY ArtKindFinite, FS_Subset
  <2> QED BY <2>1, ArtCardinality, AtMostOneCounts
<1>2. /\ artWrites' = [artWrites EXCEPT ![w] = [at |-> 1, leaves |-> leaves]]
      /\ crossed' = (crossed \/ Art!Writing # {})
      /\ UNCHANGED <<known, looks, misled>>
  BY DEF Art!Begin
<1>3. (ArtTyped /\ LooksFollow)'
  BY <1>1, <1>2 DEF ArtInv, ArtTyped, LooksFollow, ArtWrite
<1>4. ASSUME ~crossed'
      PROVE  WritesFollow'
  <2>1. ~crossed /\ \A x \in Warmer : ~(artWrites[x].at > 0)
    BY <1>2, <1>4 DEF Art!Writing
  <2>2. \A x \in Warmer : artWrites'[x].at > 0 => x = w
    BY <1>2, <2>1 DEF ArtInv, ArtTyped
  <2>3. artWrites'[w].at = 1
    BY <1>2 DEF ArtInv, ArtTyped
  <2>4. \A x \in Warmer : \A i \in 1..4 : ~(i < artWrites'[x].at)
    BY <2>2, <2>3, <1>3 DEF ArtTyped, ArtWrite
  <2> QED BY <1>2, <2>1, <2>2, <2>4 DEF ArtInv, WritesFollow
<1> QED BY <1>3, <1>4 DEF ArtInv

LEMMA ForgetStep ==
  ASSUME ArtInv, NEW w \in Warmer, Art!Forget(w)
  PROVE  ArtInv'
<1>1. artWrites[w].at \in 1..4
  BY ArtKinds DEF Art!Forget
<1>2. /\ Art!Settle(known \ {Art!Kinds[artWrites[w].at]})
      /\ artWrites' = [artWrites EXCEPT ![w].at = @ + 1]
      /\ UNCHANGED <<misled, crossed>>
  BY DEF Art!Forget
<1>3. /\ LooksFollow' /\ known' = known \ {Art!Kinds[artWrites[w].at]}
      /\ looks' \in [Viewer -> [at : 0..4, stood : BOOLEAN]]
  BY <1>2, SettleStep DEF ArtInv, ArtTyped
<1>4. ArtTyped'
  BY <1>1, <1>2, <1>3 DEF ArtInv, ArtTyped, ArtWrite
<1>5. ASSUME ~crossed
      PROVE  WritesFollow'
  <2>1. WritesFollow
    BY <1>5 DEF ArtInv
  <2>2. \A x \in Warmer : x # w => artWrites'[x] = artWrites[x]
    BY <1>2 DEF ArtInv, ArtTyped
  <2>3. artWrites'[w].at = artWrites[w].at + 1
    BY <1>2 DEF ArtInv, ArtTyped, ArtWrite
  <2>4. \A x \in Warmer : artWrites[x].at > 0 <=> artWrites'[x].at > 0
    BY <1>1, <2>2, <2>3
  <2>5. \A i \in 1..4 : i < artWrites'[w].at => Art!Kinds[i] \notin known'
    BY <1>1, <1>3, <2>1, <2>3 DEF WritesFollow
  <2>6. \A x \in Warmer : \A i \in 1..4 : i < artWrites'[x].at => Art!Kinds[i] \notin known'
    BY <1>3, <2>1, <2>2, <2>5 DEF WritesFollow
  <2> QED BY <1>2, <1>3, <2>1, <2>4, <2>6 DEF WritesFollow, AtMostOne
<1> QED BY <1>2, <1>3, <1>4, <1>5 DEF ArtInv

LEMMA ReplaceArtStep ==
  ASSUME ArtInv, NEW w \in Warmer, Art!Replace(w)
  PROVE  ArtInv'
<1>1. artWrites[w].at = 5 /\ artWrites[w].leaves \subseteq Art!Kind /\ AtMostOne(artWrites[w].leaves)
  BY ArtKinds DEF Art!Replace, ArtInv, ArtTyped, ArtWrite
<1>2. /\ Art!Settle(known \cup artWrites[w].leaves)
      /\ artWrites' = [artWrites EXCEPT ![w] = Art!Idle]
      /\ UNCHANGED <<misled, crossed>>
  BY DEF Art!Replace
<1>3. /\ LooksFollow' /\ known' = known \cup artWrites[w].leaves
      /\ looks' \in [Viewer -> [at : 0..4, stood : BOOLEAN]]
  BY <1>1, <1>2, SettleStep DEF ArtInv, ArtTyped
<1>4. ArtTyped'
  BY <1>1, <1>2, <1>3 DEF ArtInv, ArtTyped, ArtWrite, Art!Idle, AtMostOne
<1>5. ASSUME ~crossed
      PROVE  WritesFollow'
  <2>1. WritesFollow
    BY <1>5 DEF ArtInv
  <2>2. known = {}
    <3>1. \A i \in 1..4 : Art!Kinds[i] \notin known
      BY <1>1, <2>1 DEF WritesFollow
    <3>2. "png" \notin known /\ "jpg" \notin known /\ "webp" \notin known /\ "miss" \notin known
      BY <3>1, ArtKinds
    <3> QED BY <3>2, ArtKinds DEF ArtInv, ArtTyped
  <2>3. \A x \in Warmer : artWrites'[x].at = 0
    <3>1. \A x \in Warmer : x # w => ~(artWrites[x].at > 0)
      BY <1>1, <2>1 DEF WritesFollow
    <3>2. \A x \in Warmer : artWrites[x].at \in 0..5
      BY DEF ArtInv, ArtTyped, ArtWrite
    <3> QED BY <1>2, <3>1, <3>2 DEF ArtInv, ArtTyped, Art!Idle
  <2> QED BY <1>1, <1>2, <1>3, <2>1, <2>2, <2>3 DEF WritesFollow
<1> QED BY <1>2, <1>3, <1>4, <1>5 DEF ArtInv

LEMMA ProbeStep ==
  ASSUME ArtInv, NEW v \in Viewer, Art!Probe(v)
  PROVE  ArtInv'
<1> DEFINE l == looks[v]
<1>1. /\ l.at \in 1..4
      /\ \/ looks' = [looks EXCEPT ![v] = Art!Look0]
         \/ l.at # 4 /\ looks' = [looks EXCEPT ![v] = [l EXCEPT !.at = @ + 1]]
      /\ misled' = (misled \/ (Art!Kinds[l.at] \in known /\ Art!Kinds[l.at] = "miss" /\ l.stood))
      /\ UNCHANGED <<known, artWrites, crossed>>
  <2>1. Len(Art!Kinds) = 4 /\ DOMAIN Art!Kinds = 1..4
    BY ArtKinds
  <2> QED BY <2>1 DEF Art!Probe
<1>2. ArtTyped' /\ LooksFollow'
  <2>1. CASE looks' = [looks EXCEPT ![v] = Art!Look0]
    BY <1>1, <2>1 DEF ArtInv, ArtTyped, LooksFollow, Art!Look0
  <2>2. CASE l.at # 4 /\ looks' = [looks EXCEPT ![v] = [l EXCEPT !.at = @ + 1]]
    <3>1. looks'[v].stood = l.stood /\ \A u \in Viewer : u # v => looks'[u] = looks[u]
      BY <2>2 DEF ArtInv, ArtTyped
    <3>2. l.at + 1 \in 0..4 /\ l.stood \in BOOLEAN
      BY <2>2, <1>1 DEF ArtInv, ArtTyped
    <3>3. looks' \in [Viewer -> [at : 0..4, stood : BOOLEAN]]
      BY <2>2, <3>2 DEF ArtInv, ArtTyped
    <3> QED BY <1>1, <3>1, <3>3 DEF ArtInv, ArtTyped, LooksFollow
  <2> QED BY <1>1, <2>1, <2>2
<1>3. ~crossed => ~misled'
  BY <1>1, ArtKinds DEF ArtInv, WritesFollow, LooksFollow, AtMostOne
<1> QED BY <1>1, <1>2, <1>3 DEF ArtInv, WritesFollow

LEMMA ArtNext ==
  ASSUME ArtInv, Art!Next
  PROVE  ArtInv'
<1>1. ASSUME NEW v \in Viewer, Art!BeginLook(v)
      PROVE  ArtInv'
  BY <1>1 DEF Art!BeginLook, Art!Picture, ArtInv, ArtTyped, LooksFollow, WritesFollow
<1>2. ASSUME Art!Stop
      PROVE  ArtInv'
  BY <1>2 DEF Art!Stop, ArtInv, ArtTyped, LooksFollow, WritesFollow, ArtWrite, AtMostOne, Art!Idle, Art!Look0
<1> QED BY <1>1, <1>2, BeginWriteStep, ForgetStep, ReplaceArtStep, ProbeStep DEF Art!Next

LEMMA ArtOne == ArtInv => Art!OneAnswer
<1> SUFFICES ASSUME ArtInv PROVE Art!OneAnswer
  OBVIOUS
<1>1. IsFiniteSet(known)
  BY ArtKindFinite, FS_Subset DEF ArtInv, ArtTyped
<1> QED BY <1>1, AtMostOneCounts, ArtCardinality DEF ArtInv, WritesFollow, Art!OneAnswer

(***************************************************************************)
(* The runs that warm the art cache.  What a run still means to ask about  *)
(* has no picture that the run found as it began, and what it is done with *)
(* is answered or put off.                                                 *)
(***************************************************************************)

WarmRecord == [at : {"new", "ask", "store", "done", "stopped"}, todo : SUBSET Game, asked : SUBSET Game,
               game : SUBSET Game, body : {"none", "picture", "miss"}, consecutive : Nat,
               heard : {"nothing", "libretro", "both"}, left : SUBSET Game, stood : SUBSET Game]

WarmTyped ==
  /\ upstream \in [Game -> SUBSET {"sgdb", "libretro"}]
  /\ art \in [Game -> {"unknown", "picture", "miss"}]
  /\ warmRuns \in [WarmRun -> WarmRecord]
  /\ why \in [Game -> {"nothing", "libretro", "both"}]

\* A run's memory, beside the service's answers a.
RunSound(r, run, a) ==
  /\ run.at \in {"ask", "store"} => /\ run.consecutive < GIVE_UP_AFTER
                                    /\ r \notin Refresh => run.todo \cap run.stood = {}
  /\ run.at = "store" => /\ run.game \subseteq run.todo
                         /\ run.body \in {"picture", "miss"}
                         /\ run.body = "miss" => run.heard # "nothing"
  /\ run.at \in {"ask", "store", "done"} => \A g \in run.asked \ (run.todo \cup run.left) : a[g] # "unknown"
  /\ run.at = "done" => run.todo = {}

WarmInv ==
  /\ WarmTyped
  /\ \A r \in WarmRun : RunSound(r, warmRuns[r], art)
  /\ lost = {}
  /\ \A g \in Game : art[g] = "miss" => why[g] # "nothing"

LEMMA WarmStarts == Warm!Init => WarmInv
  BY DEF Warm!Init, WarmInv, WarmTyped, WarmRecord, RunSound, Warm!Fresh

\* One run moves, and the service has no fewer answers than it had.
LEMMA RunMoves ==
  ASSUME WarmInv, NEW r \in WarmRun, NEW run \in WarmRecord, Warm!Goes(r, run), RunSound(r, run, art'),
         art' \in [Game -> {"unknown", "picture", "miss"}],
         \A g \in Game : art'[g] = "unknown" => art[g] = "unknown"
  PROVE  /\ warmRuns' \in [WarmRun -> WarmRecord]
         /\ \A x \in WarmRun : RunSound(x, warmRuns'[x], art')
<1>1. warmRuns' = [warmRuns EXCEPT ![r] = run]
  BY DEF Warm!Goes
<1>2. warmRuns' \in [WarmRun -> WarmRecord]
  BY <1>1 DEF WarmInv, WarmTyped
<1>3. ASSUME NEW x \in WarmRun
      PROVE  RunSound(x, warmRuns'[x], art')
  <2>1. CASE x = r
    BY <1>1, <2>1 DEF WarmInv, WarmTyped
  <2>2. CASE x # r
    <3>1. warmRuns'[x] = warmRuns[x] /\ warmRuns[x] \in WarmRecord /\ RunSound(x, warmRuns[x], art)
      BY <1>1, <2>2 DEF WarmInv, WarmTyped
    <3>2. \A g \in warmRuns[x].asked : g \in Game
      BY <3>1 DEF WarmRecord
    <3> QED BY <3>1, <3>2 DEF RunSound
  <2> QED BY <2>1, <2>2
<1> QED BY <1>2, <1>3

\* A run alone moves.
LEMMA OnlyRun ==
  ASSUME WarmInv, NEW r \in WarmRun, NEW run \in WarmRecord, Warm!Goes(r, run), RunSound(r, run, art),
         UNCHANGED <<upstream, art, why, lost>>
  PROVE  WarmInv'
<1>1. art' = art /\ art \in [Game -> {"unknown", "picture", "miss"}]
  BY DEF WarmInv, WarmTyped
<1>2. warmRuns' \in [WarmRun -> WarmRecord] /\ \A x \in WarmRun : RunSound(x, warmRuns'[x], art')
  BY <1>1, RunMoves
<1> QED BY <1>1, <1>2 DEF WarmInv, WarmTyped

LEMMA StoppedIsSound ==
  ASSUME WarmInv, NEW r \in WarmRun
  PROVE  Warm!Stopped \in WarmRecord /\ RunSound(r, Warm!Stopped, art) /\ RunSound(r, Warm!Stopped, art')
  BY DEF Warm!Stopped, Warm!Fresh, WarmRecord, RunSound

LEMMA BeginRunStep ==
  ASSUME WarmAssumption, WarmInv, NEW r \in WarmRun, Warm!Begin(r)
  PROVE  WarmInv'
<1>1. PICK todo \in SUBSET (IF r \in Refresh THEN Game ELSE Game \ Warm!Known) :
        Warm!Goes(r, [Warm!Fresh EXCEPT !.at = "ask", !.todo = todo, !.asked = todo,
                                        !.stood = {g \in Game : art[g] = "picture"}])
  BY DEF Warm!Begin
<1> DEFINE run == [Warm!Fresh EXCEPT !.at = "ask", !.todo = todo, !.asked = todo,
                                     !.stood = {g \in Game : art[g] = "picture"}]
<1>2. todo \subseteq Game /\ (r \notin Refresh => \A g \in todo : art[g] = "unknown")
  BY DEF Warm!Known
<1>3. run \in WarmRecord
  BY <1>2 DEF Warm!Fresh, WarmRecord
<1>4. /\ run.at = "ask" /\ run.todo = todo /\ run.asked = todo /\ run.consecutive = 0 /\ run.left = {}
      /\ run.stood = {g \in Game : art[g] = "picture"}
  BY DEF Warm!Fresh
<1>5. UNCHANGED <<upstream, art, why, lost>> /\ Warm!Goes(r, run)
  BY <1>1 DEF Warm!Begin
<1> HIDE DEF run
<1>6. RunSound(r, run, art)
  BY <1>2, <1>4, WarmAssumption DEF RunSound
<1> QED BY <1>3, <1>5, <1>6, OnlyRun

LEMMA FailsSound ==
  ASSUME WarmAssumption, WarmInv, NEW r \in WarmRun, NEW g \in Game,
         warmRuns[r].at \in {"ask", "store"}, Warm!Fails(r, g), UNCHANGED <<upstream, art, why, lost>>
  PROVE  WarmInv'
<1> DEFINE old == warmRuns[r]
           run == [old EXCEPT !.todo = @ \ {g}, !.left = @ \cup {g}, !.game = {}, !.heard = "nothing",
                              !.consecutive = @ + 1]
           on == [run EXCEPT !.at = "ask"]
<1>1. old \in WarmRecord /\ RunSound(r, old, art)
  BY DEF WarmInv, WarmTyped
<1>2. run.consecutive = old.consecutive + 1 /\ old.consecutive \in Nat
  BY <1>1 DEF WarmRecord
<1>3. CASE run.consecutive >= GIVE_UP_AFTER
  <2>1. Warm!Goes(r, Warm!Stopped)
    BY <1>3 DEF Warm!Fails
  <2> QED BY <2>1, StoppedIsSound, OnlyRun
<1>4. CASE ~(run.consecutive >= GIVE_UP_AFTER)
  <2>1. Warm!Goes(r, on)
    BY <1>4 DEF Warm!Fails
  <2>2. on \in WarmRecord
    <3>1. old.todo \ {g} \subseteq Game /\ old.left \cup {g} \subseteq Game /\ old.consecutive + 1 \in Nat
      BY <1>1 DEF WarmRecord
    <3> QED BY <1>1, <3>1 DEF WarmRecord
  <2>3. /\ on.at = "ask" /\ on.todo = old.todo \ {g} /\ on.left = old.left \cup {g}
        /\ on.consecutive = old.consecutive + 1 /\ on.asked = old.asked /\ on.stood = old.stood
    BY <1>1 DEF WarmRecord
  <2>4. old.consecutive + 1 < GIVE_UP_AFTER
    BY <1>2, <1>4, WarmAssumption
  <2> HIDE DEF on, old
  <2>5. old.at \in {"ask", "store"}
    BY DEF old
  <2>6. RunSound(r, on, art)
    BY <1>1, <2>3, <2>4, <2>5 DEF RunSound
  <2> QED BY <2>1, <2>2, <2>6, OnlyRun
<1> QED BY <1>3, <1>4

LEMMA ResolveStep ==
  ASSUME WarmAssumption, WarmInv, NEW r \in WarmRun, NEW g \in Game, Warm!Resolve(r, g)
  PROVE  WarmInv'
<1> DEFINE old == warmRuns[r]
           picture == [old EXCEPT !.at = "store", !.game = {g}, !.body = "picture"]
           miss(h) == [old EXCEPT !.at = "store", !.game = {g}, !.body = "miss", !.heard = h]
<1>1. old.at = "ask" /\ g \in old.todo /\ UNCHANGED <<upstream, art, why, lost>>
  BY DEF Warm!Resolve
<1>2. old \in WarmRecord /\ RunSound(r, old, art)
  BY DEF WarmInv, WarmTyped
<1>3. \/ Warm!Goes(r, picture)
      \/ Warm!Goes(r, Warm!Stopped)
      \/ \E h \in {"libretro", "both"} : Warm!Goes(r, miss(h))
      \/ Warm!Fails(r, g)
  <2>1. CASE Warm!Fails(r, g)
    BY <2>1
  <2>2. CASE ~Warm!Fails(r, g)
    <3>1. PICK n \in Warm!Notes(g) : \E had \in Warm!Had(g, n) :
            CASE had # {} -> Warm!Goes(r, picture)
              [] had = {} /\ n.sgdb = "refused" -> Warm!Goes(r, Warm!Stopped)
              [] had = {} /\ n.sgdb # "refused" /\ Warm!clean_no(n) -> Warm!Goes(r, miss(Warm!Heard(n)))
              [] OTHER -> Warm!Fails(r, g)
      BY <2>2 DEF Warm!Resolve
    <3>2. n.sgdb # "refused" /\ Warm!clean_no(n) => Warm!Heard(n) \in {"libretro", "both"}
      BY DEF Warm!clean_no, Warm!Heard
    <3> QED BY <2>2, <3>1, <3>2
  <2> QED BY <2>1, <2>2
<1>4. CASE Warm!Goes(r, picture)
  <2>1. picture \in WarmRecord
    BY <1>2 DEF WarmRecord
  <2>2. /\ picture.at = "store" /\ picture.game = {g} /\ picture.body = "picture" /\ picture.todo = old.todo
        /\ picture.left = old.left /\ picture.consecutive = old.consecutive /\ picture.asked = old.asked
        /\ picture.stood = old.stood
    BY <1>2 DEF WarmRecord
  <2> HIDE DEF picture, old
  <2>3. RunSound(r, picture, art)
    BY <1>1, <1>2, <2>2 DEF RunSound
  <2> QED BY <1>1, <1>4, <2>1, <2>3, OnlyRun
<1>5. CASE Warm!Goes(r, Warm!Stopped)
  BY <1>1, <1>5, StoppedIsSound, OnlyRun
<1>6. ASSUME NEW h \in {"libretro", "both"}, Warm!Goes(r, miss(h))
      PROVE  WarmInv'
  <2> DEFINE m == miss(h)
  <2>1. m \in WarmRecord
    BY <1>2 DEF WarmRecord
  <2>2. /\ m.at = "store" /\ m.game = {g} /\ m.body = "miss" /\ m.todo = old.todo /\ m.heard = h
        /\ m.left = old.left /\ m.consecutive = old.consecutive /\ m.asked = old.asked
        /\ m.stood = old.stood
    BY <1>2 DEF WarmRecord
  <2>3. Warm!Goes(r, m)
    BY <1>6
  <2> HIDE DEF m, old
  <2>4. RunSound(r, m, art)
    BY <1>1, <1>2, <2>2 DEF RunSound
  <2> QED BY <1>1, <2>1, <2>3, <2>4, OnlyRun
<1>7. CASE Warm!Fails(r, g)
  BY <1>1, <1>7, FailsSound
<1> HIDE DEF picture, miss
<1> QED BY <1>3, <1>4, <1>5, <1>6, <1>7

\* What is written is an answer, and takes no picture away.
LEMMA WriteStep ==
  ASSUME WarmInv, NEW r \in WarmRun, NEW g \in Game, warmRuns[r].at = "store", warmRuns[r].game = {g},
         art' = [art EXCEPT ![g] = warmRuns[r].body],
         why' = IF warmRuns[r].body = "miss" THEN [why EXCEPT ![g] = warmRuns[r].heard] ELSE why,
         lost' = IF art[g] = "picture" /\ warmRuns[r].body = "miss" /\ g \in warmRuns[r].stood /\ r \notin Refresh
                 THEN lost \cup {g} ELSE lost,
         NEW run \in WarmRecord, Warm!Goes(r, run), RunSound(r, run, art'), UNCHANGED upstream
  PROVE  WarmInv'
<1> DEFINE old == warmRuns[r]
<1>1. old \in WarmRecord /\ RunSound(r, old, art)
  BY DEF WarmInv, WarmTyped
<1>2. /\ g \in old.todo /\ old.body \in {"picture", "miss"} /\ (old.body = "miss" => old.heard # "nothing")
      /\ (r \notin Refresh => g \notin old.stood)
  BY <1>1 DEF RunSound
<1>3. old.heard \in {"nothing", "libretro", "both"}
  BY <1>1 DEF WarmRecord
<1>4. /\ art' \in [Game -> {"unknown", "picture", "miss"}]
      /\ \A x \in Game : art'[x] = IF x = g THEN old.body ELSE art[x]
  BY <1>2 DEF WarmInv, WarmTyped
<1>5. lost' = {}
  BY <1>2 DEF WarmInv
<1>6. /\ why' \in [Game -> {"nothing", "libretro", "both"}]
      /\ \A x \in Game : why'[x] = IF x = g /\ old.body = "miss" THEN old.heard ELSE why[x]
  BY <1>3 DEF WarmInv, WarmTyped
<1>7. warmRuns' \in [WarmRun -> WarmRecord] /\ \A x \in WarmRun : RunSound(x, warmRuns'[x], art')
  BY <1>2, <1>4, RunMoves
<1>8. \A x \in Game : art'[x] = "miss" => why'[x] # "nothing"
  BY <1>2, <1>4, <1>6 DEF WarmInv
<1> QED BY <1>4, <1>5, <1>6, <1>7, <1>8 DEF WarmInv, WarmTyped

LEMMA StoreArtStep ==
  ASSUME WarmAssumption, WarmInv, NEW r \in WarmRun, NEW g \in Game, Warm!Store(r, g)
  PROVE  WarmInv'
<1> DEFINE old == warmRuns[r]
           written == /\ art' = [art EXCEPT ![g] = old.body]
                      /\ why' = IF old.body = "miss" THEN [why EXCEPT ![g] = old.heard] ELSE why
                      /\ lost' = IF art[g] = "picture" /\ old.body = "miss" /\ g \in old.stood /\ r \notin Refresh
                                 THEN lost \cup {g} ELSE lost
           on == [old EXCEPT !.at = "ask", !.todo = @ \ {g}, !.game = {}, !.heard = "nothing", !.consecutive = 0]
<1>1. old.at = "store" /\ old.game = {g} /\ UNCHANGED upstream
  BY DEF Warm!Store
<1>2. \/ written /\ Warm!Goes(r, on)
      \/ written /\ Warm!Goes(r, Warm!Stopped)
      \/ Warm!Fails(r, g) /\ UNCHANGED <<art, why, lost>>
      \/ Warm!Goes(r, Warm!Stopped) /\ UNCHANGED <<art, why, lost>>
  BY DEF Warm!Store
<1>3. CASE written /\ Warm!Goes(r, on)
  <2>1. old \in WarmRecord /\ RunSound(r, old, art)
    BY DEF WarmInv, WarmTyped
  <2>2. on \in WarmRecord
    BY <2>1 DEF WarmRecord
  <2>3. /\ on.at = "ask" /\ on.todo = old.todo \ {g} /\ on.left = old.left /\ on.consecutive = 0
        /\ on.asked = old.asked /\ on.stood = old.stood /\ old.asked \subseteq Game
    BY <2>1 DEF WarmRecord
  <2>4. \A x \in Game : art'[x] = IF x = g THEN old.body ELSE art[x]
    BY <1>3 DEF WarmInv, WarmTyped
  <2>5. written /\ Warm!Goes(r, on)
    BY <1>3
  <2> HIDE DEF on
  <2>6. RunSound(r, on, art')
    <3>1. old.at = "store" /\ old.body # "unknown"
      BY <1>1, <2>1 DEF RunSound
    <3> HIDE DEF old
    <3>2. \A x \in on.asked \ (on.todo \cup on.left) : art'[x] # "unknown"
      BY <2>1, <2>3, <2>4, <3>1 DEF RunSound
    <3>3. r \notin Refresh => on.todo \cap on.stood = {}
      BY <2>1, <2>3, <3>1 DEF RunSound
    <3> QED BY <2>3, <3>2, <3>3, WarmAssumption DEF RunSound
  <2> QED BY <1>1, <2>2, <2>5, <2>6, WriteStep
<1>4. CASE written /\ Warm!Goes(r, Warm!Stopped)
  BY <1>1, <1>4, StoppedIsSound, WriteStep
<1>5. CASE Warm!Fails(r, g) /\ UNCHANGED <<art, why, lost>>
  BY <1>1, <1>5, FailsSound
<1>6. CASE Warm!Goes(r, Warm!Stopped) /\ UNCHANGED <<art, why, lost>>
  BY <1>1, <1>6, StoppedIsSound, OnlyRun
<1> QED BY <1>2, <1>3, <1>4, <1>5, <1>6

LEMMA EndRunStep ==
  ASSUME WarmInv, NEW r \in WarmRun, Warm!End(r)
  PROVE  WarmInv'
<1> DEFINE old == warmRuns[r]
           over == [Warm!Fresh EXCEPT !.at = "done", !.asked = old.asked, !.left = old.left]
<1>1. old.at = "ask" /\ old.todo = {} /\ Warm!Goes(r, over) /\ UNCHANGED <<upstream, art, why, lost>>
  BY DEF Warm!End
<1>2. old \in WarmRecord /\ RunSound(r, old, art)
  BY DEF WarmInv, WarmTyped
<1>3. over \in WarmRecord
  BY <1>2 DEF WarmRecord, Warm!Fresh
<1>4. over.at = "done" /\ over.todo = {} /\ over.asked = old.asked /\ over.left = old.left
  BY DEF Warm!Fresh
<1> HIDE DEF over, old
<1>5. RunSound(r, over, art)
  BY <1>1, <1>2, <1>4 DEF RunSound
<1> QED BY <1>1, <1>3, <1>5, OnlyRun

LEMMA WarmNext ==
  ASSUME WarmAssumption, WarmInv, Warm!Next
  PROVE  WarmInv'
<1>1. ASSUME NEW r \in WarmRun, Warm!Interrupt(r)
      PROVE  WarmInv'
  BY <1>1, StoppedIsSound, OnlyRun DEF Warm!Interrupt
<1> QED BY <1>1, BeginRunStep, EndRunStep, ResolveStep, StoreArtStep DEF Warm!Next

LEMMA WarmPromise == WarmInv => Warm!WarmIsResumed
<1> SUFFICES ASSUME WarmInv PROVE Warm!WarmIsResumed
  OBVIOUS
<1>1. ASSUME NEW r \in WarmRun
      PROVE  /\ warmRuns[r].at = "done" =>
                  \A g \in warmRuns[r].asked \ warmRuns[r].left : art[g] # "unknown"
             /\ warmRuns[r].at \in {"ask", "store"} => warmRuns[r].consecutive < GIVE_UP_AFTER
  <2>1. RunSound(r, warmRuns[r], art)
    BY DEF WarmInv
  <2> QED BY <2>1 DEF RunSound
<1> QED BY <1>1 DEF Warm!WarmIsResumed, WarmInv

(***************************************************************************)
(* The remembered answers.  While no two requests have been storing one    *)
(* answer at once, the file beside the name is the storing request's own:  *)
(* no name and no reader has it, until it is whole.                        *)
(***************************************************************************)

AnswerRecord == [at : {"idle", "kind", "ask", "open", "fill", "replace"}, of : ProxyAnswer \cup {NoPayload},
                 name : {"kind", "body"}, fd : Answers!Inode \cup {0}]

AnswersTyped ==
  /\ final \in [{"kind", "body"} -> Answers!Inode \cup {0}]
  /\ answersPart \in [{"kind", "body"} -> Answers!Inode \cup {0}]
  /\ data \in [Answers!Inode -> [of : ProxyAnswer \cup {NoPayload}, whole : BOOLEAN]]
  /\ answersCalls \in [Thread -> AnswerRecord]
  /\ together \in BOOLEAN

\* What has a descriptor, and whose kind is there already.
CallsFollow ==
  \A t \in Thread : LET c == answersCalls[t] IN
    /\ c.at = "kind" => c.fd # 0
    /\ c.at \in {"open", "replace"} => c.fd = 0
    /\ c.at \in {"open", "fill", "replace"} /\ c.name = "body" => final["kind"] # 0

KindIsThere == final["body"] # 0 => final["kind"] # 0

\* A file that has the name of a part has no other.
PartsApart ==
  /\ answersPart["kind"] # 0 => answersPart["kind"] # answersPart["body"]
  /\ \A n, m \in {"kind", "body"} : answersPart[m] # 0 => answersPart[m] # final[n]
  /\ \A t \in Thread : \A m \in {"kind", "body"} :
       answersCalls[t].at = "kind" /\ answersPart[m] # 0 => answersPart[m] # answersCalls[t].fd

OneStores ==
  \A t, u \in Thread : /\ answersCalls[t].at \in {"fill", "replace"}
                       /\ answersCalls[u].at \in {"fill", "replace"}
                       => t = u

\* What is read, named or about to be is whole.
ReadsWhole ==
  /\ \A n \in {"kind", "body"} : final[n] # 0 => data[final[n]].whole
  /\ \A t \in Thread : LET c == answersCalls[t] IN
       /\ c.at = "kind" => data[c.fd].whole
       /\ c.at = "fill" => c.fd # 0 /\ answersPart[c.name] = c.fd
       /\ c.at = "replace" => answersPart[c.name] # 0 /\ data[answersPart[c.name]].whole
  /\ served # Answers!NoData => served.whole

AnswersInv ==
  /\ AnswersTyped /\ CallsFollow /\ KindIsThere
  /\ ~together => PartsApart /\ OneStores /\ ReadsWhole

LEMMA AnswersCardinality ==
  ASSUME NEW S
  PROVE  Answers!Cardinality(S) = Cardinality(S)
  BY DEF Answers!Cardinality, Cardinality, Answers!IsFiniteSet, IsFiniteSet

LEMMA NoInodeIsZero == 0 \notin Answers!Inode
  BY DEF Answers!Inode

\* There are inodes enough: one is free for the part that has none.
LEMMA FreeIsFree ==
  ASSUME ThreadAssumption, AnswersTyped, NEW p \in {"kind", "body"}, answersPart[p] = 0
  PROVE  /\ Answers!Free \in Answers!Inode
         /\ \A n \in {"kind", "body"} : Answers!Free # final[n] /\ Answers!Free # answersPart[n]
         /\ \A t \in Thread : Answers!Free # answersCalls[t].fd
<1> DEFINE other == IF p = "kind" THEN "body" ELSE "kind"
           fds == {answersCalls[t].fd : t \in Thread}
           named == ({final["kind"]} \cup {final["body"]}) \cup {answersPart[other]}
           used == fds \cup named
<1>1. IsFiniteSet(fds) /\ Cardinality(fds) <= Cardinality(Thread) /\ Cardinality(fds) \in Nat
      /\ Cardinality(Thread) \in Nat
  <2> DEFINE f == [t \in Thread |-> answersCalls[t].fd]
  <2>1. IsFiniteSet(Thread)
    BY ThreadAssumption
  <2>2. f \in Surjection(Thread, fds)
    BY DEF Surjection
  <2> HIDE DEF f, fds
  <2>3. IsFiniteSet(fds) /\ Cardinality(fds) <= Cardinality(Thread)
    BY <2>1, <2>2, FS_Surjection
  <2> QED BY <2>1, <2>3, FS_CardinalityType
<1>2. IsFiniteSet(named) /\ Cardinality(named) <= 3 /\ Cardinality(named) \in Nat
  <2>1. IsFiniteSet({final["kind"]}) /\ Cardinality({final["kind"]}) = 1
    BY FS_Singleton
  <2> DEFINE two == {final["kind"]} \cup {final["body"]}
             three == two \cup {answersPart[other]}
  <2>2. IsFiniteSet(two) /\ Cardinality(two) \in {1, 2}
    <3>1. /\ IsFiniteSet(two)
          /\ Cardinality(two) = IF final["body"] \in {final["kind"]} THEN Cardinality({final["kind"]})
                                ELSE Cardinality({final["kind"]}) + 1
      BY <2>1, FS_AddElement
    <3> QED BY <2>1, <3>1
  <2> HIDE DEF two
  <2>3. IsFiniteSet(three) /\ Cardinality(three) \in {1, 2, 3}
    <3>1. /\ IsFiniteSet(three)
          /\ Cardinality(three) = IF answersPart[other] \in two THEN Cardinality(two) ELSE Cardinality(two) + 1
      BY <2>2, FS_AddElement
    <3> QED BY <2>2, <3>1
  <2>4. three = named
    BY DEF two
  <2> HIDE DEF three, named
  <2> QED BY <2>3, <2>4
<1> HIDE DEF fds, named
<1>3. IsFiniteSet(used) /\ Cardinality(used) <= Cardinality(Thread) + 3 /\ Cardinality(used) \in Nat
  <2>1. /\ IsFiniteSet(fds \cup named)
        /\ Cardinality(fds \cup named) = Cardinality(fds) + Cardinality(named) - Cardinality(fds \cap named)
    BY <1>1, <1>2, FS_Union
  <2>2. Cardinality(fds \cap named) \in Nat /\ Cardinality(fds \cup named) \in Nat
    BY <1>1, <2>1, FS_Intersection, FS_CardinalityType
  <2> QED BY <1>1, <1>2, <2>1, <2>2
<1>4. IsFiniteSet(Answers!Inode) /\ Cardinality(Answers!Inode) = 4 + Cardinality(Thread)
  <2>1. Cardinality({"kind"} \cup {"body"}) = 2
    <3>1. IsFiniteSet({"kind"}) /\ Cardinality({"kind"}) = 1 /\ "body" \notin {"kind"}
      BY FS_Singleton
    <3> QED BY <3>1, FS_AddElement
  <2>2. Answers!Name = {"kind"} \cup {"body"}
    BY DEF Answers!Name
  <2>3. Answers!Inode = 1..(2 * Cardinality(Answers!Name) + Cardinality(Thread))
    BY AnswersCardinality DEF Answers!Inode
  <2>4. Answers!Inode = 1..(4 + Cardinality(Thread))
    BY <2>1, <2>2, <2>3, <1>1
  <2>5. 4 + Cardinality(Thread) \in Nat /\ 1 \in Int /\ 4 + Cardinality(Thread) \in Int
    BY <1>1
  <2> QED BY <2>4, <2>5, FS_Interval
<1>5. ~(Answers!Inode \subseteq used)
  <2>1. Answers!Inode \subseteq used => Cardinality(Answers!Inode) <= Cardinality(used)
    BY <1>3, FS_Subset
  <2> QED BY <1>1, <1>3, <1>4, <2>1
<1>6. PICK i \in Answers!Inode : i \notin used
  BY <1>5
<1>7. /\ \A n \in Answers!Name : i \notin {final[n], answersPart[n]}
      /\ \A t \in Thread : i # answersCalls[t].fd
  <2>1. i # 0
    BY NoInodeIsZero
  <2>2. i # answersPart[p] /\ i # answersPart[other] /\ i # final["kind"] /\ i # final["body"]
    BY <1>6, <2>1 DEF named
  <2> QED BY <1>6, <2>2 DEF fds, Answers!Name
<1>8. /\ Answers!Free \in Answers!Inode
      /\ \A n \in Answers!Name : Answers!Free \notin {final[n], answersPart[n]}
      /\ \A t \in Thread : Answers!Free # answersCalls[t].fd
  BY <1>7, Zenon DEF Answers!Free
<1> QED BY <1>8 DEF Answers!Name

LEMMA AnswersStart ==
  ASSUME Answers!Init
  PROVE  AnswersInv
  BY NoInodeIsZero DEF Answers!Init, AnswersInv, AnswersTyped, AnswerRecord, CallsFollow, KindIsThere, PartsApart,
     OneStores, ReadsWhole, Answers!NoData, Answers!Idle, Answers!Name

\* A request moves that stores nothing: it may be a reader.
LEMMA ReaderMoves ==
  ASSUME AnswersInv, NEW t \in Thread, NEW c \in AnswerRecord, Answers!Goes(t, c),
         answersCalls[t].at \in {"idle", "kind", "ask"},
         c.at \in {"idle", "ask", "open", "kind"},
         c.at = "open" => c.fd = 0 /\ c.name = "kind",
         c.at = "kind" => c.fd = final["body"] /\ final["body"] # 0,
         UNCHANGED <<final, answersPart, data, together>>,
         served' = served \/ (answersCalls[t].at = "kind" /\ served' = data[answersCalls[t].fd])
  PROVE  AnswersInv'
<1>1. answersCalls' = [answersCalls EXCEPT ![t] = c]
  BY DEF Answers!Goes
<1>2. answersCalls'[t] = c /\ \A u \in Thread : u # t => answersCalls'[u] = answersCalls[u]
  BY <1>1 DEF AnswersInv, AnswersTyped
<1>3. AnswersTyped'
  BY <1>1 DEF AnswersInv, AnswersTyped
<1>4. CallsFollow' /\ KindIsThere'
  BY <1>2 DEF AnswersInv, CallsFollow, KindIsThere
<1>5. ASSUME ~together
      PROVE  (PartsApart /\ OneStores /\ ReadsWhole)'
  <2>1. PartsApart /\ OneStores /\ ReadsWhole
    BY <1>5 DEF AnswersInv
  <2>2. PartsApart'
    BY <1>2, <2>1 DEF PartsApart
  <2>3. OneStores'
    BY <1>2, <2>1 DEF OneStores
  <2>4. ReadsWhole'
    BY <1>2, <2>1 DEF ReadsWhole
  <2> QED BY <2>2, <2>3, <2>4
<1> QED BY <1>3, <1>4, <1>5 DEF AnswersInv

LEMMA ReadStep ==
  ASSUME AnswersInv, NEW t \in Thread, Answers!ReadBody(t) \/ Answers!ReadKind(t) \/ Answers!Ask(t)
  PROVE  AnswersInv'
<1> DEFINE ask == [Answers!Idle EXCEPT !.at = "ask"]
           kind == [Answers!Idle EXCEPT !.at = "kind", !.fd = final["body"]]
           begin(v) == [Answers!Idle EXCEPT !.at = "open", !.of = v]
<1>1. final["body"] \in Answers!Inode \cup {0}
  BY DEF AnswersInv, AnswersTyped
<1>2. ask \in AnswerRecord /\ ask.at = "ask" /\ Answers!Idle \in AnswerRecord /\ Answers!Idle.at = "idle"
  BY DEF Answers!Idle, AnswerRecord
<1>3. kind \in AnswerRecord /\ kind.at = "kind" /\ kind.fd = final["body"]
  BY <1>1 DEF Answers!Idle, AnswerRecord
<1>4. \A v \in ProxyAnswer : begin(v) \in AnswerRecord /\ begin(v).at = "open" /\ begin(v).fd = 0 /\ begin(v).name = "kind"
  BY DEF Answers!Idle, AnswerRecord
<1>5. CASE Answers!ReadBody(t)
  <2>1. /\ answersCalls[t].at = "idle" /\ UNCHANGED <<final, answersPart, data, together, served>>
        /\ \/ Answers!Goes(t, ask)
           \/ final["body"] # 0 /\ Answers!Goes(t, kind)
    BY <1>5 DEF Answers!ReadBody
  <2> HIDE DEF ask, kind
  <2> QED BY <1>2, <1>3, <2>1, ReaderMoves
<1>6. CASE Answers!ReadKind(t)
  <2>1. /\ answersCalls[t].at = "kind" /\ UNCHANGED <<final, answersPart, data, together>>
        /\ \/ Answers!Goes(t, ask) /\ UNCHANGED served
           \/ Answers!Goes(t, Answers!Idle) /\ served' = data[answersCalls[t].fd]
    BY <1>6 DEF Answers!ReadKind
  <2> HIDE DEF ask, kind
  <2> QED BY <1>2, <2>1, ReaderMoves
<1>7. CASE Answers!Ask(t)
  <2>1. /\ answersCalls[t].at = "ask" /\ UNCHANGED <<final, answersPart, data, together, served>>
        /\ \/ Answers!Goes(t, Answers!Idle)
           \/ \E v \in ProxyAnswer : Answers!Goes(t, begin(v))
    BY <1>7 DEF Answers!Ask
  <2> HIDE DEF begin
  <2> QED BY <1>2, <1>4, <2>1, ReaderMoves
<1> QED BY <1>5, <1>6, <1>7

LEMMA OpenStep ==
  ASSUME ThreadAssumption, AnswersInv, NEW t \in Thread, Answers!Open(t)
  PROVE  AnswersInv'
<1> DEFINE c == answersCalls[t]
           i == IF answersPart[c.name] = 0 THEN Answers!Free ELSE answersPart[c.name]
           opened == [c EXCEPT !.at = "fill", !.fd = i]
<1>1. /\ c.at = "open" /\ answersPart' = [answersPart EXCEPT ![c.name] = i]
      /\ data' = [data EXCEPT ![i] = Answers!NoData]
      /\ answersCalls' = [answersCalls EXCEPT ![t] = opened]
      /\ together' = (together \/ \E u \in Thread \ {t} : Answers!Storing(u))
      /\ UNCHANGED <<final, served>>
  BY DEF Answers!Open, Answers!Goes
<1>2. c \in AnswerRecord /\ c.name \in {"kind", "body"}
  BY DEF AnswersInv, AnswersTyped, AnswerRecord
<1>3. /\ i \in Answers!Inode
      /\ answersPart[c.name] = 0 => /\ \A n \in {"kind", "body"} : i # final[n] /\ i # answersPart[n]
                                    /\ \A u \in Thread : i # answersCalls[u].fd
  BY <1>2, FreeIsFree DEF AnswersInv, AnswersTyped
<1>4. i # 0
  BY <1>3, NoInodeIsZero
<1>5. opened \in AnswerRecord /\ opened.at = "fill" /\ opened.fd = i /\ opened.name = c.name
  BY <1>2, <1>3 DEF AnswerRecord
<1>6. answersCalls'[t] = opened /\ \A u \in Thread : u # t => answersCalls'[u] = answersCalls[u]
  BY <1>1 DEF AnswersInv, AnswersTyped
<1>7. /\ answersPart'[c.name] = i
      /\ \A n \in {"kind", "body"} : n # c.name => answersPart'[n] = answersPart[n]
      /\ \A j \in Answers!Inode : j # i => data'[j] = data[j]
  BY <1>1, <1>2, <1>3 DEF AnswersInv, AnswersTyped
<1>8. AnswersTyped'
  <2>1. Answers!NoData \in [of : ProxyAnswer \cup {NoPayload}, whole : BOOLEAN]
    BY DEF Answers!NoData
  <2>2. answersCalls' \in [Thread -> AnswerRecord]
    BY <1>1, <1>5 DEF AnswersInv, AnswersTyped
  <2>3. answersPart' \in [{"kind", "body"} -> Answers!Inode \cup {0}]
    BY <1>1, <1>3 DEF AnswersInv, AnswersTyped
  <2>4. data' \in [Answers!Inode -> [of : ProxyAnswer \cup {NoPayload}, whole : BOOLEAN]]
    BY <1>1, <1>3, <2>1 DEF AnswersInv, AnswersTyped
  <2>5. together' \in BOOLEAN /\ final' \in [{"kind", "body"} -> Answers!Inode \cup {0}]
    BY <1>1 DEF AnswersInv, AnswersTyped
  <2> QED BY <2>2, <2>3, <2>4, <2>5 DEF AnswersTyped
<1> HIDE DEF opened
<1>9. CallsFollow' /\ KindIsThere'
  <2>1. final' = final /\ (c.name = "body" => final["kind"] # 0)
    BY <1>1 DEF AnswersInv, CallsFollow
  <2> QED BY <1>5, <1>6, <2>1 DEF AnswersInv, CallsFollow, KindIsThere
<1>10. ASSUME ~together'
       PROVE  (PartsApart /\ OneStores /\ ReadsWhole)'
  <2>1. /\ ~together /\ PartsApart /\ OneStores /\ ReadsWhole
        /\ \A u \in Thread : u # t => answersCalls[u].at \notin {"open", "fill", "replace"}
    BY <1>1, <1>10 DEF AnswersInv, Answers!Storing
  <2> HIDE DEF i, c
  <2>2. /\ \A n \in {"kind", "body"} : i # final[n]
        /\ \A n \in {"kind", "body"} : n # c.name => i # answersPart[n]
        /\ \A u \in Thread : answersCalls[u].at = "kind" => i # answersCalls[u].fd
    <3>1. CASE answersPart[c.name] = 0
      BY <3>1, <1>3
    <3>2. CASE answersPart[c.name] # 0
      <4>1. i = answersPart[c.name]
        BY <3>2 DEF i
      <4> QED BY <4>1, <3>2, <2>1, <1>2 DEF PartsApart
    <3> QED BY <3>1, <3>2
  <2>3. final' = final /\ served' = served
    BY <1>1
  <2>4. PartsApart'
    <3>1. answersPart'["kind"] # 0 => answersPart'["kind"] # answersPart'["body"]
      BY <1>2, <1>4, <1>7, <2>1, <2>2 DEF PartsApart
    <3>2. \A n, m \in {"kind", "body"} : answersPart'[m] # 0 => answersPart'[m] # final[n]
      BY <1>2, <1>4, <1>7, <2>1, <2>2 DEF PartsApart
    <3>3. \A u \in Thread : \A m \in {"kind", "body"} :
            answersCalls'[u].at = "kind" /\ answersPart'[m] # 0 => answersPart'[m] # answersCalls'[u].fd
      <4> SUFFICES ASSUME NEW u \in Thread, NEW m \in {"kind", "body"},
                          answersCalls'[u].at = "kind", answersPart'[m] # 0
                   PROVE  answersPart'[m] # answersCalls'[u].fd
        OBVIOUS
      <4>1. u # t /\ answersCalls'[u] = answersCalls[u]
        BY <1>5, <1>6
      <4> QED BY <4>1, <1>7, <2>1, <2>2 DEF PartsApart
    <3> QED BY <3>1, <3>2, <3>3, <2>3 DEF PartsApart
  <2>5. OneStores'
    BY <1>6, <2>1 DEF OneStores
  <2>6. ReadsWhole'
    <3>1. \A n \in {"kind", "body"} : final[n] # 0 => data'[final[n]].whole
      <4> SUFFICES ASSUME NEW n \in {"kind", "body"}, final[n] # 0
                   PROVE  data'[final[n]].whole
        OBVIOUS
      <4>1. final[n] \in Answers!Inode /\ data[final[n]].whole
        BY <2>1 DEF AnswersInv, AnswersTyped, ReadsWhole
      <4> QED BY <4>1, <1>7, <2>2
    <3>2. \A u \in Thread : answersCalls'[u].at = "kind" => data'[answersCalls'[u].fd].whole
      <4> SUFFICES ASSUME NEW u \in Thread, answersCalls'[u].at = "kind"
                   PROVE  data'[answersCalls'[u].fd].whole
        OBVIOUS
      <4>1. answersCalls'[u] = answersCalls[u]
        BY <1>5, <1>6
      <4>2. answersCalls[u].fd \in Answers!Inode /\ data[answersCalls[u].fd].whole
        BY <4>1, <2>1 DEF AnswersInv, AnswersTyped, AnswerRecord, CallsFollow, ReadsWhole
      <4> QED BY <4>1, <4>2, <1>7, <2>2
    <3>3. \A u \in Thread : /\ answersCalls'[u].at = "fill" => u = t
                            /\ answersCalls'[u].at # "replace"
      BY <1>5, <1>6, <2>1
    <3>4. answersCalls'[t].fd = i /\ answersPart'[answersCalls'[t].name] = i
      BY <1>5, <1>6, <1>7
    <3> QED BY <3>1, <3>2, <3>3, <3>4, <1>4, <2>1, <2>3 DEF ReadsWhole
  <2> QED BY <2>4, <2>5, <2>6
<1> QED BY <1>8, <1>9, <1>10 DEF AnswersInv

LEMMA FillStep ==
  ASSUME AnswersInv, NEW t \in Thread, Answers!Fill(t)
  PROVE  AnswersInv'
<1> DEFINE c == answersCalls[t]
           filled == [c EXCEPT !.at = "replace", !.fd = 0]
           new == [of |-> c.of, whole |-> TRUE]
<1>1. /\ c.at = "fill" /\ data' = [data EXCEPT ![c.fd] = new]
      /\ answersCalls' = [answersCalls EXCEPT ![t] = filled]
      /\ UNCHANGED <<final, answersPart, served, together>>
  BY DEF Answers!Fill, Answers!Goes
<1>2. c \in AnswerRecord /\ new \in [of : ProxyAnswer \cup {NoPayload}, whole : BOOLEAN] /\ new.whole
  BY DEF AnswersInv, AnswersTyped, AnswerRecord
<1>3. filled \in AnswerRecord /\ filled.at = "replace" /\ filled.fd = 0 /\ filled.name = c.name
  BY <1>2 DEF AnswerRecord
<1>4. answersCalls'[t] = filled /\ \A u \in Thread : u # t => answersCalls'[u] = answersCalls[u]
  BY <1>1 DEF AnswersInv, AnswersTyped
<1>5. data' \in [Answers!Inode -> [of : ProxyAnswer \cup {NoPayload}, whole : BOOLEAN]]
  BY <1>1, <1>2 DEF AnswersInv, AnswersTyped
<1>6. \A j \in Answers!Inode : data[j].whole => data'[j].whole
  BY <1>1, <1>2 DEF AnswersInv, AnswersTyped
<1>7. AnswersTyped'
  BY <1>1, <1>3, <1>5 DEF AnswersInv, AnswersTyped
<1> HIDE DEF filled, new
<1>8. CallsFollow' /\ KindIsThere'
  BY <1>1, <1>3, <1>4 DEF AnswersInv, CallsFollow, KindIsThere
<1>9. ASSUME ~together
      PROVE  (PartsApart /\ OneStores /\ ReadsWhole)'
  <2>1. PartsApart /\ OneStores /\ ReadsWhole
    BY <1>9 DEF AnswersInv
  <2>2. c.fd \in Answers!Inode /\ answersPart[c.name] = c.fd /\ c.fd # 0
    BY <1>1, <1>2, <2>1 DEF ReadsWhole, AnswerRecord
  <2>3. data'[c.fd].whole
    BY <1>1, <1>2, <2>2 DEF AnswersInv, AnswersTyped
  <2>4. PartsApart'
    BY <1>1, <1>3, <1>4, <2>1 DEF PartsApart
  <2>5. OneStores'
    BY <1>1, <1>4, <2>1 DEF OneStores
  <2>6. ReadsWhole'
    <3>1. \A n \in {"kind", "body"} : final[n] # 0 => data'[final[n]].whole
      BY <1>6, <2>1 DEF AnswersInv, AnswersTyped, ReadsWhole
    <3>2. \A u \in Thread : answersCalls'[u].at = "kind" => data'[answersCalls'[u].fd].whole
      <4> SUFFICES ASSUME NEW u \in Thread, answersCalls'[u].at = "kind"
                   PROVE  data'[answersCalls'[u].fd].whole
        OBVIOUS
      <4>1. answersCalls'[u] = answersCalls[u]
        BY <1>3, <1>4
      <4>2. answersCalls[u].fd \in Answers!Inode /\ data[answersCalls[u].fd].whole
        BY <4>1, <2>1 DEF AnswersInv, AnswersTyped, AnswerRecord, CallsFollow, ReadsWhole
      <4> QED BY <4>1, <4>2, <1>6
    <3>3. \A u \in Thread : /\ answersCalls'[u].at # "fill"
                            /\ answersCalls'[u].at = "replace" => u = t
      BY <1>1, <1>3, <1>4, <2>1 DEF OneStores
    <3>4. answersPart'[answersCalls'[t].name] = c.fd
      BY <1>1, <1>3, <1>4, <2>2
    <3> QED BY <3>1, <3>2, <3>3, <3>4, <1>1, <2>1, <2>2, <2>3 DEF ReadsWhole
  <2> QED BY <2>4, <2>5, <2>6
<1> QED BY <1>1, <1>7, <1>8, <1>9 DEF AnswersInv

LEMMA ReplaceAnswerStep ==
  ASSUME AnswersInv, NEW t \in Thread, Answers!Replace(t)
  PROVE  AnswersInv'
<1> DEFINE c == answersCalls[t]
           next == IF c.name = "kind" /\ answersPart[c.name] # 0
                   THEN [c EXCEPT !.at = "open", !.name = "body"] ELSE Answers!Idle
<1>1. /\ c.at = "replace" /\ c \in AnswerRecord /\ c.name \in {"kind", "body"} /\ c.fd = 0
      /\ UNCHANGED <<data, served, together>>
  BY DEF Answers!Replace, AnswersInv, AnswersTyped, AnswerRecord, CallsFollow
<1>2. /\ answersCalls' = [answersCalls EXCEPT ![t] = next]
      /\ \/ answersPart[c.name] = 0 /\ UNCHANGED <<final, answersPart>>
         \/ /\ answersPart[c.name] # 0
            /\ final' = [final EXCEPT ![c.name] = answersPart[c.name]]
            /\ answersPart' = [answersPart EXCEPT ![c.name] = 0]
  BY DEF Answers!Replace, Answers!Goes
<1>3. /\ next \in AnswerRecord /\ next.at \in {"idle", "open"} /\ next.fd = 0
      /\ next.at = "open" => c.name = "kind" /\ answersPart[c.name] # 0
  BY <1>1 DEF AnswerRecord, Answers!Idle
<1>4. answersCalls'[t] = next /\ \A u \in Thread : u # t => answersCalls'[u] = answersCalls[u]
  BY <1>2 DEF AnswersInv, AnswersTyped
<1> HIDE DEF next
<1>5. AnswersTyped'
  BY <1>1, <1>2, <1>3 DEF AnswersInv, AnswersTyped
<1>6. /\ \A n \in {"kind", "body"} : n # c.name => final'[n] = final[n] /\ answersPart'[n] = answersPart[n]
      /\ answersPart[c.name] # 0 => final'[c.name] = answersPart[c.name]
      /\ answersPart[c.name] = 0 => final'[c.name] = final[c.name]
      /\ answersPart'[c.name] = 0
  BY <1>1, <1>2 DEF AnswersInv, AnswersTyped
<1>7. final["kind"] # 0 => final'["kind"] # 0
  BY <1>1, <1>6
<1>8. c.name = "body" => final["kind"] # 0
  BY <1>1 DEF AnswersInv, CallsFollow
<1>9. KindIsThere'
  BY <1>1, <1>6, <1>7, <1>8 DEF AnswersInv, KindIsThere
<1>10. CallsFollow'
  BY <1>1, <1>3, <1>4, <1>6, <1>7 DEF AnswersInv, CallsFollow
<1>11. ASSUME ~together
       PROVE  (PartsApart /\ OneStores /\ ReadsWhole)'
  <2>1. PartsApart /\ OneStores /\ ReadsWhole
    BY <1>11 DEF AnswersInv
  <2>2. answersPart[c.name] # 0 /\ data[answersPart[c.name]].whole
    BY <1>1, <2>1 DEF ReadsWhole
  <2>3. \A u \in Thread : answersCalls'[u].at \notin {"fill", "replace"}
    BY <1>1, <1>3, <1>4, <2>1 DEF OneStores
  <2> HIDE DEF c
  <2>4. PartsApart'
    <3>1. answersPart'["kind"] # 0 => answersPart'["kind"] # answersPart'["body"]
      BY <1>1, <1>6
    <3>2. \A n, m \in {"kind", "body"} : answersPart'[m] # 0 => answersPart'[m] # final'[n]
      BY <1>1, <1>6, <2>1, <2>2 DEF PartsApart
    <3>3. \A u \in Thread : \A m \in {"kind", "body"} :
            answersCalls'[u].at = "kind" /\ answersPart'[m] # 0 => answersPart'[m] # answersCalls'[u].fd
      BY <1>1, <1>3, <1>4, <1>6, <2>1 DEF PartsApart
    <3> QED BY <3>1, <3>2, <3>3 DEF PartsApart
  <2>5. ReadsWhole'
    <3>1. \A n \in {"kind", "body"} : final'[n] # 0 => data[final'[n]].whole
      BY <1>1, <1>6, <2>1, <2>2 DEF ReadsWhole
    <3>2. \A u \in Thread : answersCalls'[u].at = "kind" => data[answersCalls'[u].fd].whole
      BY <1>3, <1>4, <2>1 DEF ReadsWhole
    <3> QED BY <3>1, <3>2, <2>3, <1>1, <2>1 DEF ReadsWhole
  <2> QED BY <2>3, <2>4, <2>5 DEF OneStores
<1> QED BY <1>1, <1>5, <1>9, <1>10, <1>11 DEF AnswersInv

LEMMA AnswersNext ==
  ASSUME ThreadAssumption, AnswersInv, Answers!Next
  PROVE  AnswersInv'
<1>1. ASSUME Answers!Restart
      PROVE  AnswersInv'
  <2>1. answersCalls' = [t \in Thread |-> Answers!Idle] /\ UNCHANGED <<final, answersPart, data, served, together>>
    BY <1>1 DEF Answers!Restart
  <2>2. Answers!Idle \in AnswerRecord /\ Answers!Idle.at = "idle"
    BY DEF Answers!Idle, AnswerRecord
  <2>3. AnswersTyped' /\ CallsFollow' /\ KindIsThere'
    BY <2>1, <2>2 DEF AnswersInv, AnswersTyped, CallsFollow, KindIsThere
  <2>4. ~together => (PartsApart /\ OneStores /\ ReadsWhole)'
    BY <2>1, <2>2 DEF AnswersInv, PartsApart, OneStores, ReadsWhole
  <2> QED BY <2>1, <2>3, <2>4 DEF AnswersInv
<1> QED BY <1>1, ReadStep, OpenStep, FillStep, ReplaceAnswerStep DEF Answers!Next

LEMMA AnswersPromise == AnswersInv => Answers!CacheIsWhole
  BY DEF AnswersInv, KindIsThere, ReadsWhole, Answers!CacheIsWhole, Answers!Name

(***************************************************************************)
(* What appending to a sequence and dropping from its front come to.       *)
(***************************************************************************)

LEMMA Appended ==
  ASSUME NEW S, NEW s \in Seq(S), NEW e \in S, NEW t, t = Append(s, e)
  PROVE  /\ t \in Seq(S) /\ Len(t) = Len(s) + 1 /\ t[Len(s) + 1] = e
         /\ \A i \in 1..Len(s) : t[i] = s[i]
  BY AppendProperties, Zenon

LEMMA Dropped ==
  ASSUME NEW S, NEW s \in Seq(S), NEW k \in 0..Len(s), NEW t, t = SubSeq(s, k + 1, Len(s))
  PROVE  /\ t \in Seq(S) /\ Len(t) = Len(s) - k
         /\ \A i \in 1..(Len(s) - k) : t[i] = s[k + i]
<1>1. Len(s) \in Nat /\ k \in Nat /\ k <= Len(s)
  OBVIOUS
<1> DEFINE m == k + 1
<1>2. m \in Int /\ 1 <= m /\ m <= Len(s) + 1
  BY <1>1
<1>3. \A i \in m..Len(s) : s[i] \in S
  BY <1>1, <1>2
<1> HIDE DEF m
<1>4. /\ SubSeq(s, m, Len(s)) \in Seq(S)
      /\ Len(SubSeq(s, m, Len(s))) = IF m <= Len(s) THEN Len(s) - m + 1 ELSE 0
      /\ \A i \in 1..(Len(s) - m + 1) : SubSeq(s, m, Len(s))[i] = s[m + i - 1]
  BY <1>1, <1>2, <1>3, SubSeqProperties
<1>5. t = SubSeq(s, m, Len(s))
  BY DEF m
<1>6. Len(t) = Len(s) - k
  BY <1>1, <1>2, <1>4, <1>5 DEF m
<1>7. ASSUME NEW i \in 1..(Len(s) - k)
      PROVE  t[i] = s[k + i]
  <2>1. i \in 1..(Len(s) - m + 1) /\ m + i - 1 = k + i
    BY <1>1 DEF m
  <2> QED BY <1>4, <1>5, <2>1
<1> QED BY <1>4, <1>5, <1>6, <1>7

(***************************************************************************)
(* The connections.  What is on the wire is whole requests, but for the    *)
(* body of the one in hand and what the client has still to send; so where *)
(* the service has read a request out, or closes, the next is a request's. *)
(***************************************************************************)

Heads == [kind : {"head"}, r : HttpRequest, n : Nat, got : Nat]
Units == Heads \cup {[kind |-> "body"]}
WireAnswers == [to : Nat, r : HttpRequest, code : Nat, body : BOOLEAN]
Stage == {"parse", "route", "auth", "body", "dispatch"}

ConnectionTyped ==
  /\ wire \in Seq(Units)
  /\ client \in [sent : Nat, owes : Nat, gone : BOOLEAN]
  /\ open \in BOOLEAN /\ connectionAt \in Stage
  /\ connectionAt # "parse" => req \in Heads
  /\ answers \in Seq(WireAnswers)

\* How much is sent after a head.
Body(r) == IF r.length = Unreadable THEN 1 ELSE r.length

\* How much of the body of the request in hand is still to be read.
Due == IF \/ connectionAt \in {"route", "auth", "body"}
          \/ connectionAt = "dispatch" /\ Connection!streamed(req.r)
       THEN Body(req.r) ELSE 0

InHand == IF connectionAt = "parse" THEN Len(answers) ELSE Len(answers) + 1

\* Between the i-th unit of w and the e-th is a body, and then the next request; what
\* is missing of it is what the client c owes.
Covers(w, i, e, c) ==
  /\ \A j \in 1..Len(w) : i < j /\ j <= e => w[j].kind = "body"
  /\ e < Len(w) => w[e + 1].kind = "head" /\ w[e + 1].n = w[i].n + 1
  /\ e >= Len(w) => c.sent = w[i].n /\ c.owes = e - Len(w)

\* w is p units of the n-th request's body, and then the requests after it.
Framed(w, p, n, c) ==
  /\ \A j \in 1..Len(w) : j <= p => w[j].kind = "body"
  /\ Len(w) > p => w[p + 1].kind = "head" /\ w[p + 1].n = n + 1
  /\ Len(w) <= p => c.sent = n /\ (c.gone \/ c.owes = p - Len(w))
  /\ \A i \in 1..Len(w) : w[i].kind = "head" => Covers(w, i, i + Body(w[i].r), c)

\* Whose request goes past the open pages with nothing to be known by.
Stranger(r) == /\ r.who = "nobody" /\ r.verb # "OPTIONS"
               /\ ~Connection!refused(r) /\ ~Connection!pre_auth(r) /\ ~Connection!play_page(r)

\* What has been answered so far.
AnswersSound ==
  \A i \in 1..Len(answers) :
    /\ answers[i].to = i /\ (answers[i].r.verb = "HEAD" => ~answers[i].body)
    /\ Stranger(answers[i].r) => answers[i].code = 401

ConnectionInv ==
  /\ ConnectionTyped /\ AnswersSound
  /\ open => /\ Framed(wire, Due, InHand, client)
             /\ connectionAt # "parse" => req.n = InHand
             /\ connectionAt \in {"body", "dispatch"} => req.r.who # "nobody"
             /\ connectionAt = "body" => ~Connection!streamed(req.r)

LEMMA BodyType ==
  ASSUME ConnectionAssumption, NEW r \in HttpRequest
  PROVE  Body(r) \in Nat
  BY DEF ConnectionAssumption, Body

LEMMA UnitKinds ==
  ASSUME NEW u \in Units
  PROVE  /\ u.kind = "head" => u \in Heads /\ u.n \in Nat /\ u.r \in HttpRequest
         /\ u.kind \in {"head", "body"}
  BY DEF Units, Heads

LEMMA ConnectionStarts ==
  ASSUME Connection!Init
  PROVE  ConnectionInv
<1>1. /\ wire = <<>> /\ answers = <<>> /\ client = [sent |-> 0, owes |-> 0, gone |-> FALSE]
      /\ connectionAt = "parse" /\ open = TRUE
  BY DEF Connection!Init
<1>2. wire \in Seq(Units) /\ Len(wire) = 0 /\ answers \in Seq(WireAnswers) /\ Len(answers) = 0
  BY <1>1
<1>3. ConnectionTyped
  BY <1>1, <1>2 DEF ConnectionTyped, Stage
<1>4. AnswersSound
  BY <1>2 DEF AnswersSound
<1>5. Due = 0 /\ InHand = 0
  BY <1>1, <1>2 DEF Due, InHand
<1>6. Framed(wire, 0, 0, client)
  <2>1. client.sent = 0 /\ client.owes = 0 /\ 1..Len(wire) = {}
    BY <1>1, <1>2
  <2> QED BY <1>2, <2>1 DEF Framed
<1> QED BY <1>1, <1>3, <1>4, <1>5, <1>6 DEF ConnectionInv

-----------------------------------------------------------------------------
(* The wire: what is sent, and what is read of it *)

\* What a unit sent does to a body before it: a head comes when all of it is there.
LEMMA CoversAppended ==
  ASSUME NEW w \in Seq(Units), NEW i \in 1..Len(w), NEW e \in Nat, i <= e,
         NEW c, c.owes \in Nat, Covers(w, i, e, c),
         NEW u \in Units, NEW v, v \in Seq(Units), Len(v) = Len(w) + 1, v[Len(w) + 1] = u,
         \A j \in 1..Len(w) : v[j] = w[j],
         NEW d, c.owes = 0 => u.kind = "head" /\ u.n = c.sent + 1,
         c.owes # 0 => u.kind = "body" /\ d.sent = c.sent /\ d.owes = c.owes - 1
  PROVE  Covers(v, i, e, d)
<1>1. Len(w) \in Nat /\ Len(v) \in Nat /\ i \in Nat
  OBVIOUS
<1>2. CASE c.owes = 0
  <2>1. e <= Len(w)
    BY <1>1, <1>2 DEF Covers
  <2>2. \A j \in 1..Len(v) : i < j /\ j <= e => v[j].kind = "body"
    BY <1>1, <2>1 DEF Covers
  <2>3. CASE e < Len(w)
    <3>1. e + 1 \in 1..Len(w)
      BY <1>1, <2>3
    <3> QED BY <1>1, <2>2, <2>3, <3>1 DEF Covers
  <2>4. CASE e = Len(w)
    <3>1. w[i].n = c.sent
      BY <1>1, <2>4 DEF Covers
    <3>2. v[e + 1].kind = "head" /\ v[e + 1].n = v[i].n + 1
      BY <1>2, <2>4, <3>1
    <3> QED BY <1>1, <2>2, <2>4, <3>2 DEF Covers
  <2> QED BY <1>1, <2>1, <2>3, <2>4
<1>3. CASE c.owes # 0
  <2>1. \A j \in 1..Len(v) : i < j /\ j <= e => v[j].kind = "body"
    <3> SUFFICES ASSUME NEW j \in 1..Len(v), i < j, j <= e PROVE v[j].kind = "body"
      OBVIOUS
    <3>1. CASE j = Len(w) + 1
      BY <1>3, <3>1
    <3>2. CASE j # Len(w) + 1
      <4>1. j \in 1..Len(w) /\ v[j] = w[j]
        BY <1>1, <3>2
      <4> QED BY <4>1 DEF Covers
    <3> QED BY <3>1, <3>2
  <2>2. e # Len(w)
    BY <1>1, <1>3 DEF Covers
  <2>3. CASE e < Len(w)
    <3>1. e + 1 \in 1..Len(w)
      BY <1>1, <2>3
    <3> QED BY <1>1, <2>1, <2>3, <3>1 DEF Covers
  <2>4. CASE e > Len(w)
    <3>1. c.sent = w[i].n /\ c.owes = e - Len(w)
      BY <1>1, <2>4 DEF Covers
    <3>2. d.sent = v[i].n /\ d.owes = e - Len(v) /\ ~(e < Len(v))
      BY <1>1, <1>3, <2>4, <3>1
    <3> QED BY <2>1, <3>2 DEF Covers
  <2> QED BY <1>1, <2>2, <2>3, <2>4
<1> QED BY <1>2, <1>3

LEMMA HeadAppended ==
  ASSUME ConnectionAssumption, NEW w \in Seq(Units), NEW p \in Nat, NEW n \in Nat,
         NEW c \in [sent : Nat, owes : Nat, gone : BOOLEAN], Framed(w, p, n, c), ~c.gone, c.owes = 0,
         NEW h \in Heads, h.n = c.sent + 1, NEW v, v = Append(w, h),
         NEW d, d.sent = c.sent + 1, d.owes = Body(h.r), ~d.gone
  PROVE  v \in Seq(Units) /\ Framed(v, p, n, d)
<1>1. h \in Units /\ h.kind = "head" /\ h.r \in HttpRequest /\ Body(h.r) \in Nat
  BY BodyType DEF Units, Heads
<1>2. /\ v \in Seq(Units) /\ Len(v) = Len(w) + 1 /\ v[Len(w) + 1] = h /\ Len(w) \in Nat
      /\ \A i \in 1..Len(w) : v[i] = w[i]
  BY <1>1, Appended
<1>3. c.sent \in Nat
  OBVIOUS
\* The body before it is all there.
<1>4. Len(w) <= p => c.sent = n /\ Len(w) = p
  BY <1>2 DEF Framed
<1>5. \A j \in 1..Len(v) : j <= p => v[j].kind = "body"
  <2> SUFFICES ASSUME NEW j \in 1..Len(v), j <= p PROVE v[j].kind = "body"
    OBVIOUS
  <2>1. j \in 1..Len(w)
    BY <1>2, <1>4
  <2> QED BY <2>1, <1>2 DEF Framed
<1>6. Len(v) > p /\ v[p + 1].kind = "head" /\ v[p + 1].n = n + 1
  <2>1. CASE Len(w) <= p
    BY <2>1, <1>1, <1>2, <1>4
  <2>2. CASE Len(w) > p
    <3>1. p + 1 \in 1..Len(w)
      BY <2>2, <1>2
    <3> QED BY <2>2, <3>1, <1>2 DEF Framed
  <2> QED BY <2>1, <2>2, <1>2
<1>7. ASSUME NEW i \in 1..Len(v), v[i].kind = "head"
      PROVE  Covers(v, i, i + Body(v[i].r), d)
  <2>1. CASE i = Len(w) + 1
    <3>1. v[i] = h /\ i = Len(v) /\ i \in Nat
      BY <2>1, <1>2, <1>7
    <3>2. Covers(v, i, i + Body(h.r), d)
      BY <3>1, <1>1, <1>2, <1>3 DEF Covers
    <3> QED BY <3>1, <3>2
  <2>2. CASE i # Len(w) + 1
    <3>1. i \in 1..Len(w) /\ v[i] = w[i]
      BY <2>2, <1>2
    <3>2. w[i].r \in HttpRequest /\ Body(w[i].r) \in Nat /\ w[i].kind = "head"
      BY <3>1, <1>7, UnitKinds, BodyType
    <3>3. Covers(w, i, i + Body(w[i].r), c)
      BY <3>1, <3>2 DEF Framed
    <3>4. i + Body(w[i].r) \in Nat /\ i <= i + Body(w[i].r) /\ c.owes \in Nat
      BY <3>1, <3>2
    <3> DEFINE e == i + Body(w[i].r)
    <3>5. e \in Nat /\ i <= e /\ Covers(w, i, e, c)
      BY <3>3, <3>4
    <3> HIDE DEF e
    <3>6. /\ c.owes = 0 => h.kind = "head" /\ h.n = c.sent + 1
          /\ c.owes # 0 => h.kind = "body" /\ d.sent = c.sent /\ d.owes = c.owes - 1
      BY <1>1
    <3>7. Covers(v, i, e, d)
      BY <3>1, <3>4, <3>5, <3>6, <1>1, <1>2, CoversAppended, Zenon
    <3> QED BY <3>1, <3>7 DEF e
  <2> QED BY <2>1, <2>2
<1>8. ~(Len(v) <= p)
  BY <1>2, <1>6
<1> QED BY <1>2, <1>5, <1>6, <1>7, <1>8 DEF Framed

LEMMA BodyAppended ==
  ASSUME ConnectionAssumption, NEW w \in Seq(Units), NEW p \in Nat, NEW n \in Nat,
         NEW c \in [sent : Nat, owes : Nat, gone : BOOLEAN], Framed(w, p, n, c), ~c.gone, c.owes > 0,
         NEW u, u = [kind |-> "body"], NEW v, v = Append(w, u),
         NEW d, d.sent = c.sent, d.owes = c.owes - 1, ~d.gone
  PROVE  v \in Seq(Units) /\ Framed(v, p, n, d)
<1>1. u \in Units /\ u.kind = "body"
  BY DEF Units
<1>2. /\ v \in Seq(Units) /\ Len(v) = Len(w) + 1 /\ v[Len(w) + 1] = u /\ Len(w) \in Nat
      /\ \A i \in 1..Len(w) : v[i] = w[i]
  BY <1>1, Appended
<1>3. c.sent \in Nat /\ c.owes \in Nat /\ c.owes # 0
  OBVIOUS
<1>4. Len(w) <= p => c.sent = n /\ c.owes = p - Len(w)
  BY DEF Framed
<1>5. \A j \in 1..Len(v) : j <= p => v[j].kind = "body"
  BY <1>1, <1>2 DEF Framed
<1>6. Len(v) > p => v[p + 1].kind = "head" /\ v[p + 1].n = n + 1
  <2> SUFFICES ASSUME Len(v) > p PROVE v[p + 1].kind = "head" /\ v[p + 1].n = n + 1
    OBVIOUS
  <2>1. Len(w) > p
    BY <1>2, <1>3, <1>4
  <2>2. p + 1 \in 1..Len(w)
    BY <2>1, <1>2
  <2> QED BY <2>1, <2>2, <1>2 DEF Framed
<1>7. Len(v) <= p => d.sent = n /\ d.owes = p - Len(v)
  BY <1>2, <1>3, <1>4
<1>8. ASSUME NEW i \in 1..Len(v), v[i].kind = "head"
      PROVE  Covers(v, i, i + Body(v[i].r), d)
  <2>1. i \in 1..Len(w) /\ v[i] = w[i]
    BY <1>1, <1>2, <1>8
  <2>2. w[i].r \in HttpRequest /\ Body(w[i].r) \in Nat /\ w[i].kind = "head"
    BY <2>1, <1>8, UnitKinds, BodyType
  <2>3. Covers(w, i, i + Body(w[i].r), c)
    BY <2>1, <2>2 DEF Framed
  <2>4. i + Body(w[i].r) \in Nat /\ i <= i + Body(w[i].r)
    BY <2>1, <2>2
  <2> DEFINE e == i + Body(w[i].r)
  <2>5. e \in Nat /\ i <= e /\ Covers(w, i, e, c)
    BY <2>3, <2>4
  <2> HIDE DEF e
  <2>6. c.owes # 0 => u.kind = "body" /\ d.sent = c.sent /\ d.owes = c.owes - 1
    BY <1>1
  <2>7. Covers(v, i, e, d)
    BY <2>1, <2>5, <2>6, <1>1, <1>2, <1>3, CoversAppended, Zenon
  <2> QED BY <2>1, <2>7 DEF e
<1> QED BY <1>2, <1>5, <1>6, <1>7, <1>8 DEF Framed

\* What is read leaves the rest as it is.
LEMMA CoversDropped ==
  ASSUME NEW w \in Seq(Units), NEW k \in 0..Len(w), NEW v, v \in Seq(Units), Len(v) = Len(w) - k,
         \A j \in 1..Len(v) : v[j] = w[k + j],
         NEW i \in 1..Len(v), NEW e \in Nat, i <= e, NEW c, Covers(w, k + i, k + e, c)
  PROVE  Covers(v, i, e, c)
<1>1. Len(w) \in Nat /\ Len(v) \in Nat /\ i \in Nat /\ k \in Nat /\ v[i] = w[k + i]
  OBVIOUS
<1>2. ASSUME NEW j \in 1..Len(v), i < j, j <= e
      PROVE  v[j].kind = "body"
  <2>1. k + j \in 1..Len(w) /\ k + i < k + j /\ k + j <= k + e
    BY <1>1, <1>2
  <2> QED BY <2>1 DEF Covers
<1>3. ASSUME e < Len(v)
      PROVE  v[e + 1].kind = "head" /\ v[e + 1].n = v[i].n + 1
  <2>1. e + 1 \in 1..Len(v) /\ k + e < Len(w) /\ k + (e + 1) = (k + e) + 1
    BY <1>1, <1>3
  <2>2. v[e + 1] = w[(k + e) + 1]
    BY <2>1
  <2> QED BY <2>1, <2>2, <1>1 DEF Covers
<1>4. ASSUME e >= Len(v)
      PROVE  c.sent = v[i].n /\ c.owes = e - Len(v)
  <2>1. k + e >= Len(w) /\ (k + e) - Len(w) = e - Len(v)
    BY <1>1, <1>4
  <2> QED BY <2>1, <1>1 DEF Covers
<1> QED BY <1>2, <1>3, <1>4 DEF Covers

\* The heads left after the first k units are covered as they were.
LEMMA HeadsDropped ==
  ASSUME ConnectionAssumption, NEW w \in Seq(Units), NEW p \in Nat, NEW n \in Nat, NEW c, Framed(w, p, n, c),
         NEW k \in 0..Len(w), NEW v, v \in Seq(Units), Len(v) = Len(w) - k,
         \A j \in 1..Len(v) : v[j] = w[k + j],
         NEW i \in 1..Len(v), v[i].kind = "head"
  PROVE  Covers(v, i, i + Body(v[i].r), c)
<1>1. k + i \in 1..Len(w) /\ w[k + i] = v[i] /\ i \in Nat /\ k \in Nat
  OBVIOUS
<1>2. v[i].r \in HttpRequest /\ Body(v[i].r) \in Nat
  BY UnitKinds, BodyType
<1> DEFINE b == Body(v[i].r)
<1>3. Covers(w, k + i, (k + i) + b, c)
  BY <1>1 DEF Framed
<1>4. b \in Nat
  BY <1>2
<1> HIDE DEF b
<1>5. (k + i) + b = k + (i + b) /\ i + b \in Nat /\ i <= i + b
  BY <1>1, <1>4
<1>6. Covers(w, k + i, k + (i + b), c)
  BY <1>3, <1>5
<1>7. Covers(v, i, i + b, c)
  BY <1>5, <1>6, CoversDropped
<1> QED BY <1>7 DEF b

\* Of a wire whose first unit is a request's the rest is that request's body.
LEMMA HeadRead ==
  ASSUME ConnectionAssumption, NEW w \in Seq(Units), NEW n \in Nat,
         NEW c \in [sent : Nat, owes : Nat, gone : BOOLEAN], Framed(w, 0, n, c), w # <<>>,
         NEW v, v = Tail(w)
  PROVE  /\ v \in Seq(Units) /\ Head(w) \in Heads /\ Head(w).n = n + 1
         /\ Framed(v, Body(Head(w).r), n + 1, c)
<1>1. /\ v \in Seq(Units) /\ Len(v) = Len(w) - 1 /\ Len(w) \in Nat /\ Len(w) >= 1
      /\ \A i \in 1..Len(v) : v[i] = w[i + 1]
  BY HeadTailProperties
<1>2. Head(w) = w[1] /\ 1 \in 1..Len(w)
  BY <1>1
<1>3. w[1].kind = "head" /\ w[1].n = n + 1
  BY <1>1 DEF Framed
<1>4. w[1] \in Heads /\ w[1].r \in HttpRequest
  BY <1>2, <1>3, UnitKinds
<1> DEFINE m == Body(w[1].r)
<1>5. m \in Nat
  BY <1>4, BodyType
<1>6. Covers(w, 1, 1 + m, c)
  BY <1>2, <1>3 DEF Framed
<1> HIDE DEF m
<1>7. \A j \in 1..Len(v) : j <= m => v[j].kind = "body"
  <2> SUFFICES ASSUME NEW j \in 1..Len(v), j <= m PROVE v[j].kind = "body"
    OBVIOUS
  <2>1. j + 1 \in 1..Len(w) /\ 1 < j + 1 /\ j + 1 <= 1 + m
    BY <1>1, <1>5
  <2> QED BY <2>1, <1>1, <1>6 DEF Covers
<1>8. Len(v) > m => v[m + 1].kind = "head" /\ v[m + 1].n = (n + 1) + 1
  <2> SUFFICES ASSUME Len(v) > m PROVE v[m + 1].kind = "head" /\ v[m + 1].n = (n + 1) + 1
    OBVIOUS
  <2>1. m + 1 \in 1..Len(v) /\ 1 + m < Len(w) /\ (m + 1) + 1 = (1 + m) + 1
    BY <1>1, <1>5
  <2>2. v[m + 1] = w[(1 + m) + 1]
    BY <2>1, <1>1
  <2> QED BY <2>1, <2>2, <1>3, <1>6 DEF Covers
<1>9. Len(v) <= m => c.sent = n + 1 /\ c.owes = m - Len(v)
  <2> SUFFICES ASSUME Len(v) <= m PROVE c.sent = n + 1 /\ c.owes = m - Len(v)
    OBVIOUS
  <2>1. 1 + m >= Len(w) /\ (1 + m) - Len(w) = m - Len(v)
    BY <1>1, <1>5
  <2> QED BY <2>1, <1>3, <1>6 DEF Covers
<1>10. 1 \in 0..Len(w) /\ \A j \in 1..Len(v) : v[j] = w[1 + j]
  BY <1>1
<1>11. ASSUME NEW i \in 1..Len(v), v[i].kind = "head"
       PROVE  Covers(v, i, i + Body(v[i].r), c)
  <2> DEFINE k == 1
             z == 0
  <2>1. /\ k \in 0..Len(w) /\ Len(v) = Len(w) - k /\ \A j \in 1..Len(v) : v[j] = w[k + j]
        /\ z \in Nat /\ Framed(w, z, n, c)
    BY <1>1, <1>10
  <2> HIDE DEF k, z
  <2>2. v \in Seq(Units) /\ v[i].kind = "head"
    BY <1>1, <1>11
  <2> QED BY <2>1, <2>2, HeadsDropped
<1>12. Framed(v, m, n + 1, c)
  BY <1>7, <1>8, <1>9, <1>11 DEF Framed
<1> QED BY <1>1, <1>2, <1>3, <1>4, <1>12 DEF m

\* What is read of a body leaves the next request; or nothing more will come.
LEMMA BodyRead ==
  ASSUME ConnectionAssumption, NEW w \in Seq(Units), NEW p \in Nat, NEW n \in Nat,
         NEW c \in [sent : Nat, owes : Nat, gone : BOOLEAN], Framed(w, p, n, c),
         NEW k \in Nat, (k = p /\ k <= Len(w)) \/ (k = Len(w) /\ k < p /\ c.gone),
         NEW v, v = SubSeq(w, k + 1, Len(w))
  PROVE  v \in Seq(Units) /\ Framed(v, 0, n, c)
<1>1. k \in 0..Len(w) /\ Len(w) \in Nat
  OBVIOUS
<1>2. v \in Seq(Units) /\ Len(v) = Len(w) - k /\ \A i \in 1..Len(v) : v[i] = w[k + i]
  <2>1. v \in Seq(Units) /\ Len(v) = Len(w) - k /\ \A i \in 1..(Len(w) - k) : v[i] = w[k + i]
    BY <1>1, Dropped
  <2> QED BY <2>1
<1>3. CASE k = Len(w) /\ k < p /\ c.gone
  <2>1. k = Len(w) /\ Len(v) = 0
    BY <1>1, <1>2, <1>3
  <2>2. Len(w) <= p /\ 1..Len(v) = {}
    BY <1>1, <1>3, <2>1
  <2>3. c.sent = n /\ c.gone
    BY <1>3, <2>2 DEF Framed
  <2> QED BY <1>2, <2>1, <2>2, <2>3 DEF Framed
<1>4. CASE k = p /\ k <= Len(w)
  <2>1. k = p
    BY <1>4
  <2>2. Len(v) > 0 => v[1].kind = "head" /\ v[1].n = n + 1
    <3> SUFFICES ASSUME Len(v) > 0 PROVE v[1].kind = "head" /\ v[1].n = n + 1
      OBVIOUS
    <3>1. 1 \in 1..Len(v) /\ Len(w) > p
      BY <1>1, <1>2, <2>1
    <3>2. v[1] = w[p + 1]
      BY <1>2, <2>1, <3>1
    <3> QED BY <3>1, <3>2 DEF Framed
  <2>3. Len(v) <= 0 => c.sent = n /\ (c.gone \/ c.owes = 0 - Len(v))
    <3> SUFFICES ASSUME Len(v) <= 0 PROVE c.sent = n /\ (c.gone \/ c.owes = 0 - Len(v))
      OBVIOUS
    <3>1. Len(w) = p /\ Len(v) = 0
      BY <1>1, <1>2, <2>1
    <3> QED BY <3>1 DEF Framed
  <2>4. ASSUME NEW i \in 1..Len(v), v[i].kind = "head"
        PROVE  Covers(v, i, i + Body(v[i].r), c)
    BY <1>1, <1>2, <2>4, HeadsDropped
  <2>5. \A j \in 1..Len(v) : j <= 0 => v[j].kind = "body"
    BY <1>1, <1>2
  <2> QED BY <1>2, <2>2, <2>3, <2>4, <2>5 DEF Framed
<1> QED BY <1>3, <1>4

-----------------------------------------------------------------------------
(* The handler's steps *)

LEMMA InHandType ==
  ASSUME ConnectionAssumption, ConnectionTyped
  PROVE  /\ Due \in Nat /\ InHand \in Nat /\ Len(answers) \in Nat
         /\ connectionAt = "parse" => Due = 0 /\ InHand = Len(answers)
         /\ connectionAt # "parse" =>
              /\ InHand = Len(answers) + 1 /\ req \in Heads /\ req.r \in HttpRequest
              /\ req.n \in Nat /\ Body(req.r) \in Nat
<1>1. Len(answers) \in Nat
  BY DEF ConnectionTyped
<1>2. connectionAt # "parse" => req \in Heads /\ req.r \in HttpRequest /\ req.n \in Nat /\ Body(req.r) \in Nat
  BY BodyType DEF ConnectionTyped, Heads
<1> QED BY <1>1, <1>2 DEF Due, InHand

\* An answer ends what is in hand, and leaves the wire at the next request or closed.
LEMMA AnswerStep ==
  ASSUME ConnectionAssumption, ConnectionInv, open, connectionAt # "parse",
         NEW code \in Nat, NEW closes \in BOOLEAN, Connection!Answer(code, closes),
         client' = client, wire' \in Seq(Units),
         closes \/ Framed(wire', 0, InHand, client),
         Stranger(req.r) => code = 401
  PROVE  ConnectionInv'
<1> DEFINE a == [to |-> req.n, r |-> req.r, code |-> code, body |-> req.r.verb # "HEAD"]
<1>1. /\ answers' = Append(answers, a) /\ connectionAt' = "parse" /\ open' = ~closes
  BY DEF Connection!Answer
<1>2. /\ InHand = Len(answers) + 1 /\ Len(answers) \in Nat /\ req.r \in HttpRequest /\ req.n \in Nat
      /\ req.n = InHand /\ answers \in Seq(WireAnswers)
  BY InHandType DEF ConnectionInv, ConnectionTyped
<1>3. a \in WireAnswers /\ a.to = req.n /\ a.r = req.r /\ a.code = code /\ a.body = (req.r.verb # "HEAD")
  BY <1>2 DEF WireAnswers
<1> HIDE DEF a
<1>4. /\ answers' \in Seq(WireAnswers) /\ Len(answers') = Len(answers) + 1
      /\ answers'[Len(answers) + 1] = a /\ \A i \in 1..Len(answers) : answers'[i] = answers[i]
  BY <1>1, <1>2, <1>3, Appended
<1>5. ConnectionTyped'
  BY <1>1, <1>4 DEF ConnectionTyped, ConnectionInv, Stage
<1>6. AnswersSound'
  <2>1. ASSUME NEW i \in 1..Len(answers')
        PROVE  /\ answers'[i].to = i /\ (answers'[i].r.verb = "HEAD" => ~answers'[i].body)
               /\ Stranger(answers'[i].r) => answers'[i].code = 401
    <3>1. CASE i = Len(answers) + 1
      BY <1>2, <1>3, <1>4, <3>1
    <3>2. CASE i # Len(answers) + 1
      <4>1. i \in 1..Len(answers) /\ answers'[i] = answers[i]
        BY <1>2, <1>4, <3>2
      <4> QED BY <4>1 DEF ConnectionInv, AnswersSound
    <3> QED BY <3>1, <3>2
  <2> QED BY <2>1 DEF AnswersSound, Stranger, Connection!refused, Connection!pre_auth, Connection!play_page,
                      Connection!Reads
<1>7. Due' = 0 /\ InHand' = InHand
  BY <1>1, <1>2, <1>4 DEF Due, InHand
<1>8. open' => Framed(wire, Due, InHand, client)'
  BY <1>1, <1>7
<1> QED BY <1>1, <1>5, <1>6, <1>8 DEF ConnectionInv

\* An answer that closes may leave anything.
LEMMA ClosingStep ==
  ASSUME ConnectionAssumption, ConnectionInv, open, connectionAt # "parse",
         NEW code \in Nat, Connection!Answer(code, TRUE), UNCHANGED <<client, wire>>,
         Stranger(req.r) => code = 401
  PROVE  ConnectionInv'
<1>1. wire' \in Seq(Units)
  BY DEF ConnectionInv, ConnectionTyped
<1> QED BY <1>1, AnswerStep

\* Past the credential no stranger is in hand.
LEMMA Admitted ==
  ASSUME ConnectionInv, open, connectionAt \in {"body", "dispatch"}
  PROVE  ~Stranger(req.r)
  BY DEF ConnectionInv, Stranger

\* With its body read a request is answered, and the next is a request's.
LEMMA KeptStep ==
  ASSUME ConnectionAssumption, ConnectionInv, open, connectionAt = "dispatch", ~Connection!streamed(req.r),
         NEW code \in Nat, NEW closes \in BOOLEAN, Connection!Answer(code, closes), UNCHANGED <<client, wire>>
  PROVE  ConnectionInv'
<1>1. wire' \in Seq(Units) /\ wire' = wire
  BY DEF ConnectionInv, ConnectionTyped
<1>2. Due = 0
  BY DEF Due
<1>3. Framed(wire', 0, InHand, client)
  BY <1>1, <1>2 DEF ConnectionInv
<1> QED BY <1>1, <1>3, Admitted, AnswerStep

LEMMA SendStep ==
  ASSUME ConnectionAssumption, ConnectionInv, Connection!Send
  PROVE  ConnectionInv'
<1>0. PICK r \in HttpRequest :
      /\ wire' = Append(wire, [kind |-> "head", r |-> r, n |-> client.sent + 1, got |-> 0])
      /\ client' = [client EXCEPT !.sent = @ + 1, !.owes = IF r.length = Unreadable THEN 1 ELSE r.length]
  BY DEF Connection!Send
<1> DEFINE first == [kind |-> "head", r |-> r, n |-> client.sent + 1, got |-> 0]
<1>1. /\ open /\ ~client.gone /\ client.owes = 0
      /\ open' = open /\ connectionAt' = connectionAt /\ req' = req /\ answers' = answers
  BY DEF Connection!Send
<1>2. /\ wire \in Seq(Units) /\ client \in [sent : Nat, owes : Nat, gone : BOOLEAN]
      /\ Framed(wire, Due, InHand, client) /\ Due \in Nat /\ InHand \in Nat
  BY <1>1, InHandType DEF ConnectionInv, ConnectionTyped
<1>3. first \in Heads /\ first.n = client.sent + 1 /\ first.r = r
  BY <1>2 DEF Heads
<1>4. /\ client' \in [sent : Nat, owes : Nat, gone : BOOLEAN]
      /\ client'.sent = client.sent + 1 /\ client'.owes = Body(r) /\ ~client'.gone
  <2>1. client' = [client EXCEPT !.sent = @ + 1, !.owes = Body(r)]
    BY <1>0 DEF Body
  <2>2. Body(r) \in Nat
    BY BodyType
  <2> DEFINE b == Body(r)
  <2>3. client' = [client EXCEPT !.sent = @ + 1, !.owes = b] /\ b \in Nat
    BY <2>1, <2>2
  <2> HIDE DEF b
  <2>4. /\ client' \in [sent : Nat, owes : Nat, gone : BOOLEAN]
        /\ client'.sent = client.sent + 1 /\ client'.owes = b /\ ~client'.gone
    <3>1. client \in [sent : Nat, owes : Nat, gone : BOOLEAN] /\ ~client.gone
      BY <1>1, <1>2
    <3>2. client'.sent = client.sent + 1 /\ client'.owes = b /\ client'.gone = client.gone
      BY <3>1, <2>3
    <3>3. client' = [sent |-> client.sent + 1, owes |-> b, gone |-> client.gone]
      BY <3>1, <2>3
    <3> QED BY <3>1, <3>2, <3>3, <2>3
  <2> QED BY <2>4 DEF b
<1>5. wire' = Append(wire, first) /\ client'.owes = Body(first.r)
  BY <1>0, <1>3, <1>4
<1> HIDE DEF first
<1>6. wire' \in Seq(Units) /\ Framed(wire', Due, InHand, client')
  <2> DEFINE s == wire'
             d == client'
  <2>1. /\ s = Append(wire, first) /\ d.sent = client.sent + 1 /\ d.owes = Body(first.r) /\ ~d.gone
        /\ first \in Heads /\ first.n = client.sent + 1
    BY <1>3, <1>4, <1>5
  <2> HIDE DEF s, d
  <2>2. s \in Seq(Units) /\ Framed(s, Due, InHand, d)
    BY <1>1, <1>2, <2>1, HeadAppended, ZenonT(30)
  <2> QED BY <2>2 DEF s, d
<1>7. Due' = Due /\ InHand' = InHand
  BY <1>1 DEF Due, InHand, Connection!streamed, Body
<1>8. Framed(wire, Due, InHand, client)'
  BY <1>6, <1>7
<1>9. ConnectionTyped' /\ AnswersSound'
  BY <1>1, <1>4, <1>6 DEF ConnectionInv, ConnectionTyped, AnswersSound, Stranger, Connection!refused,
                          Connection!pre_auth, Connection!play_page, Connection!Reads
<1> QED BY <1>1, <1>7, <1>8, <1>9 DEF ConnectionInv, Connection!streamed

LEMMA SendBodyStep ==
  ASSUME ConnectionAssumption, ConnectionInv, Connection!SendBody
  PROVE  ConnectionInv'
<1>1. /\ open /\ ~client.gone /\ client.owes > 0
      /\ wire' = Append(wire, [kind |-> "body"]) /\ client' = [client EXCEPT !.owes = @ - 1]
      /\ open' = open /\ connectionAt' = connectionAt /\ req' = req /\ answers' = answers
  BY DEF Connection!SendBody
<1>2. /\ wire \in Seq(Units) /\ client \in [sent : Nat, owes : Nat, gone : BOOLEAN]
      /\ Framed(wire, Due, InHand, client) /\ Due \in Nat /\ InHand \in Nat
  BY <1>1, InHandType DEF ConnectionInv, ConnectionTyped
<1>3. /\ client' \in [sent : Nat, owes : Nat, gone : BOOLEAN]
      /\ client'.sent = client.sent /\ client'.owes = client.owes - 1 /\ ~client'.gone
  BY <1>1, <1>2
<1> DEFINE u == [kind |-> "body"]
<1>4. wire' \in Seq(Units) /\ Framed(wire', Due, InHand, client')
  <2>1. wire' = Append(wire, u) /\ u = [kind |-> "body"]
    BY <1>1
  <2> HIDE DEF u
  <2> QED BY <1>1, <1>2, <1>3, <2>1, BodyAppended, Zenon
<1>5. Due' = Due /\ InHand' = InHand
  BY <1>1 DEF Due, InHand, Connection!streamed, Body
<1>6. Framed(wire, Due, InHand, client)'
  BY <1>4, <1>5
<1>7. ConnectionTyped' /\ AnswersSound'
  BY <1>1, <1>3, <1>4 DEF ConnectionInv, ConnectionTyped, AnswersSound, Stranger, Connection!refused,
                          Connection!pre_auth, Connection!play_page, Connection!Reads
<1> QED BY <1>1, <1>5, <1>6, <1>7 DEF ConnectionInv, Connection!streamed

LEMMA VanishStep ==
  ASSUME ConnectionAssumption, ConnectionInv, Connection!Vanish
  PROVE  ConnectionInv'
<1>1. /\ open /\ client' = [client EXCEPT !.gone = TRUE]
      /\ wire' = wire /\ open' = open /\ connectionAt' = connectionAt /\ req' = req /\ answers' = answers
  BY DEF Connection!Vanish
<1>2. client \in [sent : Nat, owes : Nat, gone : BOOLEAN] /\ Framed(wire, Due, InHand, client)
  BY <1>1 DEF ConnectionInv, ConnectionTyped
<1>3. /\ client' \in [sent : Nat, owes : Nat, gone : BOOLEAN]
      /\ client'.sent = client.sent /\ client'.owes = client.owes /\ client'.gone
  BY <1>1, <1>2
<1>4. Framed(wire, Due, InHand, client')
  BY <1>2, <1>3 DEF Framed, Covers
<1>5. Due' = Due /\ InHand' = InHand
  BY <1>1 DEF Due, InHand, Connection!streamed, Body
<1>6. Framed(wire, Due, InHand, client)'
  BY <1>1, <1>4, <1>5
<1>7. ConnectionTyped' /\ AnswersSound'
  BY <1>1, <1>3 DEF ConnectionInv, ConnectionTyped, AnswersSound, Stranger, Connection!refused,
                    Connection!pre_auth, Connection!play_page, Connection!Reads
<1> QED BY <1>1, <1>5, <1>6, <1>7 DEF ConnectionInv, Connection!streamed

\* A connection that ends keeps what it answered.
LEMMA EndsStep ==
  ASSUME ConnectionInv, ~open', UNCHANGED <<wire, client, connectionAt, req, answers>>, open' \in BOOLEAN
  PROVE  ConnectionInv'
  BY DEF ConnectionInv, ConnectionTyped, AnswersSound, Stranger, Connection!refused,
         Connection!pre_auth, Connection!play_page, Connection!Reads

LEMMA ParseStep ==
  ASSUME ConnectionAssumption, ConnectionInv, Connection!Parse
  PROVE  ConnectionInv'
<1>1. open /\ connectionAt = "parse" /\ client' = client /\ answers' = answers
  BY DEF Connection!Parse
<1>2. CASE /\ wire # <<>> /\ req' = Head(wire) /\ wire' = Tail(wire)
           /\ connectionAt' = "route" /\ open' = open
  <2>1. /\ wire \in Seq(Units) /\ client \in [sent : Nat, owes : Nat, gone : BOOLEAN]
        /\ Framed(wire, 0, InHand, client) /\ InHand = Len(answers) /\ InHand \in Nat
    BY <1>1, InHandType DEF ConnectionInv, ConnectionTyped
  <2>2. /\ wire' \in Seq(Units) /\ req' \in Heads /\ req'.n = InHand + 1
        /\ Framed(wire', Body(req'.r), InHand + 1, client)
    BY <1>2, <2>1, HeadRead
  <2>3. Due' = Body(req'.r) /\ InHand' = InHand + 1
    BY <1>1, <1>2, <2>1 DEF Due, InHand, Body
  <2>4. Framed(wire, Due, InHand, client)' /\ req'.n = InHand'
    BY <1>1, <2>2, <2>3
  <2>5. ConnectionTyped' /\ AnswersSound'
    BY <1>1, <1>2, <2>2 DEF ConnectionInv, ConnectionTyped, Stage, AnswersSound, Stranger, Connection!refused,
                            Connection!pre_auth, Connection!play_page, Connection!Reads
  <2> QED BY <1>2, <2>4, <2>5 DEF ConnectionInv
<1>3. CASE open' = FALSE /\ UNCHANGED <<wire, connectionAt, req>>
  BY <1>1, <1>3, EndsStep
<1> QED BY <1>2, <1>3 DEF Connection!Parse

\* On to another stage, with as much of the body to read.
LEMMA GoesStep ==
  ASSUME ConnectionAssumption, ConnectionInv, open, connectionAt \in {"route", "auth"},
         NEW stage \in {"auth", "body", "dispatch"}, Connection!Goes(stage), UNCHANGED <<wire, client>>,
         stage # "auth" => req.r.who # "nobody",
         stage = "body" => ~Connection!streamed(req.r), stage = "dispatch" => Connection!streamed(req.r)
  PROVE  ConnectionInv'
<1>1. connectionAt' = stage /\ open' = open /\ req' = req /\ answers' = answers
  BY DEF Connection!Goes
<1>2. Due' = Due /\ InHand' = InHand
  BY <1>1 DEF Due, InHand, Connection!streamed, Body
<1>3. Framed(wire, Due, InHand, client)
  BY DEF ConnectionInv
<1>4. Framed(wire, Due, InHand, client)'
  BY <1>2, <1>3
<1>5. ConnectionTyped' /\ AnswersSound'
  BY <1>1 DEF ConnectionInv, ConnectionTyped, Stage, AnswersSound, Stranger, Connection!refused,
              Connection!pre_auth, Connection!play_page, Connection!Reads
<1> QED BY <1>1, <1>2, <1>4, <1>5 DEF ConnectionInv, Connection!streamed

LEMMA RouteStep ==
  ASSUME ConnectionAssumption, ConnectionInv, Connection!do_OPTIONS \/ Connection!Route
  PROVE  ConnectionInv'
<1>1. open /\ connectionAt = "route" /\ UNCHANGED <<wire, client>>
  BY DEF Connection!do_OPTIONS, Connection!Route, Connection!Routing
<1>2. ASSUME NEW code \in Nat, Connection!Answer(code, TRUE), ~Stranger(req.r)
      PROVE  ConnectionInv'
  BY <1>1, <1>2, ClosingStep
<1>3. CASE req.r.verb = "OPTIONS" /\ Connection!Answer(204, TRUE)
  BY <1>2, <1>3 DEF Stranger
<1>4. CASE Connection!refused(req.r) /\ Connection!Answer(404, TRUE)
  <2>1. 404 \in Nat
    OBVIOUS
  <2>2. ~Stranger(req.r)
    BY <1>4 DEF Stranger
  <2> QED BY <1>2, <1>4, <2>1, <2>2
<1>6. CASE Connection!Goes("auth")
  BY <1>1, <1>6, GoesStep
<1>7. CASE Connection!Route
  <2>1. CASE Connection!refused(req.r)
    BY <1>4, <1>7, <2>1 DEF Connection!Route
  <2>2. CASE ~Connection!refused(req.r) /\ (Connection!pre_auth(req.r) \/ Connection!play_page(req.r))
    <3>1. \E code \in {200, 404} : Connection!Answer(code, TRUE)
      BY <1>7, <2>2, Zenon DEF Connection!Route
    <3>2. PICK c \in {200, 404} : Connection!Answer(c, TRUE)
      BY <3>1
    <3>3. c \in Nat /\ ~Stranger(req.r)
      BY <2>2 DEF Stranger
    <3> QED BY <1>2, <3>2, <3>3
  <2>3. CASE ~Connection!refused(req.r) /\ ~(Connection!pre_auth(req.r) \/ Connection!play_page(req.r))
    <3>1. Connection!Goes("auth")
      BY <1>7, <2>3, Zenon DEF Connection!Route
    <3> QED BY <1>6, <3>1
  <2> QED BY <2>1, <2>2, <2>3
<1> QED BY <1>3, <1>7 DEF Connection!do_OPTIONS

LEMMA AuthenticateStep ==
  ASSUME ConnectionAssumption, ConnectionInv, Connection!Authenticate
  PROVE  ConnectionInv'
<1>1. open /\ connectionAt = "auth" /\ UNCHANGED <<client, wire>>
  BY DEF Connection!Authenticate
<1>2. ASSUME NEW code \in {401, 403}, Connection!Answer(code, TRUE), code = 401 \/ req.r.who # "nobody"
      PROVE  ConnectionInv'
  <2>1. code \in Nat
    OBVIOUS
  <2>2. Stranger(req.r) => code = 401
    BY <1>2 DEF Stranger
  <2>3. connectionAt # "parse"
    BY <1>1
  <2>4. Connection!Answer(code, TRUE) /\ open /\ UNCHANGED <<client, wire>>
    BY <1>1, <1>2
  <2> QED BY <2>1, <2>2, <2>3, <2>4, ClosingStep
<1>3. ASSUME req.r.who # "nobody",
             Connection!Goes(IF Connection!streamed(req.r) THEN "dispatch" ELSE "body")
      PROVE  ConnectionInv'
  <2>1. CASE Connection!streamed(req.r)
    BY <1>1, <1>3, <2>1, GoesStep
  <2>2. CASE ~Connection!streamed(req.r)
    BY <1>1, <1>3, <2>2, GoesStep
  <2> QED BY <2>1, <2>2
<1> QED BY <1>2, <1>3 DEF Connection!Authenticate

\* What is read of a body that has a length, all there or cut short.
LEMMA ReadFrames ==
  ASSUME ConnectionAssumption, ConnectionInv, open, connectionAt # "parse", req.r.length # Unreadable,
         Due = Body(req.r), Connection!Readable, Connection!Read
  PROVE  wire' \in Seq(Units) /\ Framed(wire', 0, InHand, client) /\ Connection!Got \in Nat
<1>1. /\ wire \in Seq(Units) /\ client \in [sent : Nat, owes : Nat, gone : BOOLEAN]
      /\ Framed(wire, Due, InHand, client) /\ InHand \in Nat /\ Len(wire) \in Nat
  BY InHandType DEF ConnectionInv, ConnectionTyped
<1>2. Due = req.r.length /\ Due \in Nat
  BY InHandType DEF Body, ConnectionInv
<1> DEFINE k == Connection!Got
           v == SubSeq(wire, k + 1, Len(wire))
<1>3. /\ k \in Nat
      /\ (k = Due /\ k <= Len(wire)) \/ (k = Len(wire) /\ k < Due /\ client.gone)
  BY <1>1, <1>2 DEF Connection!Readable, Connection!Got
<1>4. wire' = v
  BY DEF Connection!Read
<1> HIDE DEF k
<1>5. v \in Seq(Units) /\ Framed(v, 0, InHand, client)
  BY <1>1, <1>2, <1>3, BodyRead
<1> QED BY <1>3, <1>4, <1>5 DEF k

LEMMA ReadBodyStep ==
  ASSUME ConnectionAssumption, ConnectionInv, Connection!ReadBody
  PROVE  ConnectionInv'
<1>1. open /\ connectionAt = "body" /\ client' = client
  BY DEF Connection!ReadBody
<1>2. ~Stranger(req.r) /\ ~Connection!streamed(req.r)
  BY <1>1, Admitted DEF ConnectionInv
<1>3. ASSUME NEW code \in {400, 413}, Connection!Answer(code, TRUE), wire' = wire
      PROVE  ConnectionInv'
  <2>1. code \in Nat
    OBVIOUS
  <2> QED BY <1>1, <1>2, <1>3, <2>1, ClosingStep
<1>4. ASSUME req.r.length # Unreadable, Connection!Readable, Connection!Read, connectionAt' = "dispatch",
             UNCHANGED <<open, answers>>, req' = [req EXCEPT !.got = Connection!Got]
      PROVE  ConnectionInv'
  <2>1. Due = Body(req.r) /\ InHand = Len(answers) + 1 /\ req \in Heads /\ req.n = InHand
    BY <1>1, InHandType DEF Due, ConnectionInv
  <2>2. wire' \in Seq(Units) /\ Framed(wire', 0, InHand, client) /\ Connection!Got \in Nat
    BY <1>1, <1>4, <2>1, ReadFrames
  <2>3. req' \in Heads /\ req'.r = req.r /\ req'.n = req.n
    BY <1>4, <2>1, <2>2 DEF Heads
  <2>4. ~Connection!streamed(req.r)'
    BY <1>2, <2>3 DEF Connection!streamed
  <2>5. Due' = 0 /\ InHand' = InHand
    BY <1>1, <1>4, <2>1, <2>4 DEF Due, InHand
  <2>6. Framed(wire, Due, InHand, client)' /\ req'.n = InHand'
    BY <1>1, <2>1, <2>2, <2>3, <2>5
  <2>7. ConnectionTyped' /\ AnswersSound'
    BY <1>1, <1>4, <2>2, <2>3 DEF ConnectionInv, ConnectionTyped, Stage, AnswersSound, Stranger,
       Connection!refused, Connection!pre_auth, Connection!play_page, Connection!Reads
  <2>8. req.r.who # "nobody"
    BY <1>1 DEF ConnectionInv
  <2> QED BY <1>4, <2>3, <2>6, <2>7, <2>8 DEF ConnectionInv
<1>5. CASE req.r.length = Unreadable
  BY <1>3, <1>5 DEF Connection!ReadBody
<1>6. CASE req.r.length # Unreadable /\ req.r.length > Cap
  BY <1>3, <1>6 DEF Connection!ReadBody
<1>7. CASE req.r.length # Unreadable /\ ~(req.r.length > Cap)
  BY <1>4, <1>7 DEF Connection!ReadBody
<1> QED BY <1>5, <1>6, <1>7

LEMMA putStep ==
  ASSUME ConnectionAssumption, ConnectionInv, Connection!put
  PROVE  ConnectionInv'
<1>1. open /\ connectionAt = "dispatch" /\ client' = client /\ Connection!streamed(req.r)
  BY DEF Connection!put, Connection!Dispatching
<1>2. ~Stranger(req.r) /\ Due = Body(req.r)
  BY <1>1, Admitted DEF Due
<1>3. ASSUME NEW code \in {411, 413, 404}, Connection!Answer(code, TRUE), wire' = wire
      PROVE  ConnectionInv'
  <2>1. code \in Nat
    OBVIOUS
  <2> QED BY <1>1, <1>2, <1>3, <2>1, ClosingStep
<1>4. ASSUME req.r.length \in 1..Cap, Connection!Readable, Connection!Read,
             NEW code \in {400, 200}, NEW closes \in BOOLEAN, Connection!Answer(code, closes)
      PROVE  ConnectionInv'
  <2>1. code \in Nat /\ req.r.length # Unreadable
    BY <1>4 DEF ConnectionAssumption
  <2>2. wire' \in Seq(Units) /\ Framed(wire', 0, InHand, client)
    BY <1>1, <1>2, <1>4, <2>1, ReadFrames
  <2> QED BY <1>1, <1>2, <1>4, <2>1, <2>2, AnswerStep
<1>5. CASE /\ Connection!Answer(IF req.r.length \in {0, Unreadable} THEN 411
                                ELSE IF req.r.length > Cap THEN 413 ELSE 404, TRUE)
           /\ wire' = wire
  BY <1>3, <1>5
<1>6. CASE /\ req.r.length \in 1..Cap /\ Connection!Readable /\ Connection!Read
           /\ Connection!Answer(400, TRUE) \/ Connection!Answer(200, FALSE)
  BY <1>4, <1>6
<1> QED BY <1>5, <1>6 DEF Connection!put

\* A connection's invariant is kept by every step.
LEMMA ConnectionNext ==
  ASSUME ConnectionAssumption, ConnectionInv, Connection!Next
  PROVE  ConnectionInv'
<1>1. ASSUME Connection!Climbs
      PROVE  ConnectionInv'
  <2>1. /\ open /\ connectionAt = "dispatch" /\ UNCHANGED <<client, wire>>
        /\ Connection!Answer(400, Connection!streamed(req.r) \/ req.r.length = 0)
    BY <1>1 DEF Connection!Climbs, Connection!Dispatching
  <2>2. CASE Connection!streamed(req.r)
    <3>1. Connection!Answer(400, TRUE)
      BY <2>1, <2>2
    <3>2. 400 \in Nat /\ ~Stranger(req.r)
      BY <2>1, Admitted
    <3> QED BY <2>1, <3>1, <3>2, ClosingStep
  <2>3. CASE ~Connection!streamed(req.r)
    <3>1. (Connection!streamed(req.r) \/ req.r.length = 0) \in BOOLEAN /\ 400 \in Nat
      OBVIOUS
    <3> QED BY <2>1, <2>3, <3>1, KeptStep
  <2> QED BY <2>2, <2>3
<1>2. ASSUME Connection!Store
      PROVE  ConnectionInv'
  <2>1. /\ open /\ connectionAt = "dispatch" /\ UNCHANGED <<client, wire>> /\ ~Connection!streamed(req.r)
        /\ Connection!Answer(200, FALSE) \/ Connection!Answer(400, FALSE)
    BY <1>2 DEF Connection!Store, Connection!Dispatching, Connection!streamed
  <2>2. 200 \in Nat /\ 400 \in Nat
    OBVIOUS
  <2> QED BY <2>1, <2>2, KeptStep
<1>3. ASSUME Connection!Stream
      PROVE  ConnectionInv'
  <2> PICK short \in BOOLEAN : Connection!Answer(200, short /\ req.r.verb = "GET")
    BY <1>3 DEF Connection!Stream
  <2>1. open /\ connectionAt = "dispatch" /\ UNCHANGED <<client, wire>> /\ ~Connection!streamed(req.r)
    BY <1>3 DEF Connection!Stream, Connection!Dispatching, Connection!streamed
  <2> QED BY <2>1, KeptStep
<1>4. ASSUME Connection!Serve
      PROVE  ConnectionInv'
  <2> PICK code \in {200, 404} : Connection!Answer(code, FALSE)
    BY <1>4 DEF Connection!Serve
  <2>1. open /\ connectionAt = "dispatch" /\ UNCHANGED <<client, wire>> /\ ~Connection!streamed(req.r)
    BY <1>4 DEF Connection!Serve, Connection!Dispatching
  <2>2. code \in Nat
    OBVIOUS
  <2> QED BY <2>1, <2>2, KeptStep
<1>5. ASSUME Connection!TimeOut
      PROVE  ConnectionInv'
  BY <1>5, EndsStep DEF Connection!TimeOut
<1> QED BY <1>1, <1>2, <1>3, <1>4, <1>5, SendStep, SendBodyStep, VanishStep, ParseStep, RouteStep,
           AuthenticateStep, ReadBodyStep, putStep DEF Connection!Next

LEMMA ConnectionPromise == ConnectionInv => Connection!AnswersAreFramed
<1> SUFFICES ASSUME ConnectionInv PROVE Connection!AnswersAreFramed
  OBVIOUS
<1>1. ASSUME open, connectionAt = "parse", wire # <<>>
      PROVE  Head(wire).kind = "head"
  <2>1. Due = 0 /\ wire \in Seq(Units)
    BY <1>1 DEF Due, ConnectionInv, ConnectionTyped
  <2>2. Len(wire) > 0 /\ Head(wire) = wire[1]
    BY <1>1, <2>1
  <2> QED BY <1>1, <2>1, <2>2 DEF ConnectionInv, Framed
<1>2. DOMAIN answers = 1..Len(answers)
  BY DEF ConnectionInv, ConnectionTyped
<1> QED BY <1>1, <1>2 DEF Connection!AnswersAreFramed, ConnectionInv, AnswersSound, Stranger

(***************************************************************************)
(* Sums over finite sets, as MapThenSumSet takes them: element by element, *)
(* in whatever order CHOOSE has it.  The library's induction theorems take *)
(* operators; these say the same of sets.                                  *)
(***************************************************************************)

\* Of numbers there is a least.
LEMMA LeastNat ==
  ASSUME NEW T, T \subseteq Nat, T # {}
  PROVE  \E x \in T : \A y \in T : x <= y
<1> DEFINE R == {p \in Nat \X Nat : p[1] < p[2]}
<1>1. IsWellFoundedOn(R, Nat)
  BY NatLessThanWellFounded DEF OpToRel
<1> HIDE DEF R
<1>2. PICK x \in T : \A y \in T : <<y, x>> \notin R
  BY <1>1, WFMin
<1>3. \A y \in T : y \in Nat /\ x \in Nat
  OBVIOUS
<1>4. \A y \in T : ~(y < x)
  BY <1>2, <1>3 DEF R
<1> QED BY <1>3, <1>4

\* What 0 is in, and with each number the next, has every number.
LEMMA EveryNat ==
  ASSUME NEW N, 0 \in N, \A n \in Nat : n \in N => n + 1 \in N
  PROVE  Nat \subseteq N
<1> SUFFICES ASSUME Nat \ N # {} PROVE FALSE
  OBVIOUS
<1>1. PICK x \in Nat \ N : \A y \in Nat \ N : x <= y
  BY LeastNat
<1>2. x # 0 /\ x - 1 \in Nat
  BY <1>1
<1>3. x - 1 \in N
  BY <1>1, <1>2
<1>4. (x - 1) + 1 \in N
  BY <1>2, <1>3
<1> QED BY <1>1, <1>4

\* What the empty set is in, and with each subset of S one that has an element more, has S.
LEMMA EveryFinite ==
  ASSUME NEW S, IsFiniteSet(S), NEW P, {} \in P,
         \A T \in SUBSET S : \A x \in S \ T : T \in P => T \cup {x} \in P
  PROVE  S \in P
<1> DEFINE N == {n \in Nat : \A T \in SUBSET S : Cardinality(T) = n => T \in P}
<1>1. 0 \in N
  <2>1. \A T \in SUBSET S : Cardinality(T) = 0 => T = {}
    BY FS_Subset, FS_EmptySet
  <2> QED BY <2>1
<1>2. ASSUME NEW n \in Nat, n \in N
      PROVE  n + 1 \in N
  <2> SUFFICES ASSUME NEW T \in SUBSET S, Cardinality(T) = n + 1
               PROVE  T \in P
    OBVIOUS
  <2>1. IsFiniteSet(T) /\ T # {}
    BY FS_Subset, FS_EmptySet
  <2>2. PICK x \in T : TRUE
    BY <2>1
  <2>3. Cardinality(T \ {x}) = n
    <3>1. Cardinality(T \ {x}) = Cardinality(T) - 1
      BY <2>1, <2>2, FS_RemoveElement
    <3> QED BY <3>1
  <2>4. T \ {x} \in P
    BY <1>2, <2>3
  <2>5. (T \ {x}) \cup {x} = T
    OBVIOUS
  <2> QED BY <2>2, <2>4, <2>5
<1>3. Nat \subseteq N
  <2> HIDE DEF N
  <2> QED BY <1>1, <1>2, EveryNat
<1>4. Cardinality(S) \in Nat
  BY FS_CardinalityType
<1> QED BY <1>3, <1>4

Sum(f, S) == Logs!MapThenSumSet(LAMBDA x : f[x], S)

Picked(s) == CHOOSE x \in s : TRUE

\* g has the sums of f over the sets of D.
Sums(g, f, D) == g = [s \in D |-> IF s = {} THEN 0 ELSE f[Picked(s)] + g[s \ {Picked(s)}]]

LEMMA SumsExist ==
  ASSUME NEW S, IsFiniteSet(S), NEW f
  PROVE  \E g : Sums(g, f, SUBSET S)
<1> DEFINE D(n) == {s \in SUBSET S : Cardinality(s) <= n}
           N == {n \in Nat : \E g : Sums(g, f, D(n))}
<1>1. \A s \in SUBSET S : /\ Cardinality(s) \in Nat /\ (Cardinality(s) = 0 <=> s = {})
                          /\ s # {} => Picked(s) \in s /\ Cardinality(s \ {Picked(s)}) = Cardinality(s) - 1
  BY FS_Subset, FS_CardinalityType, FS_EmptySet, FS_RemoveElement DEF Picked
<1>2. 0 \in N
  <2>1. D(0) = {{}}
    <3>1. ASSUME NEW s \in SUBSET S PROVE Cardinality(s) <= 0 <=> s = {}
      <4>1. Cardinality(s) \in Nat /\ (Cardinality(s) = 0 <=> s = {})
        BY <1>1
      <4> QED BY <4>1
    <3>2. D(0) = {s \in SUBSET S : s = {}}
      BY <3>1
    <3> QED BY <3>2
  <2>2. Sums([s \in {{}} |-> 0], f, {{}})
    BY DEF Sums
  <2> QED BY <2>1, <2>2
<1>3. ASSUME NEW n \in Nat, n \in N
      PROVE  n + 1 \in N
  <2>1. PICK g : Sums(g, f, D(n))
    BY <1>3
  <2> DEFINE h == [s \in D(n + 1) |-> IF s = {} THEN 0 ELSE f[Picked(s)] + g[s \ {Picked(s)}]]
  <2>2. \A s \in D(n + 1) : s # {} => s \ {Picked(s)} \in D(n)
    BY <1>1
  <2>3. \A s \in D(n) : s \in D(n + 1)
    <3> SUFFICES ASSUME NEW s \in SUBSET S, Cardinality(s) <= n
                 PROVE  Cardinality(s) <= n + 1
      OBVIOUS
    <3>1. Cardinality(s) \in Nat
      BY <1>1
    <3> QED BY <3>1
  <2>4. \A s \in D(n) : g[s] = h[s]
    BY <2>1, <2>3 DEF Sums
  <2>5. \A s \in D(n + 1) : h[s] = IF s = {} THEN 0 ELSE f[Picked(s)] + h[s \ {Picked(s)}]
    BY <2>2, <2>4
  <2>6. h = [s \in D(n + 1) |-> h[s]]
    OBVIOUS
  <2> HIDE DEF h, D
  <2>7. Sums(h, f, D(n + 1))
    BY <2>5, <2>6 DEF Sums
  <2> QED BY <2>7
<1>4. Nat \subseteq N
  <2> HIDE DEF N
  <2> QED BY <1>2, <1>3, EveryNat
<1>5. Cardinality(S) \in Nat /\ D(Cardinality(S)) = SUBSET S
  <2>1. \A s \in SUBSET S : Cardinality(s) <= Cardinality(S)
    BY FS_Subset
  <2> QED BY <1>1, <2>1
<1> HIDE DEF D
<1> QED BY <1>4, <1>5

LEMMA SumIs ==
  ASSUME NEW S, IsFiniteSet(S), NEW f
  PROVE  \E g : Sums(g, f, SUBSET S) /\ Sum(f, S) = g[S]
<1> DEFINE iter == CHOOSE g : g = [s \in SUBSET S |-> IF s = {} THEN 0 ELSE f[CHOOSE x \in s : TRUE] + g[s \ {CHOOSE x \in s : TRUE}]]
<1>1. Sum(f, S) = iter[S]
  BY DEF Sum, Logs!MapThenSumSet, Logs!MapThenFoldSet
<1>2. iter = [s \in SUBSET S |-> IF s = {} THEN 0 ELSE f[CHOOSE x \in s : TRUE] + iter[s \ {CHOOSE x \in s : TRUE}]]
  <2> DEFINE P(g) == g = [s \in SUBSET S |-> IF s = {} THEN 0 ELSE f[CHOOSE x \in s : TRUE] + g[s \ {CHOOSE x \in s : TRUE}]]
  <2>1. \E g : P(g)
    <3>1. PICK h : Sums(h, f, SUBSET S)
      BY SumsExist
    <3>2. P(h)
      BY <3>1 DEF Sums, Picked
    <3> QED BY <3>2
  <2>2. iter = CHOOSE g : P(g)
    OBVIOUS
  <2> HIDE DEF P, iter
  <2>3. P(iter)
    BY <2>1, <2>2
  <2> QED BY <2>3 DEF P
<1> HIDE DEF iter
<1>3. Sums(iter, f, SUBSET S)
  BY <1>2 DEF Sums, Picked
<1> QED BY <1>1, <1>3

\* A sum goes by any of its elements, not only by the one that CHOOSE has.
LEMMA SumByAny ==
  ASSUME NEW S, IsFiniteSet(S), NEW f, \A x \in S : f[x] \in Nat, NEW g, Sums(g, f, SUBSET S)
  PROVE  \A T \in SUBSET S : g[T] \in Nat /\ \A x \in T : g[T] = f[x] + g[T \ {x}]
<1>1. \A T \in SUBSET S : /\ T = {} => g[T] = 0
                          /\ T # {} => Picked(T) \in T /\ g[T] = f[Picked(T)] + g[T \ {Picked(T)}]
  BY DEF Sums, Picked
<1> DEFINE Fine(T) == g[T] \in Nat /\ \A x \in T : g[T] = f[x] + g[T \ {x}]
           N == {n \in Nat : \A T \in SUBSET S : Cardinality(T) <= n => Fine(T)}
<1>2. \A T \in SUBSET S : /\ IsFiniteSet(T) /\ Cardinality(T) \in Nat /\ (Cardinality(T) = 0 <=> T = {})
                          /\ \A x \in T : Cardinality(T \ {x}) = Cardinality(T) - 1
  BY FS_Subset, FS_CardinalityType, FS_EmptySet, FS_RemoveElement
<1>3. 0 \in N
  <2> SUFFICES ASSUME NEW T \in SUBSET S, Cardinality(T) <= 0 PROVE Fine(T)
    OBVIOUS
  <2>1. Cardinality(T) \in Nat /\ (Cardinality(T) = 0 <=> T = {})
    BY <1>2
  <2>2. T = {}
    BY <2>1
  <2>3. g[T] = 0
    BY <1>1, <2>2
  <2> QED BY <2>2, <2>3
<1>4. ASSUME NEW n \in Nat, n \in N
      PROVE  n + 1 \in N
  <2> SUFFICES ASSUME NEW T \in SUBSET S, Cardinality(T) <= n + 1, T # {} PROVE Fine(T)
    <3>1. ASSUME NEW T \in SUBSET S, T = {} PROVE Fine(T)
      <4>1. g[T] = 0
        BY <1>1, <3>1
      <4> QED BY <3>1, <4>1
    <3> HIDE DEF Fine
    <3> QED BY <3>1
  <2>1. \A x \in T : Fine(T \ {x})
    <3> SUFFICES ASSUME NEW x \in T PROVE Fine(T \ {x})
      OBVIOUS
    <3>1. T \ {x} \in SUBSET S /\ Cardinality(T \ {x}) <= n
      BY <1>2
    <3> HIDE DEF Fine
    <3> QED BY <1>4, <3>1
  <2>2. PICK p \in T : g[T] = f[p] + g[T \ {p}]
    BY <1>1
  <2>3. f[p] \in Nat /\ g[T \ {p}] \in Nat
    BY <2>1
  <2>4. ASSUME NEW x \in T, x # p PROVE g[T] = f[x] + g[T \ {x}]
    <3>1. g[T \ {p}] = f[x] + g[(T \ {p}) \ {x}]
      BY <2>1, <2>4
    <3>2. g[T \ {x}] = f[p] + g[(T \ {x}) \ {p}]
      BY <2>1, <2>4
    <3>3. (T \ {p}) \ {x} = (T \ {x}) \ {p}
      OBVIOUS
    <3>4. PICK rest : rest = g[(T \ {p}) \ {x}]
      OBVIOUS
    <3>5. rest \in Nat
      <4>1. (T \ {p}) \ {x} \in SUBSET S /\ Cardinality((T \ {p}) \ {x}) <= n
        <5>1. Cardinality(T \ {p}) = Cardinality(T) - 1 /\ Cardinality((T \ {p}) \ {x}) = Cardinality(T \ {p}) - 1
          BY <1>2, <2>4
        <5> QED BY <1>2, <5>1
      <4> QED BY <1>4, <3>4, <4>1
    <3>6. f[x] \in Nat
      OBVIOUS
    <3>7. g[T \ {p}] = f[x] + rest /\ g[T \ {x}] = f[p] + rest
      BY <3>1, <3>2, <3>3, <3>4
    <3> QED BY <2>2, <2>3, <3>5, <3>6, <3>7
  <2>5. g[T] \in Nat
    BY <2>2, <2>3
  <2> QED BY <2>2, <2>4, <2>5
<1>5. Nat \subseteq N
  <2> HIDE DEF N
  <2> QED BY <1>3, <1>4, EveryNat
<1> SUFFICES ASSUME NEW T \in SUBSET S PROVE Fine(T)
  OBVIOUS
<1>6. Cardinality(T) \in Nat /\ Cardinality(T) <= Cardinality(T)
  BY <1>2
<1> HIDE DEF Fine
<1> QED BY <1>5, <1>6

LEMMA SumRest ==
  ASSUME NEW S, IsFiniteSet(S), NEW f, \A x \in S : f[x] \in Nat
  PROVE  /\ Sum(f, S) \in Nat /\ (S = {} => Sum(f, S) = 0)
         /\ \A x \in S : Sum(f, S) = f[x] + Sum(f, S \ {x})
<1>1. PICK g : Sums(g, f, SUBSET S) /\ Sum(f, S) = g[S]
  BY SumIs
<1>2. g[S] \in Nat /\ \A x \in S : g[S] = f[x] + g[S \ {x}]
  BY <1>1, SumByAny
<1>3. S = {} => g[S] = 0
  BY <1>1 DEF Sums
<1>4. ASSUME NEW x \in S PROVE g[S \ {x}] = Sum(f, S \ {x})
  <2>1. IsFiniteSet(S \ {x})
    BY FS_Subset
  <2>2. PICK h : Sums(h, f, SUBSET (S \ {x})) /\ Sum(f, S \ {x}) = h[S \ {x}]
    BY <2>1, SumIs
  <2> DEFINE P == {T \in SUBSET (S \ {x}) : g[T] = h[T]}
  <2>3. {} \in P
    BY <1>1, <2>2 DEF Sums
  <2>4. ASSUME NEW T \in SUBSET (S \ {x}), NEW y \in (S \ {x}) \ T, T \in P
        PROVE  T \cup {y} \in P
    <3>1. g[T \cup {y}] = f[y] + g[(T \cup {y}) \ {y}]
      BY <1>1, SumByAny
    <3>2. h[T \cup {y}] = f[y] + h[(T \cup {y}) \ {y}]
      <4> DEFINE U == S \ {x}
      <4>1. IsFiniteSet(U) /\ (\A z \in U : f[z] \in Nat) /\ Sums(h, f, SUBSET U) /\ T \cup {y} \in SUBSET U
           /\ y \in T \cup {y}
        BY <2>1, <2>2
      <4> HIDE DEF U
      <4>2. \A W \in SUBSET U : h[W] \in Nat /\ \A z \in W : h[W] = f[z] + h[W \ {z}]
        BY <4>1, SumByAny
      <4> QED BY <4>1, <4>2
    <3>3. (T \cup {y}) \ {y} = T
      OBVIOUS
    <3> QED BY <2>4, <3>1, <3>2, <3>3
  <2> HIDE DEF P
  <2>5. S \ {x} \in P
    BY <2>1, <2>3, <2>4, EveryFinite
  <2> QED BY <2>2, <2>5 DEF P
<1> QED BY <1>1, <1>2, <1>3, <1>4

\* A part's sum and the rest's are the whole's.
LEMMA SumParts ==
  ASSUME NEW S, IsFiniteSet(S), NEW f, \A x \in S : f[x] \in Nat, NEW T \in SUBSET S
  PROVE  Sum(f, S) = Sum(f, T) + Sum(f, S \ T)
<1> DEFINE P == {U \in SUBSET T : Sum(f, T) + Sum(f, S \ T) = Sum(f, T \ U) + Sum(f, (S \ T) \cup U)}
<1>1. IsFiniteSet(T)
  BY FS_Subset
<1>2. {} \in P
  <2>1. T \ {} = T /\ (S \ T) \cup {} = S \ T
    OBVIOUS
  <2> QED BY <2>1
<1>3. ASSUME NEW U \in SUBSET T, NEW x \in T \ U, U \in P
      PROVE  U \cup {x} \in P
  <2> DEFINE from == T \ U
             to == (S \ T) \cup (U \cup {x})
  <2>1. from \in SUBSET S /\ to \in SUBSET S
    OBVIOUS
  <2>2. x \in from /\ x \in to /\ from \ {x} = T \ (U \cup {x}) /\ to \ {x} = (S \ T) \cup U
    OBVIOUS
  <2> HIDE DEF from, to
  <2>3. IsFiniteSet(from) /\ IsFiniteSet(to) /\ IsFiniteSet(from \ {x}) /\ IsFiniteSet(to \ {x})
    BY <2>1, FS_Subset
  <2>4. Sum(f, from) = f[x] + Sum(f, from \ {x}) /\ Sum(f, to) = f[x] + Sum(f, to \ {x})
    BY <2>1, <2>2, <2>3, SumRest
  <2>5. Sum(f, from \ {x}) \in Nat /\ Sum(f, to \ {x}) \in Nat /\ f[x] \in Nat
    BY <2>1, <2>2, <2>3, SumRest
  <2>6. Sum(f, from) + Sum(f, to \ {x}) = Sum(f, from \ {x}) + Sum(f, to)
    BY <2>4, <2>5
  <2> QED BY <1>3, <2>2, <2>6 DEF from, to
<1> HIDE DEF P
<1>4. T \in P
  BY <1>1, <1>2, <1>3, EveryFinite
<1>5. Sum(f, T) + Sum(f, S \ T) = Sum(f, {}) + Sum(f, S)
  <2>1. T \ T = {} /\ (S \ T) \cup T = S
    OBVIOUS
  <2> QED BY <1>4, <2>1 DEF P
<1>6. Sum(f, {}) = 0 /\ Sum(f, S) \in Nat
  BY FS_EmptySet, SumRest
<1> QED BY <1>5, <1>6

\* Of what f has outside a set its sum says nothing.
LEMMA SumSame ==
  ASSUME NEW S, IsFiniteSet(S), NEW f, NEW g, \A x \in S : f[x] \in Nat /\ g[x] = f[x]
  PROVE  Sum(f, S) = Sum(g, S)
<1> DEFINE P == {T \in SUBSET S : Sum(f, T) = Sum(g, T)}
<1>1. {} \in P
  BY FS_EmptySet, SumRest
<1>2. ASSUME NEW T \in SUBSET S, NEW x \in S \ T, T \in P
      PROVE  T \cup {x} \in P
  <2>1. IsFiniteSet(T \cup {x}) /\ T \cup {x} \in SUBSET S /\ (T \cup {x}) \ {x} = T
    BY FS_Subset
  <2>2. Sum(f, T \cup {x}) = f[x] + Sum(f, (T \cup {x}) \ {x}) /\ Sum(g, T \cup {x}) = g[x] + Sum(g, (T \cup {x}) \ {x})
    BY <2>1, SumRest
  <2> QED BY <1>2, <2>1, <2>2
<1> HIDE DEF P
<1>3. S \in P
  BY <1>1, <1>2, EveryFinite
<1> QED BY <1>3 DEF P

(***************************************************************************)
(* The proxy's pace.  The bucket's debt, its clock less its credit, grows  *)
(* by a period with each slot that is taken, whatever clock the slot's     *)
(* thread had read; and a slot is due no earlier than the debt says, and   *)
(* no later than that by what a full bucket forgives and clocks may be     *)
(* behind.  So slots due in one stretch of time were taken in one stretch  *)
(* of debt, a period apart.                                                *)
(***************************************************************************)

Rim == MaxUpstreamTime + MaxWait
Debt == updated - credit
Spread == (Burst - 1) * Period
Forgiven == Lag + Spread

UpstreamPlace == {"idle", "token", "exchange", "unpaced", "reserve", "asleep"}

UpstreamTyped ==
  /\ upstreamNow \in 1..MaxUpstreamTime
  /\ credit \in Int /\ updated \in Int
  /\ token \in [until : Nat, given : Nat]
  /\ slots \in [0..Rim -> Nat]
  /\ upstreamCalls = [t \in Thread |-> upstreamCalls[t]]
  /\ \A t \in Thread : upstreamCalls[t].at \in UpstreamPlace

\* A thread's clock is behind by Lag at most, nobody who is due sleeps on, and a token
\* that was given for longer than the margin outlives the sleep.
ThreadSound(t) ==
  LET c == upstreamCalls[t]
      lasts(time) == c.until \in Nat /\ c.given \in Nat /\ (c.given > Margin => c.until > time) IN
  /\ c.at = "unpaced" => lasts(upstreamNow + Margin)
  /\ c.at = "reserve" => /\ c.clock \in 1..upstreamNow /\ upstreamNow <= c.clock + Lag
                         /\ lasts(c.clock + Margin)
  /\ c.at = "asleep" => c.wakes \in Nat /\ upstreamNow <= c.wakes /\ lasts(c.wakes)

\* One thread at a time looks at the token, and one that mints found it nearly out.
MinterSound(t) ==
  /\ upstreamCalls[t].at \in {"token", "exchange"} => lock = t
  /\ upstreamCalls[t].at = "exchange" => ~Upstream!Fresh

Paced == \A from \in 1..Rim : \A to \in from..Rim :
  LET due == slots[to] - slots[from - 1] IN
  \/ due <= 0
  \/ /\ Period * due <= to - from + Forgiven + Period
     /\ Period * due <= Debt - from + Forgiven + Period

UpstreamInv ==
  /\ UpstreamTyped /\ Paced
  /\ \A t \in Thread : ThreadSound(t) /\ MinterSound(t)
  /\ Upstream!TokenServes

LEMMA UpstreamConstants ==
  /\ Period \in Nat \ {0} /\ Burst \in Nat \ {0} /\ MaxWait \in Nat /\ Lag \in Nat /\ Margin \in Nat
  /\ Margin >= MaxWait + Lag /\ Lifetimes \subseteq Nat /\ MaxUpstreamTime \in Nat \ {0} /\ Rim \in Nat
  /\ Spread \in Nat /\ Forgiven \in Nat
<1>1. \A b \in Nat \ {0}, p \in Nat : (b - 1) * p \in Nat
  OBVIOUS
<1>2. Spread \in Nat
  BY <1>1, UpstreamAssumption DEF Spread
<1> QED BY <1>2, UpstreamAssumption DEF Rim, Forgiven

LEMMA FullBucket == Burst * Period = Spread + Period
<1>1. \A b \in Nat \ {0}, p \in Nat : b * p = (b - 1) * p + p
  OBVIOUS
<1> QED BY <1>1, UpstreamAssumption DEF Spread

LEMMA UpstreamStarts == Upstream!Init => UpstreamInv
<1> SUFFICES ASSUME Upstream!Init PROVE UpstreamInv
  OBVIOUS
<1> USE DEF Upstream!Init, Upstream!Idle, Upstream!NoToken
<1>1. upstreamCalls = [t \in Thread |-> [at |-> "idle"]]
  OBVIOUS
<1>2. UpstreamTyped
  <2>1. /\ upstreamNow \in 1..MaxUpstreamTime /\ credit \in Int /\ updated \in Int
        /\ token \in [until : Nat, given : Nat]
    BY UpstreamConstants
  <2>2. slots \in [0..Rim -> Nat]
    BY DEF Rim
  <2> QED BY <1>1, <2>1, <2>2 DEF UpstreamTyped, UpstreamPlace
<1>3. Paced
  <2> SUFFICES ASSUME NEW from \in 1..Rim, NEW to \in from..Rim
               PROVE  slots[to] - slots[from - 1] <= 0
    BY DEF Paced
  <2>1. to \in 0..Rim /\ from - 1 \in 0..Rim
    BY UpstreamConstants
  <2>2. slots[to] = 0 /\ slots[from - 1] = 0
    BY <2>1 DEF Rim
  <2> QED BY <2>2
<1>4. \A t \in Thread : ThreadSound(t) /\ MinterSound(t)
  BY <1>1 DEF ThreadSound, MinterSound
<1> QED BY <1>2, <1>3, <1>4 DEF UpstreamInv, Upstream!TokenServes

\* A step of one thread that leaves the bucket alone.
LEMMA ThreadSteps ==
  ASSUME UpstreamInv, NEW t \in Thread, NEW call, Upstream!Goes(t, call),
         call.at \in UpstreamPlace,
         UNCHANGED <<upstreamNow, credit, updated, slots>>,
         token' \in [until : Nat, given : Nat],
         Upstream!TokenServes', ThreadSound(t)', MinterSound(t)',
         \A u \in Thread \ {t} : upstreamCalls[u].at \in {"token", "exchange"} =>
           lock' = lock /\ token' = token
  PROVE  UpstreamInv'
<1>1. /\ upstreamCalls' = [u \in Thread |-> upstreamCalls'[u]]
      /\ upstreamCalls'[t] = call /\ \A u \in Thread \ {t} : upstreamCalls'[u] = upstreamCalls[u]
  BY DEF UpstreamInv, UpstreamTyped, Upstream!Goes
<1>2. UpstreamTyped'
  BY <1>1 DEF UpstreamInv, UpstreamTyped
<1>3. Paced'
  BY DEF UpstreamInv, Paced, Debt
<1>4. \A u \in Thread \ {t} : ThreadSound(u)' /\ MinterSound(u)'
  <2> SUFFICES ASSUME NEW u \in Thread \ {t} PROVE ThreadSound(u)' /\ MinterSound(u)'
    OBVIOUS
  <2>1. ThreadSound(u) /\ MinterSound(u) /\ upstreamCalls'[u] = upstreamCalls[u]
    BY <1>1 DEF UpstreamInv
  <2>2. ThreadSound(u)'
    BY <2>1 DEF ThreadSound
  <2>3. MinterSound(u)'
    BY <2>1 DEF MinterSound, Upstream!Fresh
  <2> QED BY <2>2, <2>3
<1> QED BY <1>2, <1>3, <1>4 DEF UpstreamInv

LEMMA AskTokenStep ==
  ASSUME UpstreamInv, NEW t \in Thread, Upstream!AskToken(t)
  PROVE  UpstreamInv'
<1> USE DEF Upstream!AskToken
<1>1. upstreamCalls'[t] = [at |-> "token"]
  BY DEF Upstream!Goes, UpstreamInv, UpstreamTyped
<1>2. ThreadSound(t)' /\ MinterSound(t)'
  BY <1>1 DEF ThreadSound, MinterSound
<1>3. \A u \in Thread : upstreamCalls[u].at \notin {"token", "exchange"}
  BY UpstreamAssumption DEF UpstreamInv, MinterSound
<1>4. Upstream!TokenServes' /\ token' \in [until : Nat, given : Nat]
  BY DEF UpstreamInv, Upstream!TokenServes, UpstreamTyped
<1> HIDE DEF Upstream!AskToken
<1>5. [at |-> "token"].at \in UpstreamPlace
  BY DEF UpstreamPlace
<1>6. Upstream!Goes(t, [at |-> "token"]) /\ UNCHANGED <<upstreamNow, credit, updated, slots>>
  BY DEF Upstream!AskToken, Upstream!bucket
<1> QED BY <1>2, <1>3, <1>4, <1>5, <1>6, ThreadSteps

\* Who holds the lock shares it with no one.
LEMMA LockIsOnes ==
  ASSUME UpstreamInv, NEW t \in Thread, upstreamCalls[t].at \in {"token", "exchange"}
  PROVE  \A u \in Thread \ {t} : upstreamCalls[u].at \notin {"token", "exchange"}
  BY DEF UpstreamInv, MinterSound

LEMMA ReuseStep ==
  ASSUME UpstreamInv, NEW t \in Thread, Upstream!Reuse(t)
  PROVE  UpstreamInv'
<1> DEFINE c == [at |-> "unpaced", until |-> token.until, given |-> token.given]
<1>1. /\ Upstream!Goes(t, c) /\ UNCHANGED <<upstreamNow, credit, updated, slots, token, needless, outdated>>
      /\ upstreamCalls[t].at = "token" /\ upstreamNow < token.until - Margin
  BY DEF Upstream!Reuse, Upstream!bucket, Upstream!Fresh
<1>2. upstreamCalls'[t] = c
  BY <1>1 DEF Upstream!Goes, UpstreamInv, UpstreamTyped
<1>3. token.until \in Nat /\ token.given \in Nat /\ upstreamNow \in Nat
  BY DEF UpstreamInv, UpstreamTyped
<1>4. ThreadSound(t)' /\ MinterSound(t)'
  BY <1>1, <1>2, <1>3, UpstreamConstants DEF ThreadSound, MinterSound
<1>5. Upstream!TokenServes' /\ token' \in [until : Nat, given : Nat]
  BY <1>1 DEF UpstreamInv, Upstream!TokenServes, UpstreamTyped
<1>6. c.at \in UpstreamPlace
  BY DEF UpstreamPlace
<1> HIDE DEF c
<1> QED BY <1>1, <1>4, <1>5, <1>6, LockIsOnes, ThreadSteps

LEMMA ExchangeStep ==
  ASSUME UpstreamInv, NEW t \in Thread, Upstream!Exchange(t)
  PROVE  UpstreamInv'
<1>1. /\ Upstream!Goes(t, [at |-> "exchange"])
      /\ UNCHANGED <<upstreamNow, credit, updated, slots, token, needless, outdated, lock>>
      /\ upstreamCalls[t].at = "token" /\ ~Upstream!Fresh
  BY DEF Upstream!Exchange, Upstream!bucket
<1>2. upstreamCalls'[t] = [at |-> "exchange"]
  BY <1>1 DEF Upstream!Goes, UpstreamInv, UpstreamTyped
<1>3. ThreadSound(t)'
  BY <1>2 DEF ThreadSound
<1>4. MinterSound(t)'
  BY <1>1, <1>2 DEF UpstreamInv, MinterSound, Upstream!Fresh
<1>5. Upstream!TokenServes' /\ token' \in [until : Nat, given : Nat]
  BY <1>1 DEF UpstreamInv, Upstream!TokenServes, UpstreamTyped
<1>6. [at |-> "exchange"].at \in UpstreamPlace
  BY DEF UpstreamPlace
<1> QED BY <1>1, <1>3, <1>4, <1>5, <1>6, LockIsOnes, ThreadSteps

LEMMA ExchangedStep ==
  ASSUME UpstreamInv, NEW t \in Thread, Upstream!Exchanged(t)
  PROVE  UpstreamInv'
<1>1. /\ UNCHANGED <<upstreamNow, credit, updated, slots, outdated>> /\ upstreamCalls[t].at = "exchange"
  BY DEF Upstream!Exchanged, Upstream!bucket
<1>2. ~Upstream!Fresh
  BY <1>1 DEF UpstreamInv, MinterSound
<1>3. CASE \E life \in Lifetimes :
          /\ token' = [until |-> upstreamNow + life, given |-> life]
          /\ Upstream!Goes(t, [at |-> "unpaced", until |-> upstreamNow + life, given |-> life])
          /\ needless' = (needless \/ Upstream!Fresh)
  <2>1. PICK life \in Lifetimes :
          /\ token' = [until |-> upstreamNow + life, given |-> life]
          /\ Upstream!Goes(t, [at |-> "unpaced", until |-> upstreamNow + life, given |-> life])
          /\ needless' = (needless \/ Upstream!Fresh)
    BY <1>3
  <2>2. life \in Nat /\ upstreamNow \in Nat /\ upstreamNow + life \in Nat
    BY UpstreamConstants DEF UpstreamInv, UpstreamTyped
  <2>3. PICK out : out = upstreamNow + life
    OBVIOUS
  <2> DEFINE c == [at |-> "unpaced", until |-> out, given |-> life]
  <2>4. Upstream!Goes(t, c) /\ token' \in [until : Nat, given : Nat]
    BY <2>1, <2>2, <2>3
  <2>5. upstreamCalls'[t] = c
    BY <2>4 DEF Upstream!Goes, UpstreamInv, UpstreamTyped
  <2>6. life > Margin => out > upstreamNow' + Margin
    BY <1>1, <2>2, <2>3, UpstreamConstants
  <2>7. ThreadSound(t)' /\ MinterSound(t)'
    BY <2>2, <2>3, <2>5, <2>6 DEF ThreadSound, MinterSound
  <2>8. Upstream!TokenServes'
    BY <1>1, <1>2, <2>1 DEF UpstreamInv, Upstream!TokenServes
  <2>9. c.at \in UpstreamPlace
    BY DEF UpstreamPlace
  <2> HIDE DEF c
  <2> QED BY <1>1, <2>4, <2>7, <2>8, <2>9, LockIsOnes, ThreadSteps
<1>4. CASE Upstream!Goes(t, Upstream!Idle) /\ UNCHANGED <<token, needless>>
  <2>1. upstreamCalls'[t] = [at |-> "idle"]
    BY <1>4 DEF Upstream!Goes, UpstreamInv, UpstreamTyped, Upstream!Idle
  <2>2. ThreadSound(t)' /\ MinterSound(t)'
    BY <2>1 DEF ThreadSound, MinterSound
  <2>3. Upstream!TokenServes' /\ token' \in [until : Nat, given : Nat]
    BY <1>1, <1>4 DEF UpstreamInv, Upstream!TokenServes, UpstreamTyped
  <2>4. Upstream!Idle.at \in UpstreamPlace
    BY DEF UpstreamPlace, Upstream!Idle
  <2> QED BY <1>1, <1>4, <2>2, <2>3, <2>4, LockIsOnes, ThreadSteps
<1> QED BY <1>3, <1>4 DEF Upstream!Exchanged

LEMMA ReadClockStep ==
  ASSUME UpstreamInv, NEW t \in Thread, Upstream!ReadClock(t)
  PROVE  UpstreamInv'
<1> DEFINE was == upstreamCalls[t]
           c == [at |-> "reserve", clock |-> upstreamNow, until |-> was.until, given |-> was.given]
<1>1. /\ Upstream!Goes(t, c) /\ was.at = "unpaced"
      /\ UNCHANGED <<upstreamNow, credit, updated, slots, token, needless, outdated, lock>>
  BY DEF Upstream!ReadClock, Upstream!bucket
<1>2. upstreamCalls'[t] = c
  BY <1>1 DEF Upstream!Goes, UpstreamInv, UpstreamTyped
<1>3. /\ upstreamNow \in Nat /\ upstreamNow \in 1..upstreamNow
      /\ was.until \in Nat /\ was.given \in Nat /\ (was.given > Margin => was.until > upstreamNow + Margin)
  BY <1>1 DEF UpstreamInv, UpstreamTyped, ThreadSound
<1>4. ThreadSound(t)' /\ MinterSound(t)'
  <2>1. upstreamNow' = upstreamNow /\ upstreamNow <= upstreamNow + Lag
    BY <1>1, <1>3, UpstreamConstants
  <2> HIDE DEF was
  <2> QED BY <1>2, <1>3, <2>1 DEF ThreadSound, MinterSound
<1>5. Upstream!TokenServes' /\ token' \in [until : Nat, given : Nat]
  BY <1>1 DEF UpstreamInv, Upstream!TokenServes, UpstreamTyped
<1>6. c.at \in UpstreamPlace
  BY DEF UpstreamPlace
<1> HIDE DEF c
<1> QED BY <1>1, <1>4, <1>5, <1>6, ThreadSteps

LEMMA CallStep ==
  ASSUME UpstreamInv, NEW t \in Thread, Upstream!Call(t)
  PROVE  UpstreamInv'
<1>1. /\ Upstream!Goes(t, Upstream!Idle) /\ upstreamCalls[t].at = "asleep"
      /\ UNCHANGED <<upstreamNow, credit, updated, slots, token, needless, lock>>
      /\ upstreamCalls[t].wakes <= upstreamNow
      /\ outdated' = (outdated \/ (upstreamCalls[t].until <= upstreamNow /\ upstreamCalls[t].given > Margin))
  BY DEF Upstream!Call, Upstream!bucket
<1>2. upstreamCalls'[t] = [at |-> "idle"]
  BY <1>1 DEF Upstream!Goes, UpstreamInv, UpstreamTyped, Upstream!Idle
<1>3. ThreadSound(t)' /\ MinterSound(t)'
  BY <1>2 DEF ThreadSound, MinterSound
<1>4. ~(upstreamCalls[t].until <= upstreamNow /\ upstreamCalls[t].given > Margin)
  <2>1. /\ upstreamCalls[t].wakes \in Nat /\ upstreamNow <= upstreamCalls[t].wakes
        /\ upstreamCalls[t].until \in Nat /\ upstreamNow \in Nat
        /\ (upstreamCalls[t].given > Margin => upstreamCalls[t].until > upstreamCalls[t].wakes)
    BY <1>1 DEF UpstreamInv, UpstreamTyped, ThreadSound
  <2> QED BY <2>1
<1>5. Upstream!TokenServes' /\ token' \in [until : Nat, given : Nat]
  BY <1>1, <1>4 DEF UpstreamInv, Upstream!TokenServes, UpstreamTyped
<1>6. Upstream!Idle.at \in UpstreamPlace
  BY DEF UpstreamPlace, Upstream!Idle
<1> QED BY <1>1, <1>3, <1>5, <1>6, ThreadSteps

LEMMA UpstreamTickStep ==
  ASSUME UpstreamInv, Upstream!Tick
  PROVE  UpstreamInv'
<1>1. /\ UNCHANGED <<credit, updated, slots, token, needless, outdated, lock, upstreamCalls>>
      /\ upstreamNow < MaxUpstreamTime /\ upstreamNow' = upstreamNow + 1
  BY DEF Upstream!Tick, Upstream!bucket
<1>2. upstreamNow \in Nat /\ upstreamNow' \in 1..MaxUpstreamTime
  BY <1>1, UpstreamConstants DEF UpstreamInv, UpstreamTyped
<1>3. UpstreamTyped'
  BY <1>1, <1>2 DEF UpstreamInv, UpstreamTyped
<1>4. Paced'
  BY <1>1 DEF UpstreamInv, Paced, Debt
<1>5. ASSUME NEW t \in Thread PROVE ThreadSound(t)' /\ MinterSound(t)'
  <2>1. /\ upstreamCalls[t].at = "reserve" => upstreamNow < upstreamCalls[t].clock + Lag
        /\ upstreamCalls[t].at = "asleep" => upstreamNow < upstreamCalls[t].wakes
        /\ upstreamCalls[t].at # "unpaced"
    BY DEF Upstream!Tick
  <2>2. ThreadSound(t) /\ MinterSound(t)
    BY DEF UpstreamInv
  <2>3. ThreadSound(t)'
    BY <1>1, <1>2, <2>1, <2>2, UpstreamConstants DEF ThreadSound
  <2>4. token.until \in Nat
    BY DEF UpstreamInv, UpstreamTyped
  <2>5. MinterSound(t)'
    BY <1>1, <1>2, <2>2, <2>4, UpstreamConstants DEF MinterSound, Upstream!Fresh
  <2> QED BY <2>3, <2>5
<1> QED BY <1>1, <1>3, <1>4, <1>5 DEF UpstreamInv, Upstream!TokenServes

\* One slot more, of a debt a period higher.
LEMMA SlotCounts ==
  ASSUME NEW P \in Nat \ {0}, NEW D \in Int, NEW from \in Int, NEW to \in Int, NEW L \in Nat,
         NEW W \in Int, NEW W2 \in Int, NEW at2 \in from..to,
         W2 >= W + P, W2 <= at2, at2 <= W2 + L,
         D <= 0 \/ (P * D <= to - from + L + P /\ P * D <= W - from + L + P)
  PROVE  P * (D + 1) <= to - from + L + P /\ P * (D + 1) <= W2 - from + L + P
<1>1. PICK x \in Int : x = P * D
  OBVIOUS
<1>2. P * (D + 1) = x + P
  BY <1>1
<1>3. D <= 0 => x <= 0
  BY <1>1
<1>4. x <= 0 \/ (x <= to - from + L + P /\ x <= W - from + L + P)
  BY <1>1, <1>3
<1> HIDE <1>1
<1> QED BY <1>2, <1>4

\* What stood of a debt stands of a higher one.
LEMMA DebtGrows ==
  ASSUME NEW P \in Int, NEW start \in Int, NEW L \in Int, NEW cost \in Int, NEW W \in Int, NEW W2 \in Int,
         W2 >= W, cost <= W - start + L + P
  PROVE  cost <= W2 - start + L + P
  OBVIOUS

\* When a slot is due, of what the bucket had and its thread's clock.
LEMMA SlotDue ==
  ASSUME NEW P \in Nat \ {0}, NEW B \in Nat, NEW lag \in Nat, NEW had \in Int, NEW before \in Int,
         NEW clock \in Int, NEW time \in clock..(clock + lag),
         NEW has \in Int, has = IF had + clock - before > B + P THEN B + P ELSE had + clock - before,
         NEW wait \in Int, wait = IF has >= P THEN 0 ELSE P - has
  PROVE  /\ clock - (has - P) >= (before - had) + P /\ clock - (has - P) <= time + wait
         /\ time + wait <= clock - (has - P) + (lag + B)
         /\ clock - has >= before - had /\ wait >= 0
  OBVIOUS

LEMMA ReserveStep ==
  ASSUME UpstreamInv, NEW t \in Thread, Upstream!Reserve(t)
  PROVE  UpstreamInv'
<1> DEFINE c == Upstream!Refilled(upstreamCalls[t].clock)
           d == Upstream!Delay(c)
           was == upstreamCalls[t]
<1>1. /\ was.at = "reserve" /\ updated' = was.clock
      /\ UNCHANGED <<upstreamNow, token, lock, needless, outdated>>
      /\ \/ /\ d > MaxWait
            /\ credit' = c /\ Upstream!Goes(t, Upstream!Idle) /\ UNCHANGED slots
         \/ /\ d <= MaxWait
            /\ credit' = c - Period
            /\ slots' = [n \in DOMAIN slots |-> IF n >= upstreamNow + d THEN slots[n] + 1 ELSE slots[n]]
            /\ Upstream!Goes(t, [at |-> "asleep", wakes |-> upstreamNow + d, until |-> was.until, given |-> was.given])
  BY DEF Upstream!Reserve
<1>2. /\ was.clock \in 1..upstreamNow /\ upstreamNow <= was.clock + Lag /\ upstreamNow \in 1..MaxUpstreamTime
      /\ was.until \in Nat /\ was.given \in Nat /\ (was.given > Margin => was.until > was.clock + Margin)
      /\ credit \in Int /\ updated \in Int /\ slots \in [0..Rim -> Nat]
      /\ \A u \in Thread : ThreadSound(u) /\ MinterSound(u)
      /\ UpstreamTyped /\ Upstream!TokenServes /\ Paced
  BY <1>1 DEF UpstreamInv, UpstreamTyped, ThreadSound
<1> HIDE DEF was
<1>3. c \in Int /\ c = IF credit + was.clock - updated > Spread + Period
                      THEN Spread + Period ELSE credit + was.clock - updated
  BY <1>2, UpstreamConstants, FullBucket DEF Upstream!Refilled, was
<1>4. d \in Int /\ d = IF c >= Period THEN 0 ELSE Period - c
  BY <1>3, UpstreamConstants DEF Upstream!Delay
<1> HIDE DEF c, d
<1>5. /\ was.clock - (c - Period) >= (updated - credit) + Period
      /\ was.clock - (c - Period) <= upstreamNow + d
      /\ upstreamNow + d <= was.clock - (c - Period) + Forgiven
      /\ was.clock - c >= updated - credit /\ d >= 0
  <2>1. was.clock \in Int /\ upstreamNow \in was.clock..(was.clock + Lag)
    BY <1>2, UpstreamConstants
  <2>2. credit \in Int /\ updated \in Int /\ c \in Int /\ d \in Int
    BY <1>2, <1>3, <1>4
  <2>3. /\ was.clock - (c - Period) >= (updated - credit) + Period /\ was.clock - (c - Period) <= upstreamNow + d
        /\ upstreamNow + d <= was.clock - (c - Period) + (Lag + Spread)
        /\ was.clock - c >= updated - credit /\ d >= 0
    <3>1. Period \in Nat \ {0} /\ Spread \in Nat /\ Lag \in Nat
      BY UpstreamConstants
    <3>2. /\ c = IF credit + was.clock - updated > Spread + Period THEN Spread + Period ELSE credit + was.clock - updated
          /\ d = IF c >= Period THEN 0 ELSE Period - c
      BY <1>3, <1>4
    <3> QED BY <2>1, <2>2, <3>1, <3>2, SlotDue
  <2> QED BY <2>3 DEF Forgiven
<1>6. ASSUME NEW call, Upstream!Goes(t, call), call.at \in UpstreamPlace \ {"token", "exchange"},
             credit' \in Int, slots' \in [0..Rim -> Nat], Paced', ThreadSound(t)'
      PROVE  UpstreamInv'
  <2>1. /\ upstreamCalls' = [u \in Thread |-> upstreamCalls'[u]]
        /\ upstreamCalls'[t] = call /\ \A u \in Thread \ {t} : upstreamCalls'[u] = upstreamCalls[u]
    BY <1>2, <1>6 DEF UpstreamTyped, Upstream!Goes
  <2>2. UpstreamTyped'
    BY <1>1, <1>2, <1>6, <2>1 DEF UpstreamTyped
  <2>3. \A u \in Thread \ {t} : ThreadSound(u)'
    BY <1>1, <1>2, <2>1 DEF ThreadSound
  <2>4. \A u \in Thread \ {t} : MinterSound(u)'
    BY <1>1, <1>2, <2>1 DEF MinterSound, Upstream!Fresh
  <2>5. MinterSound(t)'
    BY <1>6, <2>1 DEF MinterSound
  <2> QED BY <1>1, <1>2, <1>6, <2>2, <2>3, <2>4, <2>5 DEF UpstreamInv, Upstream!TokenServes
<1>7. CASE d > MaxWait
  <2>1. credit' = c /\ Upstream!Goes(t, Upstream!Idle) /\ UNCHANGED slots
    BY <1>1, <1>4, <1>7, UpstreamConstants
  <2>2. Debt' >= Debt /\ Debt \in Int /\ Debt' \in Int
    BY <1>1, <1>2, <1>3, <1>5, <2>1 DEF Debt
  <2>3. Paced'
    <3> SUFFICES ASSUME NEW from \in 1..Rim, NEW to \in from..Rim
                 PROVE  LET due == slots[to] - slots[from - 1] IN
                        \/ due <= 0
                        \/ /\ Period * due <= to - from + Forgiven + Period
                           /\ Period * due <= Debt' - from + Forgiven + Period
      BY <2>1 DEF Paced
    <3>1. PICK due : due = slots[to] - slots[from - 1]
      OBVIOUS
    <3>2. slots[to] \in Nat /\ slots[from - 1] \in Nat
      BY <1>2, UpstreamConstants
    <3>3. due \in Int /\ Period * due \in Int
      BY <3>1, <3>2, UpstreamConstants
    <3>4. \/ due <= 0
          \/ /\ Period * due <= to - from + Forgiven + Period
             /\ Period * due <= Debt - from + Forgiven + Period
      BY <1>2, <3>1 DEF Paced
    <3>5. PICK x \in Int : x = Period * due
      BY <3>3
    <3>6. \/ due <= 0
          \/ /\ x <= to - from + Forgiven + Period
             /\ x <= Debt' - from + Forgiven + Period
      <4>1. \/ due <= 0
            \/ /\ x <= to - from + Forgiven + Period
               /\ x <= Debt - from + Forgiven + Period
        BY <3>4, <3>5
      <4>2. from \in Int /\ Period \in Int /\ Forgiven \in Int
        BY UpstreamConstants
      <4>3. x <= Debt - from + Forgiven + Period => x <= Debt' - from + Forgiven + Period
        BY <2>2, <4>2, DebtGrows, Zenon
      <4> QED BY <4>1, <4>3, Zenon
    <3> QED BY <3>1, <3>5, <3>6
  <2>4. upstreamCalls'[t] = [at |-> "idle"]
    BY <1>2, <2>1 DEF Upstream!Goes, UpstreamTyped, Upstream!Idle
  <2>5. ThreadSound(t)'
    BY <2>4 DEF ThreadSound
  <2>6. Upstream!Idle.at \in UpstreamPlace \ {"token", "exchange"}
    BY DEF UpstreamPlace, Upstream!Idle
  <2>7. credit' \in Int /\ slots' \in [0..Rim -> Nat]
    BY <1>2, <1>3, <2>1
  <2> QED BY <1>6, <2>1, <2>3, <2>5, <2>6, <2>7
<1>8. CASE d <= MaxWait
  <2>1. PICK wakes : wakes = upstreamNow + d
    OBVIOUS
  <2> DEFINE call == [at |-> "asleep", wakes |-> wakes, until |-> was.until, given |-> was.given]
  <2>2. /\ credit' = c - Period /\ Upstream!Goes(t, call)
        /\ slots' = [n \in DOMAIN slots |-> IF n >= wakes THEN slots[n] + 1 ELSE slots[n]]
    BY <1>1, <1>4, <1>8, <2>1, UpstreamConstants
  <2>3. wakes \in 1..Rim
    <3>1. upstreamNow \in 1..MaxUpstreamTime /\ d \in 0..MaxWait
      BY <1>2, <1>4, <1>5, <1>8
    <3> QED BY <2>1, <3>1, UpstreamConstants DEF Rim
  <2>4. slots' \in [0..Rim -> Nat] /\ \A n \in 0..Rim : slots'[n] = IF n >= wakes THEN slots[n] + 1 ELSE slots[n]
    <3>1. DOMAIN slots = 0..Rim /\ \A n \in 0..Rim : slots[n] \in Nat /\ slots[n] + 1 \in Nat
      BY <1>2
    <3> QED BY <2>2, <3>1, Zenon
  <2>5. /\ Debt' >= Debt + Period /\ Debt \in Int /\ Debt' \in Int
        /\ Debt' <= wakes /\ wakes <= Debt' + Forgiven
    <3>1. Debt' = was.clock - (c - Period) /\ Debt = updated - credit
      BY <1>1, <2>2 DEF Debt
    <3>2. was.clock \in Int /\ c \in Int /\ updated \in Int /\ credit \in Int /\ Period \in Int
      BY <1>2, <1>3, UpstreamConstants
    <3> QED BY <1>5, <2>1, <3>1, <3>2
  <2>6. Paced'
    <3> SUFFICES ASSUME NEW from \in 1..Rim, NEW to \in from..Rim
                 PROVE  LET due == slots'[to] - slots'[from - 1] IN
                        \/ due <= 0
                        \/ /\ Period * due <= to - from + Forgiven + Period
                           /\ Period * due <= Debt' - from + Forgiven + Period
      BY DEF Paced
    <3>1. PICK due : due = slots[to] - slots[from - 1]
      OBVIOUS
    <3>2. to \in 0..Rim /\ from - 1 \in 0..Rim /\ from \in Int /\ to \in Int
      BY UpstreamConstants
    <3>3. due \in Int
      BY <1>2, <3>1, <3>2
    <3>4. \/ due <= 0
          \/ /\ Period * due <= to - from + Forgiven + Period
             /\ Period * due <= Debt - from + Forgiven + Period
      BY <1>2, <3>1 DEF Paced
    <3>5. CASE wakes \in from..to
      <4>1. slots'[to] - slots'[from - 1] = due + 1
        BY <1>2, <2>3, <2>4, <3>1, <3>2, <3>5
      <4>2. /\ Period * (due + 1) <= to - from + Forgiven + Period
            /\ Period * (due + 1) <= Debt' - from + Forgiven + Period
        BY <2>5, <3>2, <3>3, <3>4, <3>5, SlotCounts, UpstreamConstants
      <4> QED BY <4>1, <4>2
    <3>6. CASE wakes \notin from..to
      <4>1. slots'[to] - slots'[from - 1] = due
        BY <1>2, <2>3, <2>4, <3>1, <3>2, <3>6, UpstreamConstants
      <4>2. PICK x \in Int : x = Period * due
        BY <3>3, UpstreamConstants
      <4>3. \/ due <= 0
            \/ x <= to - from + Forgiven + Period /\ x <= Debt - from + Forgiven + Period
        BY <3>4, <4>2
      <4>4. \/ due <= 0
            \/ x <= to - from + Forgiven + Period /\ x <= Debt' - from + Forgiven + Period
        <5>1. Period \in Int /\ Forgiven \in Int /\ Debt' >= Debt
          BY <2>5, UpstreamConstants
        <5>2. x <= Debt - from + Forgiven + Period => x <= Debt' - from + Forgiven + Period
          BY <2>5, <3>2, <5>1, DebtGrows, Zenon
        <5> QED BY <4>3, <5>2, Zenon
      <4> QED BY <4>1, <4>2, <4>4
    <3> QED BY <3>5, <3>6
  <2>7. ThreadSound(t)'
    <3>1. upstreamCalls'[t] = call
      BY <1>2, <2>2 DEF Upstream!Goes, UpstreamTyped
    <3>2. wakes \in Nat /\ upstreamNow' <= wakes
      BY <1>1, <1>2, <1>4, <1>5, <2>1, <2>3
    <3>3. was.given > Margin => was.until > wakes
      BY <1>2, <1>4, <1>8, <2>1, UpstreamConstants
    <3> QED BY <1>2, <3>1, <3>2, <3>3 DEF ThreadSound
  <2>8. call.at \in UpstreamPlace \ {"token", "exchange"}
    BY DEF UpstreamPlace
  <2>9. credit' \in Int
    BY <1>3, <2>2, UpstreamConstants
  <2> HIDE DEF call
  <2> QED BY <1>6, <2>2, <2>4, <2>6, <2>7, <2>8, <2>9
<1> QED BY <1>4, <1>7, <1>8, UpstreamConstants

LEMMA UpstreamNext ==
  ASSUME UpstreamInv, Upstream!Next
  PROVE  UpstreamInv'
  BY AskTokenStep, ReuseStep, ExchangeStep, ExchangedStep, ReadClockStep, ReserveStep, CallStep, UpstreamTickStep
     DEF Upstream!Next

\* Periods that fit are counted by \div.
LEMMA PeriodsFit ==
  ASSUME NEW P \in Nat \ {0}, NEW x \in Nat, NEW e \in Int, P * e <= x
  PROVE  e <= x \div P
<1>1. PICK q \in Nat : q = x \div P
  OBVIOUS
<1>2. x < P * (q + 1)
  BY <1>1
<1>3. ASSUME e >= q + 1 PROVE P * e >= P * (q + 1)
  BY <1>3
<1>4. P * e \in Int /\ P * (q + 1) \in Int
  OBVIOUS
<1>5. ~(e >= q + 1)
  BY <1>2, <1>3, <1>4
<1> QED BY <1>1, <1>5

LEMMA UpstreamPromise == UpstreamInv => Upstream!Pace /\ Upstream!TokenServes
<1> SUFFICES ASSUME UpstreamInv PROVE Upstream!Pace
  BY DEF UpstreamInv
<1> SUFFICES ASSUME NEW from \in 1..Rim, NEW to \in from..Rim
             PROVE  slots[to] - slots[from - 1] <= Burst + (to - from + Lag) \div Period
  <2>1. DOMAIN slots \ {0} = 1..Rim
    BY UpstreamConstants DEF UpstreamInv, UpstreamTyped
  <2> QED BY <2>1 DEF Upstream!Pace, Upstream!Due, Rim
<1>1. PICK due : due = slots[to] - slots[from - 1]
  OBVIOUS
<1>2. due \in Int
  <2>1. to \in 0..Rim /\ from - 1 \in 0..Rim /\ slots \in [0..Rim -> Nat]
    BY UpstreamConstants DEF UpstreamInv, UpstreamTyped
  <2>2. slots[to] \in Nat /\ slots[from - 1] \in Nat
    BY <2>1
  <2> QED BY <1>1, <2>2
<1>3. due <= 0 \/ Period * due <= to - from + Forgiven + Period
  BY <1>1 DEF UpstreamInv, Paced
<1>4. to - from + Lag \in Nat /\ (to - from + Lag) \div Period \in Nat
  BY UpstreamConstants
<1>5. CASE due <= 0
  BY <1>1, <1>2, <1>4, <1>5, UpstreamConstants
<1>6. CASE Period * due <= to - from + Forgiven + Period
  <2>1. PICK x \in Int : x = Period * due
    BY <1>2, UpstreamConstants
  <2>2. PICK y \in Int : y = Burst * Period
    BY UpstreamConstants, FullBucket
  <2>3. Period * (due - Burst) = x - y
    BY <1>2, <2>1, <2>2, UpstreamConstants
  <2>4. x <= to - from + Lag + y
    BY <1>6, <2>1, <2>2, UpstreamConstants, FullBucket DEF Forgiven
  <2>5. Period * (due - Burst) <= to - from + Lag
    BY <2>1, <2>2, <2>3, <2>4, UpstreamConstants
  <2>6. due - Burst <= (to - from + Lag) \div Period
    BY <1>2, <1>4, <2>5, PeriodsFit, UpstreamConstants
  <2> QED BY <1>1, <1>2, <1>4, <2>6, UpstreamConstants
<1> QED BY <1>3, <1>5, <1>6

(***************************************************************************)
(* The session logs.  One thread at a time changes the store.  When an     *)
(* upload has chosen what to drop the rest fits: the oldest of what it     *)
(* leaves was passed over because it fitted without those before it.  That *)
(* stays so while they go, and a deletion only makes it less.              *)
(***************************************************************************)

LEMMA TotalNow == \A S : Logs!Total(S) = Sum(Logs!Sizes, S)
  BY DEF Logs!Total, Sum, Logs!MapThenSumSet, Logs!MapThenFoldSet

LEMMA TotalNext == \A S : Logs!Total(S)' = Sum(Logs!Sizes', S)
  BY DEF Logs!Total, Sum, Logs!MapThenSumSet, Logs!MapThenFoldSet

LogsPlace == {"idle", "lock", "record", "pick", "bundles", "records", "delete", "deleted"}
LogsCall == [at : LogsPlace, id : LogSession \cup {0}, bytes : Nat, when : Nat, drop : SUBSET LogSession]
LogsRecord == [bytes : Nat, at : Nat]

LogsTyped ==
  /\ logsClock \in Nat \ {0}
  /\ bundle \in [LogSession -> Nat] /\ record \in [LogSession -> LogsRecord]
  /\ logsHolder \subseteq Thread
  /\ logsCalls \in [Thread -> LogsCall]

InChange == {"record", "pick", "bundles", "records", "deleted"}

LogsLockIsHeld ==
  /\ \A t \in Thread : t \in logsHolder <=> logsCalls[t].at \in InChange
  /\ \A t, u \in logsHolder : t = u

\* What a request brings is within bounds.
CallFits(c) ==
  /\ c.at # "idle" => c.id \in LogSession
  /\ c.at \in {"lock", "record", "pick"} => c.bytes \in LogSize /\ c.bytes <= quota_bytes
  /\ c.at = "record" => c.when # 0

\* How far an upload has come.
UploadFollows(t) ==
  LET c == logsCalls[t] IN
  /\ c.at \in {"record", "pick"} => bundle[c.id] = c.bytes
  /\ c.at = "pick" => record[c.id].bytes = c.bytes /\ record[c.id].at # 0
  /\ c.at \in {"bundles", "records"} => /\ c.id \in Logs!Listed \ c.drop
                                        /\ Logs!Total(Logs!Listed \ c.drop) <= quota_bytes
  /\ c.at = "records" => c.drop # {} /\ bundle[Logs!Oldest(c.drop)] = 0

StoreFits ==
  fits /\ (\A t \in logsHolder : logsCalls[t].at = "deleted") => Logs!Total(Logs!Listed) <= quota_bytes

LogsInv ==
  /\ LogsTyped /\ LogsLockIsHeld /\ StoreFits
  /\ \A t \in Thread : CallFits(logsCalls[t]) /\ UploadFollows(t)

LEMMA SumFewer ==
  ASSUME NEW S, IsFiniteSet(S), NEW f, \A x \in S : f[x] \in Nat, NEW T \in SUBSET S
  PROVE  Sum(f, T) <= Sum(f, S) /\ Sum(f, T) \in Nat /\ Sum(f, S) \in Nat
<1>1. IsFiniteSet(T) /\ IsFiniteSet(S \ T) /\ (\A x \in T : f[x] \in Nat) /\ (\A x \in S \ T : f[x] \in Nat)
  BY FS_Subset
<1>2. Sum(f, T) \in Nat
  BY <1>1, SumRest
<1>3. Sum(f, S \ T) \in Nat
  BY <1>1, SumRest
<1>4. Sum(f, S) \in Nat
  BY SumRest
<1>5. Sum(f, S) = Sum(f, T) + Sum(f, S \ T)
  BY SumParts
<1> QED BY <1>2, <1>3, <1>4, <1>5

LEMMA SessionsFinite == \A S \in SUBSET LogSession : IsFiniteSet(S)
  BY LogsAssumption, FS_Subset

LEMMA SizesTyped ==
  ASSUME LogsTyped
  PROVE  \A s \in LogSession : Logs!Sizes[s] = record[s].bytes /\ Logs!Sizes[s] \in Nat
  BY DEF LogsTyped, LogsRecord, Logs!Sizes

\* Less listed, and what is listed as it was, is no more in total.
LEMMA TotalFewer ==
  ASSUME LogsTyped, LogsTyped', NEW S \in SUBSET LogSession, NEW T \in SUBSET S,
         \A s \in T : record'[s] = record[s]
  PROVE  Logs!Total(T)' <= Logs!Total(S) /\ Logs!Total(S) \in Nat
<1>1. \A s \in T : Logs!Sizes'[s] = Logs!Sizes[s] /\ Logs!Sizes[s] \in Nat
  BY DEF Logs!Sizes, LogsTyped, LogsRecord
<1>2. PICK f : f = Logs!Sizes
  OBVIOUS
<1>3. PICK g : g = Logs!Sizes'
  OBVIOUS
<1>4. IsFiniteSet(T) /\ IsFiniteSet(S)
  BY SessionsFinite
<1>5. Sum(f, T) = Sum(g, T)
  BY <1>1, <1>2, <1>3, <1>4, SumSame
<1>6. \A s \in S : f[s] \in Nat
  BY <1>2, SizesTyped
<1>7. Sum(f, T) <= Sum(f, S) /\ Sum(f, S) \in Nat
  BY <1>4, <1>6, SumFewer
<1>8. Logs!Total(T)' = Sum(g, T) /\ Logs!Total(S) = Sum(f, S)
  BY <1>2, <1>3, TotalNow, TotalNext
<1> QED BY <1>5, <1>7, <1>8

\* Of some sessions one is the oldest.
LEMMA OldestExists ==
  ASSUME LogsTyped, NEW S \in SUBSET LogSession, S # {}
  PROVE  /\ \E s \in S : \A r \in S \ {s} : Logs!Older(s, r)
         /\ Logs!Oldest(S) \in S
<1>1. \A s \in LogSession : s \in Nat /\ record[s].at \in Nat
  BY LogsAssumption DEF LogsTyped, LogsRecord
<1> DEFINE Times == {record[s].at : s \in S}
<1>2. PICK time \in Times : \A x \in Times : time <= x
  <2>1. Times \subseteq Nat /\ Times # {}
    BY <1>1
  <2> HIDE DEF Times
  <2> QED BY <2>1, LeastNat
<1> DEFINE First == {s \in S : record[s].at = time}
<1>3. PICK m \in First : \A s \in First : m <= s
  <2>1. First \subseteq Nat /\ First # {}
    BY <1>1, <1>2
  <2> HIDE DEF First
  <2> QED BY <2>1, LeastNat
<1>4. ASSUME NEW r \in S \ {m} PROVE Logs!Older(m, r)
  <2>1. record[m].at = time /\ record[m].at <= record[r].at /\ m \in S
    BY <1>2, <1>3
  <2>2. record[m].at = record[r].at => m <= r
    BY <1>3, <2>1
  <2> QED BY <1>1, <2>1, <2>2 DEF Logs!Older
<1>5. \E s \in S : \A r \in S \ {s} : Logs!Older(s, r)
  BY <1>3, <1>4
<1>6. Logs!Oldest(S) \in S
  BY <1>5, Zenon DEF Logs!Oldest
<1> QED BY <1>5, <1>6

LEMMA OlderIsOneWay ==
  ASSUME LogsTyped, NEW s \in LogSession, NEW r \in LogSession, Logs!Older(s, r)
  PROVE  ~Logs!Older(r, s) /\ s # r
<1>1. \A x \in LogSession : x \in Nat /\ record[x].at \in Nat
  BY LogsAssumption DEF LogsTyped, LogsRecord
<1> QED BY <1>1 DEF Logs!Older

LEMMA VictimsFit ==
  ASSUME LogsTyped, NEW keep \in Logs!Listed, record[keep].bytes <= quota_bytes
  PROVE  /\ Logs!Total(Logs!Listed \ Logs!pick_victims(keep)) <= quota_bytes
         /\ Logs!pick_victims(keep) \in SUBSET LogSession
         /\ keep \notin Logs!pick_victims(keep)
<1>1. PICK all : all = Logs!Listed
  OBVIOUS
<1>2. PICK f : f = Logs!Sizes
  OBVIOUS
<1> DEFINE Before(s) == {r \in all \ {keep} : Logs!Older(r, s)}
<1>3. PICK victims : victims = {s \in all \ {keep} : Sum(f, all) - Sum(f, Before(s)) > quota_bytes}
  OBVIOUS
<1>4. victims = Logs!pick_victims(keep)
  BY <1>1, <1>2, <1>3, TotalNow DEF Logs!pick_victims
<1>5. all \in SUBSET LogSession /\ keep \in all /\ quota_bytes \in Nat /\ IsFiniteSet(all)
  BY <1>1, SessionsFinite, LogsAssumption DEF Logs!Listed
<1>6. \A s \in all : f[s] \in Nat /\ f[s] = record[s].bytes
  BY <1>2, <1>5, SizesTyped
<1>7. victims \in SUBSET all /\ keep \notin victims
  BY <1>3
<1>8. CASE (all \ {keep}) \ victims = {}
  <2>1. all \ victims = {keep}
    BY <1>5, <1>7, <1>8
  <2>2. Sum(f, {keep}) = f[keep] + Sum(f, {keep} \ {keep})
    <3>1. IsFiniteSet({keep}) /\ \A s \in {keep} : f[s] \in Nat
      BY <1>5, <1>6, FS_Singleton
    <3> QED BY <3>1, SumRest
  <2>3. Sum(f, {keep} \ {keep}) = 0
    <3>1. {keep} \ {keep} = {}
      OBVIOUS
    <3> QED BY <3>1, FS_EmptySet, SumRest
  <2> QED BY <1>1, <1>2, <1>4, <1>5, <1>6, <1>7, <2>1, <2>2, <2>3, TotalNow
<1>9. CASE (all \ {keep}) \ victims # {}
  <2> DEFINE Rest == (all \ {keep}) \ victims
  <2>1. Rest \in SUBSET LogSession /\ Rest # {}
    BY <1>5, <1>9
  <2>2. PICK m \in Rest : \A r \in Rest \ {m} : Logs!Older(m, r)
    <3> HIDE DEF Rest
    <3> QED BY <2>1, OldestExists
  <2>3. PICK before : before = Before(m)
    OBVIOUS
  <2>4. before \subseteq victims
    <3> SUFFICES ASSUME NEW r \in before, r \notin victims PROVE FALSE
      OBVIOUS
    <3>1. r \in Rest /\ Logs!Older(r, m) /\ r \in LogSession /\ m \in LogSession
      BY <2>1, <2>3
    <3>2. r # m /\ ~Logs!Older(m, r)
      BY <3>1, OlderIsOneWay
    <3> QED BY <2>2, <3>1, <3>2
  <2>5. ~(Sum(f, all) - Sum(f, before) > quota_bytes)
    BY <1>3, <2>3
  <2>6. Sum(f, all) = Sum(f, before) + Sum(f, all \ before)
    BY <1>5, <1>6, <1>7, <2>4, SumParts
  <2>7. Sum(f, all) \in Nat /\ Sum(f, before) \in Nat /\ Sum(f, all \ before) \in Nat
    BY <1>5, <1>6, <1>7, <2>4, SumFewer
  <2>8. Sum(f, all \ victims) <= Sum(f, all \ before) /\ Sum(f, all \ victims) \in Nat
    <3>1. IsFiniteSet(all \ before) /\ (\A s \in all \ before : f[s] \in Nat)
          /\ all \ victims \in SUBSET (all \ before)
      BY <1>5, <1>6, <2>4, FS_Subset
    <3> QED BY <3>1, SumFewer
  <2>9. Sum(f, all \ victims) <= quota_bytes
    BY <1>5, <2>5, <2>6, <2>7, <2>8
  <2> QED BY <1>1, <1>2, <1>4, <1>5, <1>7, <2>9, TotalNow
<1> QED BY <1>8, <1>9

LEMMA LogsGoes ==
  ASSUME LogsTyped, NEW t \in Thread, NEW c \in LogsCall, Logs!Goes(t, c)
  PROVE  /\ logsCalls' \in [Thread -> LogsCall]
         /\ logsCalls'[t] = c /\ \A u \in Thread \ {t} : logsCalls'[u] = logsCalls[u]
  BY DEF LogsTyped, Logs!Goes

LEMMA LogsIdle == Logs!Idle \in LogsCall /\ Logs!Idle.at = "idle" /\ Logs!Idle.drop = {} /\ CallFits(Logs!Idle)
  BY DEF Logs!Idle, LogsCall, LogsPlace, CallFits

LEMMA LogsStarts == Logs!Init => LogsInv
<1> SUFFICES ASSUME Logs!Init PROVE LogsInv
  OBVIOUS
<1> USE DEF Logs!Init
<1>1. \A t \in Thread : logsCalls[t] = Logs!Idle
  OBVIOUS
<1>2. LogsTyped
  BY LogsIdle DEF LogsTyped, LogsRecord, Logs!NoRecord
<1>3. LogsLockIsHeld
  BY <1>1, LogsIdle DEF LogsLockIsHeld, InChange
<1>4. StoreFits
  <2>1. Logs!Listed = {}
    BY DEF Logs!Listed
  <2>2. Sum(Logs!Sizes, {}) = 0
    BY FS_EmptySet, SumRest
  <2>3. Logs!Total(Logs!Listed) = 0
    BY <2>1, <2>2, TotalNow
  <2> QED BY <2>3, LogsAssumption DEF StoreFits
<1>5. \A t \in Thread : CallFits(logsCalls[t]) /\ UploadFollows(t)
  BY <1>1, LogsIdle DEF UploadFollows
<1> QED BY <1>2, <1>3, <1>4, <1>5 DEF LogsInv

\* What the store has is what it had.
LEMMA StoreSame ==
  ASSUME UNCHANGED <<bundle, record>>
  PROVE  /\ Logs!Listed' = Logs!Listed
         /\ \A S : Logs!Total(S)' = Logs!Total(S) /\ Logs!Oldest(S)' = Logs!Oldest(S)
<1>1. Logs!Sizes' = Logs!Sizes
  BY DEF Logs!Sizes
<1> QED BY <1>1, TotalNow, TotalNext DEF Logs!Listed, Logs!Oldest, Logs!Older

\* A step of a thread outside the lock that leaves the store alone.
LEMMA LogsOutside ==
  ASSUME LogsInv, NEW t \in Thread, NEW c \in LogsCall, Logs!Goes(t, c),
         logsCalls[t].at \notin InChange, c.at \notin InChange, CallFits(c),
         UNCHANGED <<logsClock, bundle, record, logsHolder, fits>>
  PROVE  LogsInv'
<1>1. /\ logsCalls' \in [Thread -> LogsCall]
      /\ logsCalls'[t] = c /\ \A u \in Thread \ {t} : logsCalls'[u] = logsCalls[u]
  BY LogsGoes DEF LogsInv
<1>2. LogsTyped'
  BY <1>1 DEF LogsInv, LogsTyped
<1>3. LogsLockIsHeld'
  BY <1>1 DEF LogsInv, LogsLockIsHeld
<1>4. Logs!Listed' = Logs!Listed /\ (\A S : Logs!Total(S)' = Logs!Total(S)) /\ (\A S : Logs!Oldest(S)' = Logs!Oldest(S))
  BY StoreSame
<1>5. StoreFits'
  <2>1. t \notin logsHolder
    BY DEF LogsInv, LogsLockIsHeld
  <2>2. \A u \in logsHolder : logsCalls'[u] = logsCalls[u]
    BY <1>1, <2>1 DEF LogsInv, LogsTyped
  <2> QED BY <1>4, <2>2 DEF LogsInv, StoreFits
<1>6. \A u \in Thread : CallFits(logsCalls[u])' /\ UploadFollows(u)'
  <2> SUFFICES ASSUME NEW u \in Thread PROVE CallFits(logsCalls'[u]) /\ UploadFollows(u)'
    BY DEF CallFits
  <2>1. CASE u = t
    BY <1>1, <2>1 DEF UploadFollows, InChange
  <2>2. CASE u # t
    <3>1. logsCalls'[u] = logsCalls[u] /\ CallFits(logsCalls[u]) /\ UploadFollows(u)
      BY <1>1, <2>2 DEF LogsInv
    <3> QED BY <1>4, <3>1 DEF UploadFollows
  <2> QED BY <2>1, <2>2
<1> QED BY <1>2, <1>3, <1>5, <1>6 DEF LogsInv

\* A step of the thread that changes the store, or begins or ends to: no other is
\* within the lock, so it says all there is to say.
LEMMA LogsInside ==
  ASSUME LogsInv, NEW t \in Thread, NEW c \in LogsCall, Logs!Goes(t, c),
         logsHolder \in SUBSET {t}, LogsTyped', logsHolder' = (IF c.at \in InChange THEN {t} ELSE {}),
         CallFits(c), UploadFollows(t)', StoreFits'
  PROVE  LogsInv'
<1>1. logsCalls'[t] = c /\ \A u \in Thread \ {t} : logsCalls'[u] = logsCalls[u]
  BY LogsGoes DEF LogsInv
<1>2. \A u \in Thread \ {t} : logsCalls[u].at \notin InChange
  BY DEF LogsInv, LogsLockIsHeld
<1>3. LogsLockIsHeld'
  BY <1>1, <1>2 DEF LogsLockIsHeld
<1>4. \A u \in Thread : CallFits(logsCalls'[u]) /\ UploadFollows(u)'
  <2> SUFFICES ASSUME NEW u \in Thread, u # t PROVE CallFits(logsCalls'[u]) /\ UploadFollows(u)'
    BY <1>1
  <2>1. logsCalls'[u] = logsCalls[u] /\ CallFits(logsCalls[u])
    BY <1>1 DEF LogsInv
  <2>2. UploadFollows(u)'
    BY <1>2, <2>1 DEF UploadFollows, InChange
  <2> QED BY <2>1, <2>2
<1>5. \A u \in Thread : CallFits(logsCalls[u])' /\ UploadFollows(u)'
  BY <1>4 DEF CallFits
<1> QED BY <1>3, <1>5 DEF LogsInv

\* Who is within the lock is alone there.
LEMMA LogsAlone ==
  ASSUME LogsInv, NEW t \in Thread, logsCalls[t].at \in InChange
  PROVE  logsHolder = {t}
  BY DEF LogsInv, LogsLockIsHeld

LEMMA ArriveStep ==
  ASSUME LogsInv, NEW t \in Thread, NEW s \in LogSession, NEW n \in LogSize, Logs!Arrive(t, s, n)
  PROVE  LogsInv'
<1> DEFINE c == [Logs!Idle EXCEPT !.at = "lock", !.id = s, !.bytes = n]
<1>1. c \in LogsCall /\ c.at = "lock" /\ c.id = s /\ c.bytes = n
  BY LogsIdle, LogsAssumption DEF LogsCall, LogsPlace
<1>2. CallFits(c)
  BY <1>1 DEF CallFits, Logs!Arrive
<1>3. /\ Logs!Goes(t, c) /\ logsCalls[t].at = "idle" /\ UNCHANGED <<logsClock, bundle, record, logsHolder, fits>>
  BY DEF Logs!Arrive
<1> HIDE DEF c
<1>4. c.at \notin InChange /\ logsCalls[t].at \notin InChange
  BY <1>1, <1>3 DEF InChange
<1> QED BY <1>1, <1>2, <1>3, <1>4, LogsOutside

LEMMA BeginDeleteStep ==
  ASSUME LogsInv, NEW t \in Thread, NEW s \in LogSession, Logs!BeginDelete(t, s)
  PROVE  LogsInv'
<1> DEFINE c == [Logs!Idle EXCEPT !.at = "delete", !.id = s]
<1>1. c \in LogsCall /\ c.at = "delete" /\ c.id = s
  BY LogsIdle DEF LogsCall, LogsPlace
<1>2. CallFits(c)
  BY <1>1 DEF CallFits
<1>3. /\ Logs!Goes(t, c) /\ logsCalls[t].at = "idle" /\ UNCHANGED <<logsClock, bundle, record, logsHolder, fits>>
  BY DEF Logs!BeginDelete
<1> HIDE DEF c
<1>4. c.at \notin InChange /\ logsCalls[t].at \notin InChange
  BY <1>1, <1>3 DEF InChange
<1> QED BY <1>1, <1>2, <1>3, <1>4, LogsOutside

LEMMA PutBundleStep ==
  ASSUME LogsInv, NEW t \in Thread, Logs!PutBundle(t)
  PROVE  LogsInv'
<1>1. PICK was \in LogsCall : was = logsCalls[t]
  BY DEF LogsInv, LogsTyped
<1> DEFINE c == [was EXCEPT !.at = "record", !.when = logsClock]
<1>2. /\ was.at = "lock" /\ logsHolder = {} /\ logsHolder' = {t} /\ Logs!Goes(t, c)
      /\ bundle' = [bundle EXCEPT ![was.id] = was.bytes] /\ UNCHANGED <<logsClock, record, fits>>
  BY <1>1 DEF Logs!PutBundle
<1>3. CallFits(was) /\ was.id \in LogSession /\ was.bytes \in LogSize /\ was.bytes \in Nat
  BY <1>1, <1>2, LogsAssumption DEF LogsInv, CallFits
<1>4. c \in LogsCall /\ c.at = "record" /\ c.id = was.id /\ c.bytes = was.bytes /\ c.when = logsClock
  BY <1>1 DEF LogsCall, LogsPlace, LogsInv, LogsTyped
<1>5. CallFits(c)
  BY <1>2, <1>3, <1>4 DEF CallFits, LogsInv, LogsTyped
<1> HIDE DEF c
<1>6. logsCalls' \in [Thread -> LogsCall] /\ logsCalls'[t] = c
  BY <1>2, <1>4, LogsGoes DEF LogsInv
<1>7. bundle' \in [LogSession -> Nat] /\ bundle'[was.id] = was.bytes
  BY <1>2, <1>3 DEF LogsInv, LogsTyped
<1>8. LogsTyped'
  BY <1>2, <1>6, <1>7 DEF LogsInv, LogsTyped
<1>9. UploadFollows(t)'
  BY <1>4, <1>6, <1>7 DEF UploadFollows
<1>10. StoreFits'
  BY <1>2, <1>4, <1>6 DEF StoreFits
<1>11. c.at \in InChange
  BY <1>4 DEF InChange
<1> QED BY <1>2, <1>4, <1>5, <1>8, <1>9, <1>10, <1>11, LogsInside

LEMMA PutRecordStep ==
  ASSUME LogsInv, NEW t \in Thread, Logs!PutRecord(t)
  PROVE  LogsInv'
<1>1. PICK was \in LogsCall : was = logsCalls[t]
  BY DEF LogsInv, LogsTyped
<1> DEFINE c == [was EXCEPT !.at = "pick"]
<1>2. /\ was.at = "record" /\ Logs!Goes(t, c)
      /\ record' = [record EXCEPT ![was.id] = [bytes |-> was.bytes, at |-> was.when]]
      /\ UNCHANGED <<logsClock, bundle, logsHolder, fits>>
  BY <1>1 DEF Logs!PutRecord
<1>3. /\ CallFits(was) /\ was.id \in LogSession /\ was.bytes \in LogSize /\ was.bytes \in Nat
      /\ was.when \in Nat /\ was.when # 0 /\ bundle[was.id] = was.bytes
  BY <1>1, <1>2, LogsAssumption DEF LogsInv, CallFits, LogsCall, UploadFollows
<1>4. c \in LogsCall /\ c.at = "pick" /\ c.id = was.id /\ c.bytes = was.bytes
  BY <1>1 DEF LogsCall, LogsPlace
<1>5. CallFits(c)
  BY <1>2, <1>3, <1>4 DEF CallFits
<1> HIDE DEF c
<1>6. logsCalls' \in [Thread -> LogsCall] /\ logsCalls'[t] = c
  BY <1>2, <1>4, LogsGoes DEF LogsInv
<1>7. record' \in [LogSession -> LogsRecord] /\ record'[was.id] = [bytes |-> was.bytes, at |-> was.when]
  <2>1. [bytes |-> was.bytes, at |-> was.when] \in LogsRecord
    BY <1>3 DEF LogsRecord
  <2> QED BY <1>2, <1>3, <2>1 DEF LogsInv, LogsTyped
<1>8. LogsTyped'
  BY <1>2, <1>6, <1>7 DEF LogsInv, LogsTyped
<1>9. UploadFollows(t)'
  BY <1>2, <1>3, <1>4, <1>6, <1>7 DEF UploadFollows
<1>10. c.at \in InChange /\ logsHolder = {t}
  BY <1>1, <1>2, <1>4, LogsAlone DEF InChange
<1>11. StoreFits'
  BY <1>2, <1>4, <1>6, <1>10 DEF StoreFits
<1> QED BY <1>2, <1>4, <1>5, <1>8, <1>9, <1>10, <1>11, LogsInside

LEMMA PickStep ==
  ASSUME LogsInv, NEW t \in Thread, Logs!Pick(t)
  PROVE  LogsInv'
<1>1. PICK was \in LogsCall : was = logsCalls[t]
  BY DEF LogsInv, LogsTyped
<1>2. PICK victims : victims = Logs!pick_victims(was.id)
  OBVIOUS
<1> DEFINE c == [was EXCEPT !.at = "bundles", !.drop = victims]
<1>3. /\ was.at = "pick" /\ Logs!Goes(t, c) /\ UNCHANGED <<logsClock, bundle, record, logsHolder, fits>>
  BY <1>1, <1>2 DEF Logs!Pick
<1>4. /\ CallFits(was) /\ was.id \in LogSession /\ was.bytes \in LogSize /\ was.bytes \in Nat \ {0}
      /\ was.bytes <= quota_bytes /\ bundle[was.id] = was.bytes
      /\ record[was.id].bytes = was.bytes /\ record[was.id].at # 0
  BY <1>1, <1>3, LogsAssumption DEF LogsInv, CallFits, UploadFollows
<1>5. was.id \in Logs!Listed
  BY <1>4 DEF Logs!Listed, Logs!NoRecord
<1>6. /\ Logs!Total(Logs!Listed \ victims) <= quota_bytes
      /\ victims \in SUBSET LogSession /\ was.id \notin victims
  BY <1>2, <1>4, <1>5, VictimsFit DEF LogsInv
<1>7. c \in LogsCall /\ c.at = "bundles" /\ c.id = was.id /\ c.drop = victims
  BY <1>1, <1>6 DEF LogsCall, LogsPlace
<1>8. CallFits(c)
  BY <1>4, <1>7 DEF CallFits
<1> HIDE DEF c
<1>9. logsCalls' \in [Thread -> LogsCall] /\ logsCalls'[t] = c
  BY <1>3, <1>7, LogsGoes DEF LogsInv
<1>10. LogsTyped'
  BY <1>3, <1>9 DEF LogsInv, LogsTyped
<1>11. PICK kept : kept = Logs!Listed \ victims
  OBVIOUS
<1>12. /\ Logs!Listed' = Logs!Listed /\ Logs!Total(kept)' = Logs!Total(kept)
  BY <1>3, StoreSame
<1>13. UploadFollows(t)'
  <2>1. was.id \in Logs!Listed' \ c.drop
    BY <1>5, <1>6, <1>7, <1>12
  <2> QED BY <1>6, <1>7, <1>9, <1>11, <1>12, <2>1 DEF UploadFollows
<1>14. c.at \in InChange /\ logsHolder = {t}
  BY <1>1, <1>3, <1>7, LogsAlone DEF InChange
<1>15. StoreFits'
  BY <1>3, <1>7, <1>9, <1>14 DEF StoreFits
<1> QED BY <1>3, <1>7, <1>8, <1>10, <1>13, <1>14, <1>15, LogsInside

LEMMA DropBundleStep ==
  ASSUME LogsInv, NEW t \in Thread, Logs!DropBundle(t)
  PROVE  LogsInv'
<1>1. PICK was \in LogsCall : was = logsCalls[t]
  BY DEF LogsInv, LogsTyped
<1>2. was.at = "bundles" /\ UNCHANGED <<logsClock, record>> /\ logsHolder = {t}
  BY <1>1, LogsAlone DEF Logs!DropBundle, InChange
<1>3. /\ CallFits(was) /\ was.id \in LogSession /\ was.id \in Logs!Listed \ was.drop
      /\ Logs!Total(Logs!Listed \ was.drop) <= quota_bytes
  BY <1>1, <1>2 DEF LogsInv, CallFits, UploadFollows
<1>4. CASE was.drop = {}
  <2>1. Logs!Goes(t, Logs!Idle) /\ logsHolder' = {} /\ UNCHANGED bundle
    BY <1>1, <1>4 DEF Logs!DropBundle
  <2>2. logsCalls' \in [Thread -> LogsCall] /\ logsCalls'[t] = Logs!Idle
    BY <2>1, LogsGoes, LogsIdle DEF LogsInv
  <2>3. LogsTyped'
    BY <1>2, <2>1, <2>2 DEF LogsInv, LogsTyped
  <2>4. UploadFollows(t)'
    BY <2>2, LogsIdle DEF UploadFollows
  <2>5. StoreFits'
    <3>1. PICK all : all = Logs!Listed
      OBVIOUS
    <3>2. Logs!Listed' = all /\ Logs!Sizes' = Logs!Sizes /\ all \ was.drop = all
      BY <1>2, <1>4, <2>1, <3>1 DEF Logs!Listed, Logs!Sizes
    <3>3. Logs!Total(all)' = Logs!Total(all) /\ Logs!Total(all) <= quota_bytes
      BY <1>3, <3>1, <3>2, TotalNow, TotalNext
    <3> QED BY <3>2, <3>3 DEF StoreFits
  <2>6. Logs!Idle.at \notin InChange
    BY LogsIdle DEF InChange
  <2> QED BY <1>2, <2>1, <2>3, <2>4, <2>5, <2>6, LogsIdle, LogsInside
<1>5. CASE was.drop # {}
  <2> DEFINE c == [was EXCEPT !.at = "records"]
  <2>1. PICK victim : victim = Logs!Oldest(was.drop)
    OBVIOUS
  <2>2. /\ Logs!Goes(t, c) /\ bundle' = [bundle EXCEPT ![victim] = 0] /\ UNCHANGED logsHolder
    BY <1>1, <1>5, <2>1 DEF Logs!DropBundle
  <2>3. victim \in was.drop /\ was.drop \in SUBSET LogSession
    BY <1>1, <1>5, <2>1, OldestExists DEF LogsInv, LogsCall
  <2>4. c \in LogsCall /\ c.at = "records" /\ c.id = was.id /\ c.drop = was.drop
    BY <1>1 DEF LogsCall, LogsPlace
  <2>5. CallFits(c)
    BY <1>3, <2>4 DEF CallFits
  <2> HIDE DEF c
  <2>6. logsCalls' \in [Thread -> LogsCall] /\ logsCalls'[t] = c
    BY <2>2, <2>4, LogsGoes DEF LogsInv
  <2>7. bundle' \in [LogSession -> Nat] /\ bundle'[victim] = 0 /\ \A s \in LogSession \ {victim} : bundle'[s] = bundle[s]
    BY <2>2, <2>3 DEF LogsInv, LogsTyped
  <2>8. LogsTyped'
    BY <1>2, <2>2, <2>6, <2>7 DEF LogsInv, LogsTyped
  <2>9. PICK kept : kept = Logs!Listed \ was.drop
    OBVIOUS
  <2>10. Logs!Listed' \ was.drop = kept
    BY <1>2, <2>3, <2>7, <2>9 DEF Logs!Listed
  <2>11. Logs!Total(kept)' = Logs!Total(kept) /\ Logs!Oldest(was.drop)' = victim
    <3>1. Logs!Sizes' = Logs!Sizes
      BY <1>2 DEF Logs!Sizes
    <3> QED BY <1>2, <2>1, <3>1, TotalNow, TotalNext DEF Logs!Oldest, Logs!Older
  <2>12. UploadFollows(t)'
    BY <1>3, <1>5, <2>1, <2>4, <2>6, <2>7, <2>9, <2>10, <2>11 DEF UploadFollows
  <2>13. StoreFits'
    BY <1>2, <2>2, <2>4, <2>6 DEF StoreFits
  <2>14. c.at \in InChange
    BY <2>4 DEF InChange
  <2> QED BY <1>2, <2>2, <2>4, <2>5, <2>8, <2>12, <2>13, <2>14, LogsInside
<1> QED BY <1>4, <1>5

LEMMA DropRecordStep ==
  ASSUME LogsInv, NEW t \in Thread, Logs!DropRecord(t)
  PROVE  LogsInv'
<1>1. PICK was \in LogsCall : was = logsCalls[t]
  BY DEF LogsInv, LogsTyped
<1>2. PICK victim : victim = Logs!Oldest(was.drop)
  OBVIOUS
<1> DEFINE c == [was EXCEPT !.at = "bundles", !.drop = was.drop \ {victim}]
<1>3. /\ was.at = "records" /\ UNCHANGED <<logsClock, bundle, logsHolder, fits>> /\ logsHolder = {t}
      /\ record' = [record EXCEPT ![victim] = Logs!NoRecord]
  BY <1>1, <1>2, LogsAlone DEF Logs!DropRecord, InChange
<1>4. Logs!Goes(t, c)
  <2>1. Logs!Goes(t, [was EXCEPT !.at = "bundles", !.drop = @ \ {victim}])
    BY <1>1, <1>2 DEF Logs!DropRecord
  <2> QED BY <2>1
<1>5. /\ CallFits(was) /\ was.id \in LogSession /\ was.id \in Logs!Listed \ was.drop
      /\ Logs!Total(Logs!Listed \ was.drop) <= quota_bytes /\ was.drop # {} /\ bundle[victim] = 0
  BY <1>1, <1>2, <1>3 DEF LogsInv, CallFits, UploadFollows
<1>6. victim \in was.drop /\ was.drop \in SUBSET LogSession
  BY <1>1, <1>2, <1>5, OldestExists DEF LogsInv, LogsCall
<1>7. c \in LogsCall /\ c.at = "bundles" /\ c.id = was.id /\ c.drop = was.drop \ {victim}
  BY <1>1, <1>6 DEF LogsCall, LogsPlace
<1>8. CallFits(c)
  BY <1>5, <1>7 DEF CallFits
<1> HIDE DEF c
<1>9. logsCalls' \in [Thread -> LogsCall] /\ logsCalls'[t] = c
  BY <1>4, <1>7, LogsGoes DEF LogsInv
<1>10. /\ record' \in [LogSession -> LogsRecord] /\ record'[victim] = Logs!NoRecord
       /\ \A s \in LogSession \ {victim} : record'[s] = record[s]
  <2>1. Logs!NoRecord \in LogsRecord
    BY DEF Logs!NoRecord, LogsRecord
  <2> QED BY <1>3, <1>6, <2>1 DEF LogsInv, LogsTyped
<1>11. LogsTyped'
  BY <1>3, <1>9, <1>10 DEF LogsInv, LogsTyped
<1>12. PICK kept : kept = Logs!Listed \ was.drop
  OBVIOUS
<1>13. Logs!Listed' = Logs!Listed /\ victim \notin Logs!Listed /\ Logs!Listed \ c.drop = kept
  BY <1>3, <1>5, <1>6, <1>7, <1>10, <1>12 DEF Logs!Listed
<1>14. Logs!Total(kept)' <= Logs!Total(kept) /\ Logs!Total(kept) \in Nat
  <2>1. kept \in SUBSET LogSession /\ victim \notin kept
    BY <1>12, <1>13 DEF Logs!Listed
  <2> QED BY <1>10, <1>11, <2>1, TotalFewer DEF LogsInv
<1>15. Logs!Total(kept)' <= quota_bytes
  <2>1. Logs!Total(kept)' \in Nat
    <3>1. PICK g : g = Logs!Sizes'
      OBVIOUS
    <3>2. kept \in SUBSET LogSession /\ \A s \in kept : g[s] \in Nat
      BY <1>11, <1>12, <3>1 DEF Logs!Listed, Logs!Sizes, LogsTyped, LogsRecord
    <3>3. Sum(g, kept) \in Nat
      BY <3>2, SessionsFinite, SumRest
    <3> QED BY <3>1, <3>3, TotalNext
  <2> QED BY <1>5, <1>12, <1>14, <2>1, LogsAssumption
<1>16. UploadFollows(t)'
  BY <1>5, <1>7, <1>9, <1>12, <1>13, <1>15 DEF UploadFollows
<1>17. c.at \in InChange
  BY <1>7 DEF InChange
<1>18. StoreFits'
  BY <1>3, <1>7, <1>9 DEF StoreFits
<1> QED BY <1>3, <1>4, <1>7, <1>8, <1>11, <1>16, <1>17, <1>18, LogsInside

\* With less listed, and the rest as it was, what fitted fits.
LEMMA FitsStill ==
  ASSUME LogsInv, LogsTyped', Logs!Total(Logs!Listed) <= quota_bytes, Logs!Listed' \subseteq Logs!Listed,
         \A s \in Logs!Listed' : record'[s] = record[s]
  PROVE  Logs!Total(Logs!Listed)' <= quota_bytes
<1>1. PICK all : all = Logs!Listed
  OBVIOUS
<1>2. PICK less : less = Logs!Listed'
  OBVIOUS
<1>3. all \in SUBSET LogSession /\ less \in SUBSET all
  BY <1>1, <1>2 DEF Logs!Listed
<1>4. Logs!Total(less)' <= Logs!Total(all) /\ Logs!Total(all) \in Nat
  BY <1>2, <1>3, TotalFewer DEF LogsInv
<1>5. PICK g : g = Logs!Sizes'
  OBVIOUS
<1>6. Sum(g, less) \in Nat
  <2>1. \A s \in less : g[s] \in Nat
    BY <1>3, <1>5 DEF Logs!Sizes, LogsTyped, LogsRecord
  <2> QED BY <1>3, <2>1, SessionsFinite, SumRest
<1>7. Logs!Total(less)' = Sum(g, less)
  BY <1>5, TotalNext
<1>8. Logs!Total(less)' <= quota_bytes
  BY <1>1, <1>4, <1>6, <1>7, LogsAssumption
<1> QED BY <1>2, <1>8

LEMMA LogsDeleteStep ==
  ASSUME LogsInv, NEW t \in Thread, Logs!Delete(t)
  PROVE  LogsInv'
<1>1. PICK was \in LogsCall : was = logsCalls[t]
  BY DEF LogsInv, LogsTyped
<1> DEFINE c == [was EXCEPT !.at = "deleted"]
<1>2. /\ was.at = "delete" /\ logsHolder = {} /\ logsHolder' = {t} /\ Logs!Goes(t, c)
      /\ bundle' = [bundle EXCEPT ![was.id] = 0] /\ UNCHANGED <<logsClock, record, fits>>
  BY <1>1 DEF Logs!Delete
<1>3. CallFits(was) /\ was.id \in LogSession
  BY <1>1, <1>2 DEF LogsInv, CallFits
<1>4. c \in LogsCall /\ c.at = "deleted" /\ c.id = was.id
  BY <1>1 DEF LogsCall, LogsPlace
<1>5. CallFits(c)
  BY <1>3, <1>4 DEF CallFits
<1> HIDE DEF c
<1>6. logsCalls' \in [Thread -> LogsCall] /\ logsCalls'[t] = c
  BY <1>2, <1>4, LogsGoes DEF LogsInv
<1>7. bundle' \in [LogSession -> Nat] /\ \A s \in LogSession : bundle'[s] \in {bundle[s], 0}
  BY <1>2, <1>3 DEF LogsInv, LogsTyped
<1>8. LogsTyped'
  BY <1>2, <1>6, <1>7 DEF LogsInv, LogsTyped
<1>9. UploadFollows(t)'
  BY <1>4, <1>6 DEF UploadFollows
<1>10. StoreFits'
  <2>1. Logs!Listed' \subseteq Logs!Listed
    BY <1>2, <1>7 DEF Logs!Listed
  <2>2. fits => Logs!Total(Logs!Listed) <= quota_bytes
    BY <1>2 DEF LogsInv, StoreFits
  <2>3. fits => Logs!Total(Logs!Listed)' <= quota_bytes
    BY <1>2, <1>8, <2>1, <2>2, FitsStill
  <2> QED BY <1>2, <2>3 DEF StoreFits
<1>11. c.at \in InChange
  BY <1>4 DEF InChange
<1> QED BY <1>2, <1>4, <1>5, <1>8, <1>9, <1>10, <1>11, LogsInside

LEMMA DeletedStep ==
  ASSUME LogsInv, NEW t \in Thread, Logs!Deleted(t)
  PROVE  LogsInv'
<1>1. PICK was \in LogsCall : was = logsCalls[t]
  BY DEF LogsInv, LogsTyped
<1>2. /\ was.at = "deleted" /\ logsHolder = {t} /\ logsHolder' = {} /\ Logs!Goes(t, Logs!Idle)
      /\ record' = [record EXCEPT ![was.id] = Logs!NoRecord] /\ UNCHANGED <<logsClock, bundle, fits>>
  BY <1>1, LogsAlone DEF Logs!Deleted, InChange
<1>3. CallFits(was) /\ was.id \in LogSession
  BY <1>1, <1>2 DEF LogsInv, CallFits
<1>4. logsCalls' \in [Thread -> LogsCall] /\ logsCalls'[t] = Logs!Idle
  BY <1>2, LogsGoes, LogsIdle DEF LogsInv
<1>5. /\ record' \in [LogSession -> LogsRecord] /\ record'[was.id] = Logs!NoRecord
      /\ \A s \in LogSession \ {was.id} : record'[s] = record[s]
  <2>1. Logs!NoRecord \in LogsRecord
    BY DEF Logs!NoRecord, LogsRecord
  <2> QED BY <1>2, <1>3, <2>1 DEF LogsInv, LogsTyped
<1>6. LogsTyped'
  BY <1>2, <1>4, <1>5 DEF LogsInv, LogsTyped
<1>7. UploadFollows(t)'
  BY <1>4, LogsIdle DEF UploadFollows
<1>8. StoreFits'
  <2>1. Logs!Listed' \subseteq Logs!Listed /\ \A s \in Logs!Listed' : record'[s] = record[s]
    BY <1>2, <1>5 DEF Logs!Listed
  <2>2. fits => Logs!Total(Logs!Listed) <= quota_bytes
    BY <1>1, <1>2 DEF LogsInv, StoreFits
  <2>3. fits => Logs!Total(Logs!Listed)' <= quota_bytes
    BY <1>6, <2>1, <2>2, FitsStill
  <2> QED BY <1>2, <2>3 DEF StoreFits
<1>9. Logs!Idle.at \notin InChange
  BY LogsIdle DEF InChange
<1> QED BY <1>2, <1>6, <1>7, <1>8, <1>9, LogsIdle, LogsInside

LEMMA LogsTickStep ==
  ASSUME LogsInv, Logs!Tick
  PROVE  LogsInv'
<1>1. logsClock' = logsClock + 1 /\ UNCHANGED <<bundle, record, logsHolder, logsCalls, fits>>
  BY DEF Logs!Tick
<1>2. /\ Logs!Listed' = Logs!Listed
      /\ \A S : Logs!Total(S)' = Logs!Total(S) /\ Logs!Oldest(S)' = Logs!Oldest(S)
  BY <1>1, StoreSame
<1>3. LogsTyped' /\ LogsLockIsHeld'
  BY <1>1 DEF LogsInv, LogsTyped, LogsLockIsHeld
<1>4. StoreFits'
  BY <1>1, <1>2 DEF LogsInv, StoreFits
<1>5. \A t \in Thread : CallFits(logsCalls[t])' /\ UploadFollows(t)'
  BY <1>1, <1>2 DEF LogsInv, CallFits, UploadFollows
<1> QED BY <1>3, <1>4, <1>5 DEF LogsInv

LEMMA LogsStopStep ==
  ASSUME LogsInv, Logs!Stop
  PROVE  LogsInv'
<1>1. /\ UNCHANGED <<logsClock, bundle, record>> /\ logsHolder' = {}
      /\ logsCalls' = [t \in Thread |-> Logs!Idle]
      /\ fits' = (fits /\ \A t \in logsHolder : logsCalls[t].at = "deleted")
  BY DEF Logs!Stop
<1>2. \A t \in Thread : logsCalls'[t] = Logs!Idle
  BY <1>1
<1>3. LogsTyped'
  BY <1>1, LogsIdle DEF LogsInv, LogsTyped
<1>4. LogsLockIsHeld'
  BY <1>1, <1>2, LogsIdle DEF LogsLockIsHeld, InChange
<1>5. StoreFits'
  BY <1>1, StoreSame DEF LogsInv, StoreFits
<1>6. \A t \in Thread : CallFits(logsCalls[t])' /\ UploadFollows(t)'
  BY <1>2, LogsIdle DEF CallFits, UploadFollows
<1> QED BY <1>3, <1>4, <1>5, <1>6 DEF LogsInv

LEMMA LogsNext ==
  ASSUME LogsInv, Logs!Next
  PROVE  LogsInv'
  BY ArriveStep, BeginDeleteStep, PutBundleStep, PutRecordStep, PickStep, DropBundleStep, DropRecordStep,
     LogsDeleteStep, DeletedStep, LogsTickStep, LogsStopStep DEF Logs!Next

LEMMA LogsPromise == LogsInv => Logs!QuotaHolds
<1> SUFFICES ASSUME LogsInv PROVE Logs!QuotaHolds
  OBVIOUS
<1>1. logsHolder = {} /\ fits => Logs!Total(Logs!Listed) <= quota_bytes
  BY DEF LogsInv, StoreFits
<1>2. \A t \in Thread : logsCalls[t].at = "bundles" => logsCalls[t].id \in Logs!Listed
  BY DEF LogsInv, UploadFollows
<1> QED BY <1>1, <1>2 DEF Logs!QuotaHolds

(***************************************************************************)
(* The planner.  A revision's numbers read as one, so that a choice among  *)
(* finitely many dumps has a best one, and that is what a title keeps.     *)
(***************************************************************************)

\* Numbers read up to the k-th.
RevNumber == [n : Nat, tens : Nat]
Reads(g, r, k) == g = [i \in 0..k |-> IF i = 0 THEN 0 ELSE g[i - 1] * r[i].tens + r[i].n]

LEMMA ReadOn ==
  ASSUME NEW x \in Nat, NEW r \in RevNumber
  PROVE  x * r.tens + r.n \in Nat
<1>1. r.tens \in Nat /\ r.n \in Nat
  BY DEF RevNumber
<1> QED BY <1>1

LEMMA ReadsExist ==
  ASSUME NEW r \in Seq(RevNumber)
  PROVE  \E g : Reads(g, r, Len(r))
<1> DEFINE N == {k \in Nat : \E g : Reads(g, r, k)}
           next(x, i) == x * r[i].tens + r[i].n
<1>1. 0 \in N
  <2> DEFINE g == [i \in 0..0 |-> 0]
  <2>1. \A i \in 0..0 : i = 0
    OBVIOUS
  <2>2. g = [i \in 0..0 |-> IF i = 0 THEN 0 ELSE g[i - 1] * r[i].tens + r[i].n]
    BY <2>1
  <2> HIDE DEF g
  <2> QED BY <2>2 DEF Reads
<1>2. ASSUME NEW k \in Nat, k \in N
      PROVE  k + 1 \in N
  <2>1. PICK g : Reads(g, r, k)
    BY <1>2
  <2>2. \A i \in 0..k : g[i] = IF i = 0 THEN 0 ELSE next(g[i - 1], i)
    BY <2>1 DEF Reads
  <2> HIDE DEF next
  <2> DEFINE h == [i \in 0..(k + 1) |-> IF i <= k THEN g[i] ELSE next(g[k], k + 1)]
  <2>3. \A i \in 0..k : h[i] = g[i]
    OBVIOUS
  <2>4. h[k + 1] = next(g[k], k + 1)
    OBVIOUS
  <2>5. ASSUME NEW i \in 0..(k + 1) PROVE h[i] = IF i = 0 THEN 0 ELSE next(h[i - 1], i)
    <3> HIDE DEF h
    <3>1. CASE i = k + 1
      <4>1. i # 0 /\ i - 1 = k /\ k \in 0..k
        BY <3>1
      <4> QED BY <2>3, <2>4, <3>1, <4>1
    <3>2. CASE i \in 0..k
      <4>1. i # 0 => i - 1 \in 0..k
        BY <3>2
      <4> QED BY <2>2, <2>3, <3>2, <4>1
    <3> QED BY <3>1, <3>2
  <2>6. h = [i \in 0..(k + 1) |-> h[i]]
    OBVIOUS
  <2> HIDE DEF h
  <2>7. h = [i \in 0..(k + 1) |-> IF i = 0 THEN 0 ELSE next(h[i - 1], i)]
    BY <2>5, <2>6
  <2>8. Reads(h, r, k + 1)
    BY <2>7 DEF Reads, next
  <2> QED BY <2>8
<1>3. Nat \subseteq N
  <2> HIDE DEF N
  <2> QED BY <1>1, <1>2, EveryNat
<1> QED BY <1>3

LEMMA ReadIsNat ==
  ASSUME NEW r \in Seq(RevNumber), NEW g, Reads(g, r, Len(r))
  PROVE  /\ g[Len(r)] \in Nat
         /\ g[0] = 0
         /\ Len(r) = 1 => g[1] = r[1].n
<1> DEFINE N == {k \in Nat : k <= Len(r) => g[k] \in Nat}
<1>1. \A i \in 0..Len(r) : g[i] = IF i = 0 THEN 0 ELSE g[i - 1] * r[i].tens + r[i].n
  BY DEF Reads
<1>2. g[0] = 0 /\ 0 \in N
  BY <1>1
<1>3. ASSUME NEW k \in Nat, k \in N
      PROVE  k + 1 \in N
  <2> SUFFICES ASSUME k + 1 <= Len(r) PROVE g[k + 1] \in Nat
    OBVIOUS
  <2>1. k + 1 \in 0..Len(r) /\ k + 1 # 0 /\ (k + 1) - 1 = k
    OBVIOUS
  <2>2. g[k + 1] = g[k] * r[k + 1].tens + r[k + 1].n
    BY <1>1, <2>1
  <2>3. g[k] \in Nat /\ r[k + 1] \in RevNumber
    BY <1>3
  <2> QED BY <2>2, <2>3, ReadOn
<1>4. Nat \subseteq N
  <2> HIDE DEF N
  <2> QED BY <1>2, <1>3, EveryNat
<1>5. ASSUME Len(r) = 1 PROVE g[1] = r[1].n
  <2>1. g[1] = g[0] * r[1].tens + r[1].n
    BY <1>1, <1>5
  <2>2. r[1] \in RevNumber
    BY <1>5
  <2>3. r[1].tens \in Nat /\ r[1].n \in Nat
    BY <2>2 DEF RevNumber
  <2> QED BY <1>2, <2>1, <2>3
<1> QED BY <1>2, <1>4, <1>5

LEMMA NoneOrOne ==
  ASSUME NEW k \in Nat, k <= 1
  PROVE  k = 0 \/ k = 1
  OBVIOUS

LEMMA RevIsNat ==
  ASSUME NEW n, n.nums \in Seq(RevNumber)
  PROVE  /\ Planner!RevKey(n) \in Nat
         /\ Len(n.nums) <= 1 => Planner!RevKey(n) = Planner!Number(n)
<1> DEFINE P(g) == g = [i \in 0..Len(n.nums) |-> IF i = 0 THEN 0 ELSE g[i - 1] * n.nums[i].tens + n.nums[i].n]
           read == CHOOSE g : P(g)
<1>1. \E g : P(g)
  BY ReadsExist DEF Reads
<1>2. P(read)
  <2> HIDE DEF P
  <2> QED BY <1>1
<1>3. Planner!RevKey(n) = read[Len(n.nums)]
  BY DEF Planner!RevKey
<1> HIDE DEF read
<1>4. Reads(read, n.nums, Len(n.nums))
  BY <1>2 DEF Reads
<1>5. /\ read[Len(n.nums)] \in Nat /\ read[0] = 0
      /\ Len(n.nums) = 1 => read[1] = n.nums[1].n
  BY <1>4, ReadIsNat
<1>6. ASSUME Len(n.nums) <= 1 PROVE Planner!RevKey(n) = Planner!Number(n)
  <2> PICK r \in Seq(RevNumber) : r = n.nums
    OBVIOUS
  <2>0. Len(r) = 0 \/ Len(r) = 1
    <3>1. Len(r) <= 1
      BY <1>6, Zenon
    <3>2. Len(r) \in Nat
      BY LenProperties
    <3> QED BY <3>1, <3>2, NoneOrOne, Zenon
  <2>1. CASE Len(r) = 0
    <3>1. n.nums = <<>>
      BY <2>1, EmptySeq
    <3> QED BY <1>3, <1>5, <2>1, <3>1 DEF Planner!Number
  <2>2. CASE Len(r) = 1
    <3>1. n.nums # <<>>
      <4>1. Len(<<>>) # 1
        OBVIOUS
      <4> QED BY <2>2, <4>1, Zenon
    <3>2. Planner!Number(n) = n.nums[1].n
      BY <3>1 DEF Planner!Number
    <3>3. read[Len(n.nums)] = read[1]
      BY <2>2
    <3> QED BY <1>3, <1>5, <2>2, <3>2, <3>3
  <2> QED BY <2>0, <2>1, <2>2
<1> QED BY <1>3, <1>5, <1>6

LEMMA RankIsNat ==
  ASSUME NEW n \in DumpName
  PROVE  /\ Planner!RegionIdx(n) \in Nat /\ Planner!RevKey(n) \in Nat /\ n.tags \in Nat
         /\ Len(n.nums) <= 1 => Planner!RevKey(n) = Planner!Number(n)
<1>1. n.region \in {"usa", "world", "eur", "jpn"} /\ n.nums \in Seq(RevNumber) /\ n.tags \in Nat
  BY PlannerAssumption DEF RevNumber
<1>2. \E i \in DOMAIN Planner!Region : Planner!Region[i] = n.region
  <2>1. DOMAIN Planner!Region = 1..4
    BY DEF Planner!Region
  <2>2. /\ Planner!Region[1] = "usa" /\ Planner!Region[2] = "world"
        /\ Planner!Region[3] = "eur" /\ Planner!Region[4] = "jpn"
    BY DEF Planner!Region
  <2>3. 1 \in 1..4 /\ 2 \in 1..4 /\ 3 \in 1..4 /\ 4 \in 1..4
    OBVIOUS
  <2> QED BY <1>1, <2>1, <2>2, <2>3
<1>3. Planner!RegionIdx(n) \in DOMAIN Planner!Region
  BY <1>2, Zenon DEF Planner!RegionIdx
<1>4. DOMAIN Planner!Region \subseteq Nat
  BY DEF Planner!Region
<1> QED BY <1>1, <1>3, <1>4, RevIsNat

\* Of dumps that are compared one is not beaten.
LEMMA BestExists ==
  ASSUME NEW S \in SUBSET DumpName, S # {}
  PROVE  \E n \in S : \A o \in S : ~Planner!Better(o, n)
<1> DEFINE Best(T, n) == n \in T /\ \A o \in T : ~Planner!Better(o, n)
           P == {T \in SUBSET S : T = {} \/ \E n \in T : Best(T, n)}
<1>1. IsFiniteSet(S)
  BY PlannerAssumption, FS_Subset
<1>2. {} \in P
  OBVIOUS
<1>3. ASSUME NEW T \in SUBSET S, NEW x \in S \ T, T \in P
      PROVE  T \cup {x} \in P
  <2>1. \A n \in S : Planner!RegionIdx(n) \in Nat /\ Planner!RevKey(n) \in Nat /\ n.tags \in Nat
    BY RankIsNat
  <2>2. ~Planner!Better(x, x)
    BY <2>1 DEF Planner!Better
  <2>3. CASE T = {}
    BY <2>2, <2>3
  <2>4. CASE T # {}
    <3>1. PICK m \in T : Best(T, m)
      BY <1>3, <2>4
    <3>2. CASE ~Planner!Better(x, m)
      BY <3>1, <3>2
    <3>3. CASE Planner!Better(x, m)
      <4>1. \A o \in T : ~Planner!Better(o, x)
        <5> SUFFICES ASSUME NEW o \in T, Planner!Better(o, x) PROVE Planner!Better(o, m)
          BY <3>1
        <5>1. /\ Planner!RegionIdx(o) \in Nat /\ Planner!RevKey(o) \in Nat /\ o.tags \in Nat
              /\ Planner!RegionIdx(x) \in Nat /\ Planner!RevKey(x) \in Nat /\ x.tags \in Nat
              /\ Planner!RegionIdx(m) \in Nat /\ Planner!RevKey(m) \in Nat /\ m.tags \in Nat
          BY <2>1
        <5> QED BY <3>3, <5>1 DEF Planner!Better
      <4>2. Best(T \cup {x}, x)
        BY <2>2, <4>1
      <4> QED BY <4>2
    <3> QED BY <3>2, <3>3
  <2> QED BY <2>3, <2>4
<1> HIDE DEF P
<1>4. S \in P
  BY <1>1, <1>2, <1>3, EveryFinite
<1> QED BY <1>4 DEF P

LEMMA SelectIs ==
  ASSUME NEW group \in SUBSET DumpName
  PROVE  \/ Planner!Retail(group) = {} /\ Planner!select_1g1r(group) = {}
         \/ \E k \in Planner!Retail(group) : /\ Planner!select_1g1r(group) = {k}
                                             /\ \A o \in Planner!Retail(group) : ~Planner!Better(o, k)
<1>1. CASE Planner!Retail(group) = {}
  BY <1>1 DEF Planner!select_1g1r
<1>2. CASE Planner!Retail(group) # {}
  <2> DEFINE Best(n) == \A o \in Planner!Retail(group) : ~Planner!Better(o, n)
             k == CHOOSE n \in Planner!Retail(group) : Best(n)
  <2>1. Planner!Retail(group) \in SUBSET DumpName
    BY DEF Planner!Retail
  <2>2. \E n \in Planner!Retail(group) : Best(n)
    BY <1>2, <2>1, BestExists
  <2>3. k \in Planner!Retail(group) /\ Best(k)
    <3> HIDE DEF Best
    <3> QED BY <2>2
  <2>4. Planner!select_1g1r(group) = {k}
    BY <1>2 DEF Planner!select_1g1r
  <2> HIDE DEF k
  <2> QED BY <2>3, <2>4
<1> QED BY <1>1, <1>2

LEMMA DstIsSomewhere ==
  \A platform, n, ext : Planner!Dst(platform, n, ext) # Planner!Nowhere
  BY DEF Planner!Dst, Planner!Nowhere

Filed(platform, n, action, target) ==
  Planner!Op(action, platform, n, Planner!Dst(platform, n, IF target # "" THEN target ELSE n.ext))

\* What files a dump, among what has a place; and what an attachment is.
Moves == {"hardlink", "convert", "extract"}
PlacedOf(plan) == {op \in plan : Planner!Files(op)}
Attaches(op) == op.action = "attach"

\* What a group's plan files is of what is kept of it, and all of that with an id.
LEMMA GroupPlan ==
  ASSUME NEW platform, NEW group, NEW kept, NEW action, NEW target,
         action \in Moves
  PROVE  LET plan == Planner!PlanGroup(platform, group, kept, action, target) IN
         /\ \A op \in plan : op.dst # Planner!Nowhere =>
              \E n \in kept : n.valid /\ op = Filed(platform, n, action, target)
         /\ \A n \in kept : n.valid => Filed(platform, n, action, target) \in plan
         /\ \A op \in plan : ~Attaches(op)
<1>1. \A n : Planner!Refer(platform, n).dst = Planner!Nowhere /\ Planner!Refer(platform, n).action = "manual"
  BY DEF Planner!Refer, Planner!Op
<1>2. \A n : /\ Planner!Op("skip", platform, n, Planner!Nowhere).dst = Planner!Nowhere
             /\ Planner!Op("skip", platform, n, Planner!Nowhere).action = "skip"
  BY DEF Planner!Op
<1>3. \A n, dst : Planner!Op(action, platform, n, dst).action = action
  BY DEF Planner!Op
<1> HIDE DEF Planner!Op, Planner!Dst, Planner!Refer
<1>4. CASE kept = {}
  BY <1>2, <1>4 DEF Planner!PlanGroup, Attaches
<1>5. CASE kept # {}
  <2> DEFINE filed(n) == Planner!Op(action, platform, n, Planner!Dst(platform, n, IF target # "" THEN target ELSE n.ext))
  <2>1. Planner!PlanGroup(platform, group, kept, action, target) =
          {IF n.valid THEN filed(n) ELSE Planner!Refer(platform, n) : n \in kept}
    BY <1>5 DEF Planner!PlanGroup, Planner!None
  <2>2. \A n : filed(n).action = action
    BY <1>3
  <2> HIDE DEF filed
  <2>3. \A op \in Planner!PlanGroup(platform, group, kept, action, target) :
          \E n \in kept : op = IF n.valid THEN filed(n) ELSE Planner!Refer(platform, n)
    BY <2>1
  <2>4. \A op \in Planner!PlanGroup(platform, group, kept, action, target) :
          op.dst # Planner!Nowhere => \E n \in kept : n.valid /\ op = filed(n)
    BY <1>1, <2>3
  <2>5. \A n \in kept : n.valid => filed(n) \in Planner!PlanGroup(platform, group, kept, action, target)
    BY <2>1
  <2>6. \A op \in Planner!PlanGroup(platform, group, kept, action, target) : ~Attaches(op)
    BY <1>1, <2>2, <2>3 DEF Attaches, Moves
  <2> QED BY <2>4, <2>5, <2>6 DEF filed, Filed
<1> QED BY <1>4, <1>5

\* A set's plan: of each title that has a retail dump one is filed, the best of them.
SetPlan(names, platform, action, target) ==
  UNION {Planner!PlanGroup(platform, g, Planner!select_1g1r(g), action, target) : g \in Planner!Groups(names)}

LEMMA FiledIs ==
  ASSUME NEW platform, NEW n, NEW action, NEW target
  PROVE  /\ Filed(platform, n, action, target).from = n
         /\ Filed(platform, n, action, target).platform = platform
         /\ Filed(platform, n, action, target).action = action
         /\ Filed(platform, n, action, target).dst # Planner!Nowhere
<1>1. \A dst : /\ Planner!Op(action, platform, n, dst).from = n
               /\ Planner!Op(action, platform, n, dst).platform = platform
               /\ Planner!Op(action, platform, n, dst).action = action
               /\ Planner!Op(action, platform, n, dst).dst = dst
  BY DEF Planner!Op
<1>2. PICK ext : Filed(platform, n, action, target) = Planner!Op(action, platform, n, Planner!Dst(platform, n, ext))
  BY DEF Filed
<1> QED BY <1>1, <1>2, DstIsSomewhere

LEMMA SetPlanIs ==
  ASSUME NEW names \in SUBSET DumpName, NEW platform, NEW action, NEW target,
         action \in Moves
  PROVE  /\ \A op \in SetPlan(names, platform, action, target) : op.dst # Planner!Nowhere =>
              \E g \in Planner!Groups(names) : \E k \in Planner!Retail(g) :
                /\ Planner!select_1g1r(g) = {k} /\ op = Filed(platform, k, action, target)
         /\ \A g \in Planner!Groups(names) : \A k \in Planner!Retail(g) :
              Planner!select_1g1r(g) = {k} => Filed(platform, k, action, target) \in SetPlan(names, platform, action, target)
         /\ \A op \in SetPlan(names, platform, action, target) : ~Attaches(op)
<1>1. ASSUME NEW g \in Planner!Groups(names)
      PROVE  LET plan == Planner!PlanGroup(platform, g, Planner!select_1g1r(g), action, target) IN
             /\ \A op \in plan : op.dst # Planner!Nowhere =>
                  \E k \in Planner!Retail(g) : Planner!select_1g1r(g) = {k} /\ op = Filed(platform, k, action, target)
             /\ \A k \in Planner!Retail(g) : Planner!select_1g1r(g) = {k} => Filed(platform, k, action, target) \in plan
             /\ \A op \in plan : ~Attaches(op)
  <2>1. g \in SUBSET DumpName
    BY DEF Planner!Groups
  <2>2. \/ Planner!Retail(g) = {} /\ Planner!select_1g1r(g) = {}
        \/ \E k \in Planner!Retail(g) : Planner!select_1g1r(g) = {k}
    BY <2>1, SelectIs
  <2>3. \A k \in Planner!Retail(g) : k.valid
    BY DEF Planner!Retail
  <2>4. PICK ks : ks = Planner!select_1g1r(g)
    OBVIOUS
  <2>5. LET plan == Planner!PlanGroup(platform, g, ks, action, target) IN
        /\ \A op \in plan : op.dst # Planner!Nowhere => \E n \in ks : n.valid /\ op = Filed(platform, n, action, target)
        /\ \A n \in ks : n.valid => Filed(platform, n, action, target) \in plan
        /\ \A op \in plan : ~Attaches(op)
    BY GroupPlan
  <2> QED BY <2>2, <2>3, <2>4, <2>5
<1>2. \A op \in SetPlan(names, platform, action, target) : \E g \in Planner!Groups(names) :
        op \in Planner!PlanGroup(platform, g, Planner!select_1g1r(g), action, target)
  BY DEF SetPlan
<1>3. \A g \in Planner!Groups(names) :
        Planner!PlanGroup(platform, g, Planner!select_1g1r(g), action, target) \subseteq SetPlan(names, platform, action, target)
  BY DEF SetPlan
<1> QED BY <1>1, <1>2, <1>3

LEMMA SourceNames ==
  ASSUME NEW s \in Planner!Source
  PROVE  s.files \in SUBSET DumpName
<1>1. s.files \in UNION {Planner!kSubset(k, DumpName) : k \in 0..MaxFiles}
  BY DEF Planner!Source
<1> QED BY <1>1 DEF Planner!kSubset

LEMMA VerdictNamed ==
  ASSUME NEW s \in Planner!Source, NEW v \in Planner!Verdicts(s)
  PROVE  v.handler = "manual" \/ v.platform # ""
<1> DEFINE Fine(w) == w.handler = "manual" \/ w.platform # ""
           Some(p) == p # ""
<1>1. /\ \A handler, platform : Some(platform) => Fine(Planner!Verdict(handler, platform))
      /\ Fine(Planner!Verdict("wiiu_decrypted", "wiiu")) /\ Fine(Planner!Verdict("wiiu_nus", "wiiu"))
  BY DEF Planner!Verdict
<1>2. Fine(Planner!Manual)
  BY DEF Planner!Manual, Planner!Verdict
<1>3. \A names : \A p \in Planner!Winners(names) : Some(p)
  BY DEF Planner!Winners, Planner!Named, Planner!None
<1> HIDE DEF Fine
<1>4. \A handler, platforms : (\A p \in platforms : Some(p)) => \A w \in Planner!Of(handler, platforms) : Fine(w)
  BY <1>1, <1>2 DEF Planner!Of
<1>5. Fine(v)
  <2>1. CASE ~s.is_dir
    <3>1. CASE Planner!platform_for_ext(s.name.ext) # ""
      <4>1. Some(Planner!platform_for_ext(s.name.ext)) /\ v = Planner!Verdict("single_file", Planner!platform_for_ext(s.name.ext))
        BY <2>1, <3>1 DEF Planner!Verdicts, Planner!None
      <4> HIDE DEF Some
      <4> QED BY <1>1, <4>1
    <3>2. CASE Planner!platform_for_ext(s.name.ext) = ""
      <4>1. Planner!Verdicts(s) = Planner!Of("single_archive", Planner!Winners(s.members))
        BY <2>1, <3>2 DEF Planner!Verdicts, Planner!None
      <4> HIDE DEF Some
      <4> QED BY <1>3, <1>4, <4>1
    <3> QED BY <3>1, <3>2
  <2>2. CASE s.is_dir /\ s.name.slug \in DOMAIN DatDirs
    <3>1. v = Planner!Verdict(DatDirs[s.name.slug][1], DatDirs[s.name.slug][2])
      BY <2>2 DEF Planner!Verdicts
    <3>2. Some(DatDirs[s.name.slug][2])
      BY <2>2, PlannerAssumption
    <3> HIDE DEF Some
    <3> QED BY <1>1, <3>1, <3>2
  <2>3. CASE s.is_dir /\ s.name.slug \notin DOMAIN DatDirs
    <3> DEFINE scene == IF Planner!Winners(s.files) # {} THEN Planner!Winners(s.files) ELSE Planner!Winners(s.members)
               by(p) == IF Planner!Votes(s.files, p) = 1 /\ MinSet > 1 THEN "single_file" ELSE "no_intro_set"
               made == UNION {Planner!Of(by(p), {p}) : p \in Planner!Winners(s.files)}
               left == IF Planner!Winners(s.files) = {} THEN {Planner!Manual} ELSE {}
               set == made \cup left
    <3>1. \/ Planner!Verdicts(s) = {Planner!Verdict("wiiu_decrypted", "wiiu")}
          \/ Planner!Verdicts(s) = {Planner!Verdict("wiiu_nus", "wiiu")}
          \/ Planner!Verdicts(s) = Planner!Of("scene_archive", scene)
          \/ Planner!Verdicts(s) = set
      <4>1. CASE s.marks = "decrypted"
        BY <2>3, <4>1 DEF Planner!Verdicts
      <4>2. CASE s.marks = "nus"
        BY <2>3, <4>2 DEF Planner!Verdicts
      <4>3. CASE s.marks = "" /\ Planner!IsScene(s)
        BY <2>3, <4>3 DEF Planner!Verdicts, Planner!None
      <4>4. CASE s.marks # "decrypted" /\ s.marks # "nus" /\ ~(s.marks = "" /\ Planner!IsScene(s))
        BY <2>3, <4>4 DEF Planner!Verdicts, Planner!None
      <4> QED BY <4>1, <4>2, <4>3, <4>4
    <3> HIDE DEF Some
    <3>2. \A w \in Planner!Of("scene_archive", scene) : Fine(w)
      BY <1>3, <1>4
    <3>3. \A w \in set : Fine(w)
      <4>1. ASSUME NEW p \in Planner!Winners(s.files), NEW handler PROVE \A w \in Planner!Of(handler, {p}) : Fine(w)
        <5>1. \A q \in {p} : Some(q)
          BY <1>3
        <5> QED BY <1>4, <5>1
      <4>2. \A w \in set : w = Planner!Manual \/ \E p \in Planner!Winners(s.files) : \E handler : w \in Planner!Of(handler, {p})
        <5> HIDE DEF by
        <5>1. \A w \in made :
                \E p \in Planner!Winners(s.files) : w \in Planner!Of(by(p), {p})
          OBVIOUS
        <5>2. \A w \in left : w = Planner!Manual
          OBVIOUS
        <5> HIDE DEF made, left
        <5>3. \A w \in set : w \in made \/ w \in left
          OBVIOUS
        <5> QED BY <5>1, <5>2, <5>3
      <4> QED BY <1>2, <4>1, <4>2
    <3> HIDE DEF set, scene
    <3> QED BY <1>1, <3>1, <3>2, <3>3
  <2> QED BY <2>1, <2>2, <2>3
<1> QED BY <1>5 DEF Fine

LEMMA DumpsCounted == \A S : Planner!Cardinality(S) = Cardinality(S)
  BY DEF Planner!Cardinality, Cardinality, Planner!IsFiniteSet, IsFiniteSet

\* FiledRight, of a plan.
Right(s, v, plan) ==
  /\ \A op \in plan : op.dst # Planner!Nowhere => op.platform # "" /\ (v.handler # "scene_archive" => op.from.valid)
  /\ v.handler \in {"scene_archive", "single_archive"} /\ s.name.role # "" => PlacedOf(plan) = {}
  /\ \A op \in plan : op.action = "attach" => op.platform \in Planner!Extras

\* OneEach, of a plan for these names.
NotBeaten(k, n) ==
  /\ Planner!RegionIdx(k) <= Planner!RegionIdx(n)
  /\ k.region = n.region /\ Len(k.nums) <= 1 /\ Len(n.nums) <= 1 => Planner!Number(n) <= Planner!Number(k)
  /\ k.region = n.region /\ k.nums = n.nums => k.tags <= n.tags

Each(names, plan) ==
  \A g \in Planner!Groups(names) :
    LET kept == {op.from : op \in PlacedOf(plan)} \cap g IN
    /\ Cardinality(kept) = IF Planner!Retail(g) = {} THEN 0 ELSE 1
    /\ \A k \in kept, n \in Planner!Retail(g) : NotBeaten(k, n)

\* Titles do not share a dump.
LEMMA GroupsApart ==
  ASSUME NEW names, NEW g \in Planner!Groups(names), NEW h \in Planner!Groups(names),
         NEW n \in g, NEW m \in h, n.slug = m.slug
  PROVE  g = h
  BY DEF Planner!Groups

LEMMA SetIsRight ==
  ASSUME NEW names \in SUBSET DumpName, NEW platform, platform # Planner!None, NEW action, NEW target, NEW s, NEW v,
         action \in Moves, v.handler \in Planner!Sets
  PROVE  Right(s, v, SetPlan(names, platform, action, target))
<1>1. PICK plan : plan = SetPlan(names, platform, action, target)
  OBVIOUS
<1>2. \A op \in plan : op.dst # Planner!Nowhere =>
        \E g \in Planner!Groups(names) : \E k \in Planner!Retail(g) :
          Planner!select_1g1r(g) = {k} /\ op = Filed(platform, k, action, target)
  BY <1>1, SetPlanIs
<1>2a. \A op \in plan : ~Attaches(op)
  BY <1>1, SetPlanIs
<1>3. ASSUME NEW op \in plan, op.dst # Planner!Nowhere PROVE op.platform # Planner!None /\ op.from.valid
  <2>1. op.platform = platform /\ \E g : op.from \in Planner!Retail(g)
    BY <1>2, <1>3, FiledIs
  <2> QED BY <2>1 DEF Planner!Retail
<1>4. v.handler \notin {"scene_archive", "single_archive"}
  BY DEF Planner!Sets
<1> QED BY <1>1, <1>2a, <1>3, <1>4 DEF Right, Attaches, Planner!None

LEMMA SetIsEach ==
  ASSUME NEW names \in SUBSET DumpName, NEW platform, NEW action, NEW target, action \in Moves
  PROVE  Each(names, SetPlan(names, platform, action, target))
<1>2. PICK plan : plan = SetPlan(names, platform, action, target)
  OBVIOUS
<1>3. PICK placed : placed = PlacedOf(plan)
  OBVIOUS
<1>4. /\ \A op \in placed : \E g \in Planner!Groups(names) : \E k \in Planner!Retail(g) :
           /\ Planner!select_1g1r(g) = {k} /\ op = Filed(platform, k, action, target)
      /\ \A g \in Planner!Groups(names) : \A k \in Planner!Retail(g) :
           Planner!select_1g1r(g) = {k} => Filed(platform, k, action, target) \in placed
  <2>1. \A k : Planner!Files(Filed(platform, k, action, target))
    BY FiledIs DEF Planner!Files, Moves
  <2>2. \A op \in placed : op \in plan /\ op.dst # Planner!Nowhere
    BY <1>3 DEF PlacedOf, Planner!Files
  <2>3. \A op \in plan : Planner!Files(op) => op \in placed
    BY <1>3 DEF PlacedOf
  <2> QED BY <1>2, <2>1, <2>2, <2>3, SetPlanIs
<1>5. ASSUME NEW g \in Planner!Groups(names), NEW kept, kept = {op.from : op \in placed} \cap g
      PROVE  /\ Cardinality(kept) = IF Planner!Retail(g) = {} THEN 0 ELSE 1
             /\ \A k \in kept, n \in Planner!Retail(g) : NotBeaten(k, n)
  <2>1. g \in SUBSET DumpName /\ Planner!Retail(g) \in SUBSET g
    BY DEF Planner!Groups, Planner!Retail
  <2>2. ASSUME NEW k \in kept PROVE k \in Planner!Retail(g) /\ Planner!select_1g1r(g) = {k}
    <3>1. PICK op \in placed : op.from = k /\ k \in g
      BY <1>5
    <3>2. PICK h \in Planner!Groups(names) : \E j \in Planner!Retail(h) :
            Planner!select_1g1r(h) = {j} /\ op = Filed(platform, j, action, target)
      BY <1>4
    <3>3. PICK j \in Planner!Retail(h) : Planner!select_1g1r(h) = {j} /\ op = Filed(platform, j, action, target)
      BY <3>2
    <3>4. j = k /\ j \in h
      BY <3>1, <3>3, FiledIs DEF Planner!Retail
    <3>5. g = h
      BY <3>1, <3>4, GroupsApart
    <3> QED BY <3>3, <3>4, <3>5
  <2>3. CASE Planner!Retail(g) = {}
    <3>1. kept = {}
      BY <2>2, <2>3
    <3> QED BY <2>3, <3>1, FS_EmptySet
  <2>4. CASE Planner!Retail(g) # {}
    <3>1. PICK k0 \in Planner!Retail(g) : /\ Planner!select_1g1r(g) = {k0}
                                          /\ \A o \in Planner!Retail(g) : ~Planner!Better(o, k0)
      BY <2>1, <2>4, SelectIs
    <3>2. Filed(platform, k0, action, target) \in placed /\ Filed(platform, k0, action, target).from = k0
      BY <1>4, <3>1, FiledIs
    <3>3. k0 \in kept
      BY <1>5, <2>1, <3>2
    <3>4. kept = {k0}
      BY <2>2, <3>1, <3>3
    <3>5. Cardinality(kept) = 1
      BY <3>4, FS_Singleton
    <3>6. ASSUME NEW n \in Planner!Retail(g)
          PROVE  NotBeaten(k0, n)
      <4>1. n \in DumpName /\ k0 \in DumpName
        BY <2>1
      <4>2. /\ Planner!RegionIdx(n) \in Nat /\ n.tags \in Nat /\ Planner!RegionIdx(k0) \in Nat /\ k0.tags \in Nat
            /\ Planner!RevKey(n) \in Nat /\ Planner!RevKey(k0) \in Nat
            /\ Len(n.nums) <= 1 => Planner!RevKey(n) = Planner!Number(n)
            /\ Len(k0.nums) <= 1 => Planner!RevKey(k0) = Planner!Number(k0)
        BY <4>1, RankIsNat
      <4>3. k0.region = n.region => Planner!RegionIdx(k0) = Planner!RegionIdx(n)
        BY DEF Planner!RegionIdx
      <4>4. k0.nums = n.nums => Planner!RevKey(k0) = Planner!RevKey(n)
        BY DEF Planner!RevKey
      <4>5. ~Planner!Better(n, k0)
        BY <3>1
      <4> DEFINE few == Len(n.nums) <= 1 /\ Len(k0.nums) <= 1
                 alike == k0.region = n.region
                 same == k0.nums = n.nums
      <4>6. /\ few => Planner!RevKey(n) = Planner!Number(n) /\ Planner!RevKey(k0) = Planner!Number(k0)
            /\ alike => Planner!RegionIdx(k0) = Planner!RegionIdx(n)
            /\ same => Planner!RevKey(k0) = Planner!RevKey(n)
        BY <4>2, <4>3, <4>4
      <4> HIDE DEF few, alike, same
      <4>7. /\ Planner!RegionIdx(k0) <= Planner!RegionIdx(n)
            /\ alike /\ few => Planner!Number(n) <= Planner!Number(k0)
            /\ alike /\ same => k0.tags <= n.tags
        BY <4>2, <4>5, <4>6 DEF Planner!Better
      <4> QED BY <4>7 DEF NotBeaten, few, alike, same
    <3> QED BY <2>4, <3>4, <3>5, <3>6
  <2> QED BY <2>3, <2>4
<1> QED BY <1>2, <1>3, <1>5 DEF Each

\* A plan that files nothing, or one game, by its handler.
LEMMA LoneIsRight ==
  ASSUME NEW s, NEW v, NEW op,
         op.action = "attach" => op.platform \in Planner!Extras,
         op.dst # Planner!Nowhere =>
           /\ op.platform # "" /\ (v.handler # "scene_archive" => op.from.valid)
           /\ v.handler \in {"scene_archive", "single_archive"} => s.name.role = ""
  PROVE  Right(s, v, {op})
  BY DEF Right, PlacedOf, Planner!Files

LEMMA ReferIs ==
  ASSUME NEW platform, NEW n
  PROVE  /\ Planner!Refer(platform, n).dst = Planner!Nowhere /\ Planner!Refer(platform, n).action = "manual"
         /\ Planner!Attach(platform, n).dst = Planner!Nowhere
         /\ Planner!Attach(platform, n).action = "attach" => Planner!Attach(platform, n).platform \in Planner!Extras
<1>1. \A m : Planner!Refer(platform, m).dst = Planner!Nowhere /\ Planner!Refer(platform, m).action = "manual"
  BY DEF Planner!Refer, Planner!Op
<1>2. \A m : LET op == Planner!Op("attach", platform, m, Planner!Nowhere) IN
        op.dst = Planner!Nowhere /\ op.platform = platform
  BY DEF Planner!Op
<1> QED BY <1>1, <1>2 DEF Planner!Attach

LEMMA UnnamedIs ==
  ASSUME NEW action, NEW platform, NEW n
  PROVE  /\ Planner!Unnamed(action, platform, n).dst = Planner!Nowhere
         /\ Planner!Unnamed(action, platform, n).action = action
  BY DEF Planner!Unnamed, Planner!Op

\* A few games that were asked for: all that have an id.
LEMMA FewAreRight ==
  ASSUME NEW names, NEW platform, platform # Planner!None, NEW s, NEW v, v.handler = "single_file"
  PROVE  Right(s, v, Planner!plan_no_intro_set(platform, names, FALSE))
<1>1. PICK plan : plan = Planner!plan_no_intro_set(platform, names, FALSE)
  OBVIOUS
<1>2. \A op \in plan : \E g \in Planner!Groups(names) : op \in Planner!PlanGroup(platform, g, g, "hardlink", "")
  BY <1>1 DEF Planner!plan_no_intro_set, Planner!None
<1>3. \A op \in plan : ~Attaches(op)
                       /\ (op.dst # Planner!Nowhere => \E n, action, target : n.valid /\ op = Filed(platform, n, action, target))
  <2>1. PICK action, target : action = "hardlink" /\ target = ""
    OBVIOUS
  <2>2. action \in Moves /\ \A op \in plan : \E g : op \in Planner!PlanGroup(platform, g, g, action, target)
    BY <1>2, <2>1 DEF Moves
  <2> QED BY <2>2, GroupPlan
<1>4. \A op \in plan : op.dst # Planner!Nowhere => op.platform # Planner!None /\ op.from.valid
  BY <1>3, FiledIs
<1> QED BY <1>1, <1>3, <1>4 DEF Right, Attaches, Planner!None

LEMMA PlansAreRight ==
  ASSUME NEW s \in Planner!Source, NEW v, NEW plan \in Planner!Plans(s, v)
  PROVE  /\ Right(s, v, plan)
         /\ v.handler \in Planner!Sets /\ v.platform # "" => Each(Planner!Dumps(s, v), plan)
<1>1. CASE v.handler = "excluded"
  <2>1. plan = {Planner!Unnamed("skip", v.platform, s.name)}
    BY <1>1 DEF Planner!Plans
  <2>2. /\ Planner!Unnamed("skip", v.platform, s.name).dst = Planner!Nowhere
        /\ Planner!Unnamed("skip", v.platform, s.name).action # "attach"
    BY UnnamedIs
  <2> QED BY <1>1, <2>1, <2>2, LoneIsRight DEF Planner!Sets
<1>2. CASE v.handler # "excluded" /\ v.platform = ""
  <2>1. plan = {Planner!Unnamed("manual", "", s.name)}
    BY <1>2 DEF Planner!Plans, Planner!None
  <2>2. \A none : /\ Planner!Unnamed("manual", none, s.name).dst = Planner!Nowhere
                  /\ Planner!Unnamed("manual", none, s.name).action # "attach"
    BY UnnamedIs
  <2> QED BY <1>2, <2>1, <2>2, LoneIsRight
<1>3. CASE v.handler # "excluded" /\ v.platform # Planner!None
  <2>1. plan \in Planner!ByHandler(s, v)
    BY <1>3 DEF Planner!Plans
  <2>2. CASE v.handler = "wiiu_decrypted"
    <3>1. plan = {IF s.name.valid THEN Planner!Op("archive", "wiiu", s.name, Planner!Dst("wiiu", s.name, "zip"))
                  ELSE Planner!Refer("wiiu", s.name)}
      BY <2>1, <2>2 DEF Planner!ByHandler
    <3>2. \A dst : LET op == Planner!Op("archive", "wiiu", s.name, dst) IN
            op.from = s.name /\ op.platform = "wiiu" /\ op.action = "archive"
      BY DEF Planner!Op
    <3> QED BY <2>2, <3>1, <3>2, ReferIs, LoneIsRight DEF Planner!Sets, Planner!None
  <2>2n. CASE v.handler = "wiiu_nus"
    <3>1. PICK op : op = Planner!plan_wiiu_nus(s.name) /\ plan = {op}
      BY <2>1, <2>2n DEF Planner!ByHandler
    <3>2. \A dst : LET o == Planner!Op("manual", "wiiu", s.name, dst) IN
            o.from = s.name /\ o.platform = "wiiu" /\ o.action = "manual"
      BY DEF Planner!Op
    <3>3. \A platform : /\ Planner!Unnamed("manual", platform, s.name).dst = Planner!Nowhere
                        /\ Planner!Unnamed("manual", platform, s.name).action # "attach"
      BY UnnamedIs
    <3>4. op.action # "attach" /\ (op.dst # Planner!Nowhere => op.platform # Planner!None /\ op.from.valid)
      <4>1. CASE s.name.valid
        <5>1. PICK dst : op = Planner!Op("manual", "wiiu", s.name, dst)
          BY <3>1, <4>1 DEF Planner!plan_wiiu_nus
        <5> QED BY <3>2, <4>1, <5>1 DEF Planner!None
      <4>2. CASE ~s.name.valid
        <5>1. op = Planner!Unnamed("manual", "wiiu", s.name)
          BY <3>1, <4>2 DEF Planner!plan_wiiu_nus
        <5> QED BY <3>3, <5>1
      <4> QED BY <4>1, <4>2
    <3> QED BY <2>2n, <3>1, <3>4, LoneIsRight DEF Planner!None, Planner!Sets
  <2>3. CASE v.handler = "scene_archive"
    <3>1. PICK inner : plan = {Planner!plan_scene_archive(v.platform, s.name, inner)}
      BY <2>1, <2>3 DEF Planner!ByHandler
    <3>2. PICK op : op = Planner!plan_scene_archive(v.platform, s.name, inner)
      OBVIOUS
    <3>3. PICK game : op = IF s.name.role # "" THEN Planner!Attach(v.platform, game)
                           ELSE Planner!Op("extract", v.platform, game, Planner!Dst(v.platform, game, inner))
      BY <3>2 DEF Planner!plan_scene_archive, Planner!None
    <3>4. \A dst : LET o == Planner!Op("extract", v.platform, game, dst) IN
            o.platform = v.platform /\ o.action = "extract"
      BY DEF Planner!Op
    <3>5. /\ op.action = "attach" => op.platform \in Planner!Extras
          /\ op.dst # Planner!Nowhere => op.platform # Planner!None /\ s.name.role = ""
      BY <1>3, <3>3, <3>4, ReferIs
    <3> QED BY <2>3, <3>1, <3>2, <3>5, LoneIsRight DEF Planner!Sets, Planner!None
  <2>4. CASE v.handler = "single_archive"
    <3>1. PICK inner : plan = {Planner!plan_single_archive(v.platform, s.name, inner)}
      BY <2>1, <2>4 DEF Planner!ByHandler
    <3>2. PICK op : op = Planner!plan_single_archive(v.platform, s.name, inner)
      OBVIOUS
    <3>3. PICK action \in {"extract", "convert"} : \E dst :
            op = IF ~s.name.valid THEN Planner!Refer(v.platform, s.name)
                 ELSE IF s.name.role # "" THEN Planner!Attach(v.platform, s.name)
                 ELSE Planner!Op(action, v.platform, s.name, dst)
      BY <3>2 DEF Planner!plan_single_archive, Planner!None
    <3>4. \A dst : LET o == Planner!Op(action, v.platform, s.name, dst) IN
            o.platform = v.platform /\ o.from = s.name /\ o.action # "attach"
      BY DEF Planner!Op
    <3>5. /\ op.action = "attach" => op.platform \in Planner!Extras
          /\ op.dst # Planner!Nowhere => op.platform # Planner!None /\ op.from.valid /\ s.name.role = ""
      <4>1. CASE ~s.name.valid
        <5>1. op = Planner!Refer(v.platform, s.name)
          BY <3>3, <4>1
        <5> QED BY <5>1, ReferIs
      <4>2. CASE s.name.valid /\ s.name.role # ""
        <5>1. op = Planner!Attach(v.platform, s.name)
          BY <3>3, <4>2
        <5> QED BY <5>1, ReferIs
      <4>3. CASE s.name.valid /\ s.name.role = ""
        <5>1. PICK dst : op = Planner!Op(action, v.platform, s.name, dst)
          BY <3>3, <4>3
        <5>2. op.platform = v.platform /\ op.from = s.name /\ op.action # "attach"
          BY <3>4, <5>1
        <5> QED BY <1>3, <4>3, <5>2
      <4> QED BY <4>1, <4>2, <4>3
    <3> QED BY <2>4, <3>1, <3>2, <3>5, LoneIsRight DEF Planner!Sets, Planner!None
  <2>5. CASE v.handler = "no_intro_set"
    <3>1. PICK names : names = Planner!Dumps(s, v) /\ plan = Planner!plan_no_intro_set(v.platform, names, TRUE)
      BY <2>1, <2>5 DEF Planner!ByHandler
    <3>2. PICK action, target : action \in Moves /\ plan = SetPlan(names, v.platform, action, target)
      <4>1. "hardlink" \in Moves /\ plan = SetPlan(names, v.platform, "hardlink", "")
        BY <3>1 DEF Planner!plan_no_intro_set, SetPlan, Planner!None, Moves
      <4> QED BY <4>1
    <3>3. names \in SUBSET DumpName /\ v.handler \in Planner!Sets
      BY <2>5, <3>1, SourceNames DEF Planner!Dumps, Planner!Roms, Planner!Sets
    <3>4. Right(s, v, plan)
      BY <1>3, <3>2, <3>3, SetIsRight
    <3>5. Each(names, plan)
      BY <3>2, <3>3, SetIsEach
    <3> QED BY <3>1, <3>4, <3>5
  <2>6. CASE v.handler = "archive_set"
    <3>1. PICK names : names = Planner!Dumps(s, v) /\ plan = Planner!plan_archive_set(v.platform, names)
      BY <2>1, <2>6 DEF Planner!ByHandler
    <3>2. PICK action, target : action \in Moves /\ plan = SetPlan(names, v.platform, action, target)
      <4>1. "convert" \in Moves /\ "extract" \in Moves
        BY DEF Moves
      <4>2. PICK target : target = Planner!target_for(v.platform)
        OBVIOUS
      <4>3. PICK action : action = IF target # Planner!None THEN "convert" ELSE "extract"
        OBVIOUS
      <4>4. plan = SetPlan(names, v.platform, action, target)
        BY <3>1, <4>2, <4>3 DEF Planner!plan_archive_set, SetPlan
      <4>5. action \in Moves
        BY <4>1, <4>3
      <4> QED BY <4>4, <4>5
    <3>3. names \in SUBSET DumpName /\ v.handler \in Planner!Sets
      BY <2>6, <3>1, SourceNames DEF Planner!Dumps, Planner!Sets
    <3>4. Right(s, v, plan)
      BY <1>3, <3>2, <3>3, SetIsRight
    <3>5. Each(names, plan)
      BY <3>2, <3>3, SetIsEach
    <3> QED BY <3>1, <3>4, <3>5
  <2>7. CASE v.handler = "single_file"
    <3>1. \E names : plan = Planner!plan_no_intro_set(v.platform, names, FALSE)
      BY <2>1, <2>7 DEF Planner!ByHandler
    <3>2. v.handler \notin Planner!Sets
      BY <2>7 DEF Planner!Sets
    <3> QED BY <1>3, <2>7, <3>1, <3>2, FewAreRight
  <2>8. CASE v.handler \notin {"wiiu_decrypted", "wiiu_nus", "scene_archive", "single_archive", "no_intro_set",
                               "archive_set", "single_file"}
    <3>1. plan = {Planner!Unnamed("manual", v.platform, s.name)}
      BY <2>1, <2>8 DEF Planner!ByHandler
    <3>2. /\ Planner!Unnamed("manual", v.platform, s.name).dst = Planner!Nowhere
          /\ Planner!Unnamed("manual", v.platform, s.name).action # "attach"
      BY UnnamedIs
    <3> QED BY <2>8, <3>1, <3>2, LoneIsRight DEF Planner!Sets
  <2> QED BY <2>2, <2>2n, <2>3, <2>4, <2>5, <2>6, <2>7, <2>8
<1> QED BY <1>1, <1>2, <1>3 DEF Planner!None

PlannerInv ==
  /\ at \in {"idle", "classify", "plan", "done"}
  /\ at # "idle" => source \in Planner!Source
  /\ at \in {"plan", "done"} => verdict \in Planner!Verdicts(source)
  /\ IF at = "done" THEN ops \in Planner!Plans(source, verdict) ELSE ops = {}

LEMMA PlannerStarts == Planner!Init => PlannerInv
  BY DEF Planner!Init, PlannerInv

LEMMA PlannerNext ==
  ASSUME PlannerInv, Planner!Next
  PROVE  PlannerInv'
<1>1. ASSUME NEW s \in Planner!Source, Planner!Scan(s) PROVE PlannerInv'
  BY <1>1 DEF Planner!Scan, PlannerInv
<1>2. CASE Planner!Classify
  <2>1. verdict' \in Planner!Verdicts(source')
    BY <1>2 DEF Planner!Classify
  <2> QED BY <1>2, <2>1 DEF Planner!Classify, PlannerInv
<1>3. CASE Planner!Plan
  <2>1. ops' \in Planner!Plans(source', verdict') /\ verdict' \in Planner!Verdicts(source')
    BY <1>3 DEF Planner!Plan, PlannerInv
  <2> QED BY <1>3, <2>1 DEF Planner!Plan, PlannerInv
<1>4. CASE Planner!Onwards
  BY <1>4 DEF Planner!Onwards, PlannerInv
<1> QED BY <1>1, <1>2, <1>3, <1>4 DEF Planner!Next

LEMMA PlannerPromise == PlannerInv => Planner!PlanIsSound
<1> SUFFICES ASSUME PlannerInv PROVE Planner!PlanIsSound
  OBVIOUS
<1>1. CASE at = "done"
  <2>1. PICK s, v, plan : s \in Planner!Source /\ s = source /\ v = verdict /\ plan = ops /\ plan \in Planner!Plans(s, v)
    BY <1>1 DEF PlannerInv
  <2>2. v.handler = "manual" \/ v.platform # ""
    BY <1>1, <2>1, VerdictNamed DEF PlannerInv
  <2>3. Right(s, v, plan) /\ (v.handler \in Planner!Sets /\ v.platform # "" => Each(Planner!Dumps(s, v), plan))
    BY <2>1, PlansAreRight
  <2>p. Planner!Placed = PlacedOf(ops)
    BY DEF Planner!Placed, PlacedOf
  <2>4. Planner!FiledRight
    BY <2>1, <2>3, <2>p DEF Right, Planner!FiledRight, Planner!None
  <2>5. Planner!OneEach
    <3>1. CASE v.handler \in Planner!Sets
      <4>1. v.platform # ""
        BY <2>2, <3>1 DEF Planner!Sets
      <4>2. Each(Planner!Dumps(source, verdict), ops)
        BY <2>1, <2>3, <3>1, <4>1
      <4>3. \A g : Planner!Retail(g) = {n \in g : n.retail /\ n.valid}
        BY DEF Planner!Retail
      <4> QED BY <2>p, <4>2, <4>3, DumpsCounted DEF Each, NotBeaten, Planner!OneEach
    <3>2. CASE v.handler \notin Planner!Sets
      BY <2>1, <3>2 DEF Planner!OneEach
    <3> QED BY <3>1, <3>2
  <2> QED BY <2>4, <2>5 DEF Planner!PlanIsSound
<1>2. CASE at # "done"
  BY <1>2 DEF PlannerInv, Planner!PlanIsSound, Planner!FiledRight, Planner!OneEach, Planner!Placed, Planner!Files
<1> QED BY <1>1, <1>2

(***************************************************************************)
(* A pod without the token store (LibraryAuth): what it may still say of a *)
(* token.  The inductive invariant follows an answer from the question to  *)
(* the cache: how old it may be at each place, and what it then bounds.    *)
(***************************************************************************)
USE AuthAssumption

\* A question is out for no longer than Hop.
AsksAreShort == \A t \in Thread : asks[t].at # "idle" =>
  asks[t].since \in 1..now /\ now <= asks[t].since + Hop

\* What has happened, has happened by now.
PastIsPast == \A k \in Token : failed[k] <= now /\ (ends[k] <= now \/ Standing(k))

\* A "yes" on its way was true after its question was asked; a "no" is one
\* for good, or is an error newer than the question.
AnswersFollow == \A t \in Thread : asks[t].at = "answered" =>
  LET k == asks[t].token IN
  IF asks[t].name THEN asks[t].since <= ends[k]
  ELSE ends[k] <= now \/ asks[t].since <= failed[k]

\* What is remembered counts no longer than its time from now, and no longer
\* than its time and a question's from what it is an answer to.
CacheFollows == \A k \in Token : cache[k].known =>
  IF cache[k].name THEN /\ cache[k].until <= now + PosTtl
                        /\ cache[k].until <= ends[k] + PosTtl + Hop
  ELSE ends[k] <= now \/ (failed[k] # Never /\ cache[k].until <= failed[k] + NegTtl + Hop)

\* The same of what was said last, at the time when it was.
SaidFollows == said.at = "said" =>
  /\ said.when <= now
  /\ IF said.name THEN said.when <= ends[said.token] + PosTtl + Hop
     ELSE \/ ends[said.token] <= said.when
          \/ failed[said.token] # Never /\ said.when <= failed[said.token] + NegTtl + Hop

IInv == TypeOK /\ AsksAreShort /\ PastIsPast /\ AnswersFollow /\ CacheFollows /\ SaidFollows

USE DEF Never, Forever

-----------------------------------------------------------------------------
(* The shape of the parts of the state *)

LEMMA AskType ==
  ASSUME TypeOK, NEW t \in Thread
  PROVE  /\ asks[t].at \in {"idle", "sent", "answered"}
         /\ asks[t].at # "idle" => asks[t].token \in Token /\ asks[t].since \in Nat
         /\ asks[t].at = "answered" => asks[t].name \in BOOLEAN
  BY DEF TypeOK, Ask

LEMMA CacheType ==
  ASSUME TypeOK, NEW k \in Token
  PROVE  cache[k].known \in BOOLEAN /\ cache[k].name \in BOOLEAN /\ cache[k].until \in Nat
  BY DEF TypeOK, Answer

LEMMA SaidType ==
  ASSUME TypeOK, said.at = "said"
  PROVE  said.token \in Token /\ said.name \in BOOLEAN /\ said.when \in Nat
  BY DEF TypeOK, Said

LEMMA InitIInv == Init => IInv
  BY DEF Init, IInv, TypeOK, AsksAreShort, PastIsPast, AnswersFollow, CacheFollows, SaidFollows,
         Answer, NoAnswer, Ask, Idle, Said, NoSaid, Standing

-----------------------------------------------------------------------------
(* What a caller is told, and what is asked *)

LEMMA HitStep ==
  ASSUME IInv, NEW t \in Thread, NEW k \in Token, Hit(t, k)
  PROVE  IInv'
<1> USE DEF IInv
<1>1. cache[k].known /\ now < cache[k].until /\ now \in Nat
  BY DEF Hit, Counts, TypeOK, Answer
<1>2. said' = [at |-> "said", token |-> k, name |-> cache[k].name, when |-> now]
      /\ UNCHANGED <<now, ends, cache, asks, failed>>
  BY DEF Hit, Says
<1>3. TypeOK'
  BY <1>1, <1>2, CacheType DEF TypeOK, Said
<1>4. SaidFollows'
  <2>1. CASE cache[k].name
    BY <2>1, <1>1, <1>2, CacheType DEF CacheFollows, SaidFollows, TypeOK
  <2>2. CASE ~cache[k].name
    BY <2>2, <1>1, <1>2, CacheType DEF CacheFollows, SaidFollows, TypeOK
  <2> QED BY <2>1, <2>2
<1>5. (AsksAreShort /\ PastIsPast /\ AnswersFollow /\ CacheFollows)'
  BY <1>2 DEF AsksAreShort, PastIsPast, AnswersFollow, CacheFollows, Standing
<1> QED BY <1>3, <1>4, <1>5

LEMMA MissStep ==
  ASSUME IInv, NEW t \in Thread, NEW k \in Token, Miss(t, k)
  PROVE  IInv'
<1> USE DEF IInv
<1>1. asks' = [asks EXCEPT ![t] = [at |-> "sent", token |-> k, since |-> now]]
      /\ UNCHANGED <<now, ends, cache, failed, said>>
  BY DEF Miss
<1>2. TypeOK'
  BY <1>1 DEF TypeOK, Ask
<1>3. AsksAreShort'
  BY <1>1, AskType DEF AsksAreShort, TypeOK
<1>4. AnswersFollow'
  BY <1>1, AskType DEF AnswersFollow, TypeOK
<1>5. (PastIsPast /\ CacheFollows /\ SaidFollows)'
  BY <1>1 DEF PastIsPast, CacheFollows, SaidFollows, Standing
<1> QED BY <1>2, <1>3, <1>4, <1>5

LEMMA UnreachableStep ==
  ASSUME IInv, NEW t \in Thread, Unreachable(t)
  PROVE  IInv'
<1> USE DEF IInv
<1>1. asks' = [asks EXCEPT ![t] = Idle] /\ UNCHANGED <<now, ends, cache, failed, said>>
  BY DEF Unreachable
<1>2. TypeOK'
  BY <1>1 DEF TypeOK, Ask, Idle
<1>3. (AsksAreShort /\ AnswersFollow)'
  BY <1>1 DEF AsksAreShort, AnswersFollow, TypeOK, Idle
<1>4. (PastIsPast /\ CacheFollows /\ SaidFollows)'
  BY <1>1 DEF PastIsPast, CacheFollows, SaidFollows, Standing
<1> QED BY <1>2, <1>3, <1>4

-----------------------------------------------------------------------------
(* The answer, and its way into the cache *)

LEMMA WhoamiStep ==
  ASSUME IInv, NEW t \in Thread, Whoami(t)
  PROVE  IInv'
<1> USE DEF IInv
<1> DEFINE k == asks[t].token
           asked == asks[t].since
<1>1. asks[t].at = "sent" /\ k \in Token /\ asked \in 1..now /\ now <= asked + Hop
  BY AskType DEF Whoami, AsksAreShort
<1>2. PICK name \in {Standing(k), FALSE} :
        /\ asks' = [asks EXCEPT ![t] = [at |-> "answered", token |-> k, since |-> asked, name |-> name]]
        /\ failed' = IF name = Standing(k) THEN failed ELSE [failed EXCEPT ![k] = now]
  BY DEF Whoami
<1>3. UNCHANGED <<now, ends, cache, said>> /\ name \in BOOLEAN
  BY DEF Whoami, Standing
<1>4. TypeOK'
  <2>1. asks' \in [Thread -> Ask]
    BY <1>1, <1>2, <1>3 DEF TypeOK, Ask
  <2>2. failed' \in [Token -> 0..MaxTime]
    BY <1>1, <1>2 DEF TypeOK
  <2> QED BY <2>1, <2>2, <1>3 DEF TypeOK
<1>5. \A j \in Token : failed[j] <= failed'[j] /\ failed'[j] <= now
  BY <1>1, <1>2 DEF PastIsPast, TypeOK
<1>6. AsksAreShort'
  BY <1>1, <1>2, <1>3 DEF AsksAreShort, TypeOK
<1>7. PastIsPast'
  BY <1>3, <1>5 DEF PastIsPast, Standing
<1>8. AnswersFollow'
  <2> SUFFICES ASSUME NEW u \in Thread, asks'[u].at = "answered"
               PROVE  LET j == asks'[u].token IN
                      IF asks'[u].name THEN asks'[u].since <= ends[j]
                      ELSE ends[j] <= now \/ asks'[u].since <= failed'[j]
    BY <1>3 DEF AnswersFollow
  <2>1. CASE u = t
    <3>1. asks'[t] = [at |-> "answered", token |-> k, since |-> asked, name |-> name]
      BY <1>2 DEF TypeOK
    <3>2. CASE name
      <4>1. Standing(k)
        BY <3>2
      <4>2. asked <= ends[k]
        BY <4>1, <1>1 DEF Standing, TypeOK
      <4> QED BY <4>2, <2>1, <3>1, <3>2
    <3>3. CASE ~name /\ Standing(k)
      <4>1. failed'[k] = now
        BY <3>3, <1>1, <1>2 DEF TypeOK
      <4> QED BY <4>1, <3>3, <2>1, <3>1, <1>1
    <3>4. CASE ~name /\ ~Standing(k)
      BY <2>1, <3>1, <3>4, <1>1 DEF PastIsPast
    <3> QED BY <3>2, <3>3, <3>4, <1>3
  <2>2. CASE u # t
    <3>1. asks'[u] = asks[u]
      BY <2>2, <1>2 DEF TypeOK
    <3> DEFINE j == asks[u].token
    <3>2. asks[u].at = "answered" /\ j \in Token /\ asks[u].since \in Nat
      BY <3>1, AskType
    <3>3. IF asks[u].name THEN asks[u].since <= ends[j]
          ELSE ends[j] <= now \/ asks[u].since <= failed[j]
      BY <3>2 DEF AnswersFollow
    <3>4. failed[j] <= failed'[j] /\ failed[j] \in Nat /\ failed'[j] \in Nat
      BY <3>2, <1>4, <1>5 DEF TypeOK
    <3>5. asks[u].since <= failed[j] => asks[u].since <= failed'[j]
      BY <3>2, <3>4
    <3> QED BY <3>1, <3>3, <3>5
  <2> QED BY <2>1, <2>2
<1>9. CacheFollows'
  <2> SUFFICES ASSUME NEW j \in Token, cache[j].known
               PROVE  IF cache[j].name
                      THEN cache[j].until <= now + PosTtl /\ cache[j].until <= ends[j] + PosTtl + Hop
                      ELSE \/ ends[j] <= now
                           \/ failed'[j] # Never /\ cache[j].until <= failed'[j] + NegTtl + Hop
    BY <1>3 DEF CacheFollows
  <2> QED BY <1>4, <1>5, CacheType DEF CacheFollows, TypeOK
<1>10. SaidFollows'
  BY <1>3, <1>4, <1>5, SaidType DEF SaidFollows, TypeOK
<1> QED BY <1>4, <1>6, <1>7, <1>8, <1>9, <1>10

LEMMA StoreStep ==
  ASSUME IInv, NEW t \in Thread, Store(t)
  PROVE  IInv'
<1> USE DEF IInv
<1> DEFINE k == asks[t].token
           asked == asks[t].since
           name == asks[t].name
           new == [known |-> TRUE, name |-> name, until |-> now + Lasts(name)]
<1>1. asks[t].at = "answered" /\ k \in Token /\ name \in BOOLEAN
      /\ asked \in 1..now /\ now <= asked + Hop
  BY AskType DEF Store, AsksAreShort
<1>2. asks' = [asks EXCEPT ![t] = Idle] /\ UNCHANGED <<now, ends, failed>>
      /\ said' = [at |-> "said", token |-> k, name |-> name, when |-> now]
  BY DEF Store, Says
<1>3. Lasts(name) \in Nat /\ now \in Nat
  BY DEF Lasts, TypeOK
<1>4. /\ cache' \in [Token -> Answer]
      /\ \A j \in Token : cache'[j].known =>
           \/ j = k /\ cache'[j] = new
           \/ cache'[j] = cache[j]
  <2> DEFINE kept == IF Cardinality(Known) > CacheSize THEN [j \in Token |-> NoAnswer] ELSE cache
  <2>1. cache' = [kept EXCEPT ![k] = new]
    BY DEF Store
  <2>2. new \in Answer
    BY <1>1, <1>3 DEF Answer
  <2>3. kept \in [Token -> Answer]
    BY DEF TypeOK, Answer, NoAnswer
  <2>4. \A j \in Token : kept[j].known => kept[j] = cache[j]
    BY DEF NoAnswer
  <2> HIDE DEF kept, new
  <2> QED BY <2>1, <2>2, <2>3, <2>4, <1>1
<1>5. TypeOK'
  BY <1>1, <1>2, <1>3, <1>4 DEF TypeOK, Ask, Idle, Said
<1>6. (AsksAreShort /\ AnswersFollow)'
  BY <1>2 DEF AsksAreShort, AnswersFollow, TypeOK, Idle
<1>7. PastIsPast'
  BY <1>2 DEF PastIsPast, Standing
\* What the answer is of bounds how long it will count.
<1>8. CASE name
  <2>1. asked <= ends[k]
    BY <1>8, <1>1 DEF AnswersFollow
  <2>2. now + Lasts(name) <= ends[k] + PosTtl + Hop /\ Lasts(name) = PosTtl
    BY <2>1, <1>8, <1>1, <1>3 DEF TypeOK, Lasts
  <2>3. CacheFollows'
    <3>1. new.name /\ new.until = now + PosTtl /\ new.until <= ends[k] + PosTtl + Hop
      BY <2>2, <1>8
    <3> HIDE DEF new
    <3> QED BY <3>1, <1>2, <1>3, <1>4, CacheType DEF CacheFollows, TypeOK
  <2>4. SaidFollows'
    BY <2>2, <1>8, <1>1, <1>2, <1>3 DEF SaidFollows, TypeOK
  <2> QED BY <2>3, <2>4, <1>5, <1>6, <1>7
<1>9. CASE ~name
  <2>1. ends[k] <= now \/ asked <= failed[k]
    BY <1>9, <1>1 DEF AnswersFollow
  <2>2. \/ ends[k] <= now
        \/ failed[k] # Never /\ now + Lasts(name) <= failed[k] + NegTtl + Hop
    BY <2>1, <1>9, <1>1, <1>3 DEF TypeOK, Lasts
  <2>3. CacheFollows'
    BY <2>2, <1>9, <1>2, <1>4 DEF CacheFollows
  <2>4. SaidFollows'
    BY <2>2, <1>9, <1>1, <1>2, <1>3 DEF SaidFollows, TypeOK, Lasts
  <2> QED BY <2>3, <2>4, <1>5, <1>6, <1>7
<1> QED BY <1>8, <1>9, <1>1

-----------------------------------------------------------------------------
(* The token's end, and time *)

LEMMA EndStep ==
  ASSUME IInv, NEW k \in Token, End(k)
  PROVE  IInv'
<1> USE DEF IInv
<1>1. ends[k] = MaxTime + 1 /\ ends' = [ends EXCEPT ![k] = now]
      /\ UNCHANGED <<now, cache, asks, failed, said>> /\ now \in 1..MaxTime
  BY DEF End, Standing, TypeOK
<1>2. TypeOK'
  BY <1>1 DEF TypeOK
<1>3. \A j \in Token : IF j = k THEN ends'[j] = now ELSE ends'[j] = ends[j]
  BY <1>1 DEF TypeOK
<1>4. AsksAreShort'
  BY <1>1 DEF AsksAreShort
<1>5. PastIsPast'
  BY <1>1, <1>3 DEF PastIsPast, Standing, TypeOK
<1>6. AnswersFollow'
  BY <1>1, <1>3, AskType DEF AnswersFollow, AsksAreShort, TypeOK
<1>7. CacheFollows'
  BY <1>1, <1>3, CacheType DEF CacheFollows, TypeOK
<1>8. SaidFollows'
  BY <1>1, <1>3, SaidType DEF SaidFollows, TypeOK
<1> QED BY <1>2, <1>4, <1>5, <1>6, <1>7, <1>8

LEMMA TickStep ==
  ASSUME IInv, Tick
  PROVE  IInv'
<1> USE DEF IInv
<1>1. now' = now + 1 /\ now \in 1..MaxTime /\ now' \in 1..MaxTime
      /\ UNCHANGED <<ends, cache, asks, failed, said>>
  BY DEF Tick, TypeOK
<1>2. TypeOK'
  BY <1>1 DEF TypeOK
<1>3. AsksAreShort'
  BY <1>1, AskType DEF AsksAreShort, Tick
<1>4. PastIsPast'
  BY <1>1 DEF PastIsPast, Standing, TypeOK
<1>5. AnswersFollow'
  BY <1>1, AskType DEF AnswersFollow, TypeOK
<1>6. CacheFollows'
  BY <1>1, CacheType DEF CacheFollows, TypeOK
<1>7. SaidFollows'
  BY <1>1, SaidType DEF SaidFollows
<1> QED BY <1>2, <1>3, <1>4, <1>5, <1>6, <1>7

-----------------------------------------------------------------------------
(* The results *)

LEMMA StutterStep == IInv /\ UNCHANGED vars => IInv'
  BY DEF vars, IInv, TypeOK, AsksAreShort, PastIsPast, AnswersFollow, CacheFollows, SaidFollows, Standing

LEMMA IInvHolds == Spec => []IInv
<1>1. IInv /\ [Next]_vars => IInv'
  BY HitStep, MissStep, WhoamiStep, UnreachableStep, StoreStep, EndStep, TickStep, StutterStep DEF Next
<1> QED BY InitIInv, <1>1, PTL DEF Spec

\* The state keeps its shape, whatever the threads, the tokens and the times
\* (the clock's bound aside).
THEOREM TypeCorrect == Spec => []TypeOK
<1>1. IInv => TypeOK
  BY DEF IInv
<1> QED BY IInvHolds, <1>1, PTL

\* A token that was revoked is let in for no longer than the time a "yes" is
\* kept and the time of one question: neither late answers stored over newer
\* ones nor any number of requests add to it.
THEOREM RevocationLands == Spec => []AcceptedLately
<1>1. IInv => AcceptedLately
  BY SaidType DEF IInv, SaidFollows, AcceptedLately, TypeOK
<1> QED BY IInvHolds, <1>1, PTL

\* A token that stands is refused for no longer than the time a "no" is kept
\* and the time of one question, after an error of the pod that was asked.
THEOREM RefusalPasses == Spec => []RefusedBriefly
<1>1. IInv => RefusedBriefly
  BY SaidType DEF IInv, SaidFollows, RefusedBriefly, TypeOK
<1> QED BY IInvHolds, <1>1, PTL

\* The same of the service's behaviors: the other parts leave the pod alone.
THEOREM RevocationAlwaysLands == ServiceSpec => []AcceptedLately
<1>1. ServiceInit => Init
  BY DEF ServiceInit
<1>2. [ServiceNext]_ServiceVars => [Next]_vars
  BY DEF ServiceNext, ServiceVars
<1> QED BY <1>1, <1>2, RevocationLands, PTL DEF ServiceSpec, Spec

HIDE DEF Never, Forever

(***************************************************************************)
(* The downloads, whose proofs are a module of their own: behaviors of the *)
(* part are behaviors of it.                                               *)
(***************************************************************************)

DownloadP == INSTANCE DownloadProofs WITH
  disk <- payload, slots <- streams, lock <- gameLock

\* What is installed is one version whole, and a stream's slot comes back, whatever
\* is replaced, broken or killed (download.sh, routes_files.py).
THEOREM FileAlwaysWhole == ServiceSpec => []DownloadIsWhole
<1> DEFINE On == part = "download"
<1>1. DownloadP!Spec => []DownloadP!DownloadIsWhole
  BY DownloadAssumption, DownloadP!FilesAreWhole DEF DownloadP!Sized, DownloadP!Version
<1>2. ServiceInit /\ On => DownloadP!Init
  BY DEF ServiceInit, Download!Init, DownloadP!Init, Download!Idle, DownloadP!Idle
<1>3. On /\ [ServiceNext]_ServiceVars => On' /\ [DownloadP!Next]_DownloadP!vars
  <2>1. Download!Next <=> DownloadP!Next
    BY DEF Download!Next, DownloadP!Next, Download!Replace, DownloadP!Replace, Download!Import,
         DownloadP!Import, Download!Start, DownloadP!Start, Download!Lock, DownloadP!Lock,
         Download!Copy, DownloadP!Copy, Download!Request, DownloadP!Request, Download!Data,
         DownloadP!Data, Download!Sent, DownloadP!Sent, Download!Break, DownloadP!Break, Download!Kill,
         DownloadP!Kill, Download!Verify, DownloadP!Verify, Download!Install, DownloadP!Install,
         Download!Version, DownloadP!Version, Download!Goes, DownloadP!Goes, Download!Idle,
         DownloadP!Idle, Download!OnServer, DownloadP!OnServer, Download!Whole, DownloadP!Whole,
         Download!range_window, DownloadP!range_window, Download!Failed, DownloadP!Failed,
         Download!Dies, DownloadP!Dies, Download!etag, DownloadP!etag
  <2> QED BY <2>1 DEF ServiceNext, ServiceVars, downloadVars, DownloadP!vars
<1>4. ~On /\ [ServiceNext]_ServiceVars => ~On'
  BY DEF ServiceNext, ServiceVars
<1>5. DownloadP!DownloadIsWhole => DownloadIsWhole
  BY DEF DownloadIsWhole, Download!DownloadIsWhole, DownloadP!DownloadIsWhole, Download!Version, DownloadP!Version,
         Download!Whole, DownloadP!Whole,
         Download!Cardinality, DownloadP!Cardinality, Download!IsFiniteSet, DownloadP!IsFiniteSet
<1>6. ~On => DownloadIsWhole
  BY DEF DownloadIsWhole
<1> HIDE DEF On
<1> QED BY <1>1, <1>2, <1>3, <1>4, <1>5, <1>6, PTL DEF ServiceSpec, DownloadP!Spec

(***************************************************************************)
(* Signing in.  What leaves a map is gone from it for good, and one        *)
(* request at most has it then: so it is minted of once.  Whoever a        *)
(* request, a device or a token names was named by the provider before.    *)
(***************************************************************************)

SignInCode == State \cup Device
Slug == {Signin!UserSlug(p) : p \in Person}

Entry == [at : {"new", "in", "gone"}, until : Int, user : Slug \cup {NoPerson}]
SignInToken == [kind : {"web", "cli", "play"}, user : Slug, of : SignInCode \cup {NoState}, revoked : BOOLEAN]
SignInCall == [at : {"idle", "identify", "find", "bearer", "take", "mint", "set"}, of : SignInCode \cup {NoState},
               by : Browser \cup {NoState}, user : Slug \cup {NoPerson}]

SigninTyped ==
  /\ signinNow \in Int
  /\ states \in [State -> Entry] /\ devices \in [Device -> Entry]
  /\ browsers \in [Browser -> [state : State \cup {NoState}, session : Nat]]
  /\ minted \in Seq(SignInToken)
  /\ signinCalls \in [Thread -> SignInCall]
  /\ returns \subseteq State \X {p \in Person : Signin!Allowed(p)}

\* The users that the provider has named somebody for.
NamedUsers == {Signin!UserSlug(r[2]) : r \in returns}

\* A state or a device's code has been taken.
Spent(k) == /\ k \in State => states[k].at = "gone"
            /\ k \in Device => devices[k].at = "gone"

\* A request with a code in hand, which is in the map no more.
Holds(t) == signinCalls[t].at \in {"identify", "mint"}

CallSound(t) ==
  LET c == signinCalls[t] IN
  /\ Holds(t) => Spent(c.of)
  /\ c.at = "identify" => c.of \in State
  /\ c.at = "mint" => c.of \in Device /\ <<c.of, c.user>> \in approvals
  /\ c.at = "take" => c.of \in Device /\ devices[c.of].at # "new" /\ devices[c.of].user # NoPerson
  /\ c.at = "set" => c.of \in Device /\ devices[c.of].at # "new"
  /\ c.at \in {"find", "bearer", "set", "mint"} => c.user \in NamedUsers

DeviceSound(d) ==
  devices[d].user # NoPerson => <<d, devices[d].user>> \in approvals /\ devices[d].user \in NamedUsers

TokenSound(m) ==
  /\ Spent(m.of) /\ m.user \in NamedUsers
  /\ m.kind = "cli" => <<m.of, m.user>> \in approvals
  /\ m.kind = "web" => \E p \in Person : <<m.of, p>> \in returns /\ Signin!Allowed(p) /\ m.user = Signin!UserSlug(p)

TokensSound == \A i \in 1..Len(minted) : TokenSound(minted[i])

OneHolds == \A t, u \in Thread : Holds(t) /\ Holds(u) /\ signinCalls[t].of = signinCalls[u].of => t = u

Unminted == \A t \in Thread, i \in 1..Len(minted) : Holds(t) => minted[i].of # signinCalls[t].of

OneMinted == \A i, j \in 1..Len(minted) : minted[i].of = minted[j].of /\ minted[i].of # NoState => i = j

Bounded(map) == IsFiniteSet(Signin!Pending(map)) /\ Cardinality(Signin!Pending(map)) <= MaxPending

SigninInv ==
  /\ SigninTyped
  /\ \A t \in Thread : CallSound(t)
  /\ \A d \in Device : DeviceSound(d)
  /\ TokensSound
  /\ OneHolds /\ Unminted /\ OneMinted
  /\ Bounded(states) /\ Bounded(devices)

LEMMA SigninCardinality ==
  ASSUME NEW S
  PROVE  Signin!Cardinality(S) = Cardinality(S)
  BY DEF Signin!Cardinality, Cardinality, Signin!IsFiniteSet, IsFiniteSet

LEMMA SweptMap ==
  ASSUME NEW K, NEW map \in [K -> Entry]
  PROVE  /\ Signin!Swept(map) \in [K -> Entry]
         /\ \A k \in K : /\ Signin!Swept(map)[k].user = map[k].user
                         /\ Signin!Swept(map)[k].at = "new" <=> map[k].at = "new"
                         /\ Signin!Swept(map)[k].at = "in" => map[k].at = "in"
  BY DEF Signin!Swept, Signin!Live, Entry

LEMMA PutMap ==
  ASSUME SignInAssumption, signinNow \in Int, NEW K, NEW map \in [K -> Entry], NEW k \in K, map[k].at = "new"
  PROVE  /\ Signin!Put(map, k) \in [K -> Entry]
         /\ Signin!Put(map, k)[k].at = "in" /\ Signin!Put(map, k)[k].user = NoPerson
         /\ \A j \in K \ {k} : Signin!Put(map, k)[j] = Signin!Swept(map)[j]
<1> DEFINE swept == Signin!Swept(map)
<1>1. swept \in [K -> Entry]
  BY SweptMap
<1>2. [at |-> "in", until |-> signinNow + Ttl, user |-> NoPerson] \in Entry
  BY DEF SignInAssumption, Entry
<1>3. Signin!Put(map, k) = [swept EXCEPT ![k] = [at |-> "in", until |-> signinNow + Ttl, user |-> NoPerson]]
  BY DEF Signin!Put
<1> HIDE DEF swept
<1>4. /\ Signin!Put(map, k) \in [K -> Entry]
      /\ Signin!Put(map, k)[k].at = "in" /\ Signin!Put(map, k)[k].user = NoPerson
      /\ \A j \in K \ {k} : Signin!Put(map, k)[j] = swept[j]
  BY <1>1, <1>2, <1>3
<1> QED BY <1>4 DEF swept

LEMMA PoppedMap ==
  ASSUME NEW K, NEW map \in [K -> Entry], NEW k \in K
  PROVE  /\ Signin!Popped(map, k) \in [K -> Entry]
         /\ Signin!Popped(map, k)[k].at = "gone" /\ Signin!Popped(map, k)[k].user = map[k].user
         /\ \A j \in K \ {k} : Signin!Popped(map, k)[j] = map[j]
  BY DEF Signin!Popped, Entry

(* The bound. *)

LEMMA BoundedFewer ==
  ASSUME SignInAssumption, NEW map, NEW new, Bounded(map), Signin!Pending(new) \subseteq Signin!Pending(map)
  PROVE  Bounded(new)
<1>1. /\ IsFiniteSet(Signin!Pending(new))
      /\ Cardinality(Signin!Pending(new)) <= Cardinality(Signin!Pending(map))
  BY FS_Subset DEF Bounded
<1>2. Cardinality(Signin!Pending(new)) \in Nat /\ Cardinality(Signin!Pending(map)) \in Nat
  BY <1>1, FS_CardinalityType DEF Bounded
<1> QED BY <1>1, <1>2 DEF Bounded, SignInAssumption

LEMMA BoundedPut ==
  ASSUME SignInAssumption, signinNow \in Int, NEW K, NEW map \in [K -> Entry], NEW k \in K, map[k].at = "new",
         Bounded(map), Signin!Room(map)
  PROVE  Bounded(Signin!Put(map, k))
<1> DEFINE were == Signin!Pending(Signin!Swept(map))
           are == Signin!Pending(Signin!Put(map, k))
<1>1. Signin!Swept(map) \in [K -> Entry] /\ Signin!Put(map, k) \in [K -> Entry]
  BY SweptMap, PutMap
<1>2. were \subseteq Signin!Pending(map)
  BY <1>1, SweptMap DEF Signin!Pending
<1>3. are \subseteq were \cup {k}
  BY <1>1, PutMap DEF Signin!Pending
<1>4. IsFiniteSet(were) /\ Cardinality(were) < MaxPending
  BY <1>2, FS_Subset, SigninCardinality DEF Bounded, Signin!Room
<1> HIDE DEF were, are
<1>5. IsFiniteSet(were \cup {k}) /\ Cardinality(were \cup {k}) \in {Cardinality(were), Cardinality(were) + 1}
  BY <1>4, FS_AddElement
<1>6. IsFiniteSet(are) /\ Cardinality(are) <= Cardinality(were \cup {k})
  BY <1>3, <1>5, FS_Subset
<1>7. Cardinality(were) \in Nat /\ Cardinality(are) \in Nat /\ MaxPending \in Nat
  BY <1>4, <1>6, FS_CardinalityType DEF SignInAssumption
<1>8. Cardinality(are) <= MaxPending
  BY <1>4, <1>5, <1>6, <1>7
<1> QED BY <1>6, <1>8 DEF Bounded, are

LEMMA BoundedSwept ==
  ASSUME SignInAssumption, NEW K, NEW map \in [K -> Entry], Bounded(map)
  PROVE  Bounded(Signin!Swept(map))
<1>1. Signin!Pending(Signin!Swept(map)) \subseteq Signin!Pending(map)
  BY SweptMap DEF Signin!Pending
<1> QED BY <1>1, BoundedFewer

LEMMA BoundedPopped ==
  ASSUME SignInAssumption, NEW K, NEW map \in [K -> Entry], NEW k \in K, Bounded(map)
  PROVE  Bounded(Signin!Popped(map, k))
<1>1. Signin!Pending(Signin!Popped(map, k)) \subseteq Signin!Pending(map)
  BY PoppedMap DEF Signin!Pending
<1> QED BY <1>1, BoundedFewer

(* What every step keeps. *)

\* No step puts back what was taken, nor takes back what was said.
Onward ==
  /\ \A k \in State : states[k].at = "gone" => states'[k].at = "gone"
  /\ \A k \in Device : /\ devices[k].at = "gone" => devices'[k].at = "gone"
                       /\ devices[k].at # "new" =>
                            /\ devices'[k].at # "new"
                            /\ devices[k].user # NoPerson => devices'[k].user # NoPerson
  /\ returns \subseteq returns' /\ approvals \subseteq approvals'

LEMMA NamedStay ==
  ASSUME Onward
  PROVE  NamedUsers \subseteq NamedUsers'
  BY DEF Onward, NamedUsers

LEMMA SpentStays ==
  ASSUME Onward, NEW k, Spent(k)
  PROVE  Spent(k)'
  BY DEF Onward, Spent

LEMMA CallStays ==
  ASSUME Onward, NEW t \in Thread, CallSound(t), signinCalls'[t] = signinCalls[t]
  PROVE  CallSound(t)'
<1>1. NamedUsers \subseteq NamedUsers'
  BY NamedStay
<1>2. PICK k : k = signinCalls[t].of
  OBVIOUS
<1>4. Spent(signinCalls[t].of) => (Spent(signinCalls[t].of))'
  <2>1. Spent(k) => Spent(k)'
    BY SpentStays
  <2>2. (Spent(signinCalls[t].of))' <=> Spent(k)'
    BY <1>2 DEF Spent
  <2> QED BY <1>2, <2>1, <2>2
<1>3. Holds(t)' <=> Holds(t)
  BY DEF Holds
<1> QED BY <1>1, <1>3, <1>4 DEF CallSound, Onward

LEMMA IdleSound ==
  ASSUME NEW t \in Thread, signinCalls'[t] = Signin!Idle
  PROVE  CallSound(t)' /\ ~Holds(t)'
  BY DEF CallSound, Holds, Signin!Idle

LEMMA TokenStays ==
  ASSUME Onward, NEW m, TokenSound(m)
  PROVE  TokenSound(m)'
<1>1. NamedUsers \subseteq NamedUsers'
  BY NamedStay
<1>2. Spent(m.of) => Spent(m.of)'
  BY SpentStays
<1> QED BY <1>1, <1>2 DEF TokenSound, Onward

LEMMA DeviceStays ==
  ASSUME Onward, NEW d \in Device, DeviceSound(d), devices'[d].user \in {devices[d].user, NoPerson}
  PROVE  DeviceSound(d)'
<1>1. NamedUsers \subseteq NamedUsers'
  BY NamedStay
<1> QED BY <1>1 DEF DeviceSound, Onward

\* The tokens that a step mints none of.
LEMMA TokensStay ==
  ASSUME SigninInv, Onward, minted' = minted
  PROVE  TokensSound'
  BY TokenStays DEF SigninInv, TokensSound

\* The hands that a step puts nothing into.
LEMMA HandsStay ==
  ASSUME SigninInv, minted' = minted,
         \A t \in Thread : Holds(t)' => Holds(t) /\ signinCalls'[t].of = signinCalls[t].of
  PROVE  OneHolds' /\ Unminted' /\ OneMinted'
  BY DEF SigninInv, OneHolds, Unminted, OneMinted, Holds

\* A step that changes one request, which takes nothing by it.
LEMMA CallSteps ==
  ASSUME SigninInv, SigninTyped', Onward, minted' = minted, NEW t \in Thread, CallSound(t)', ~Holds(t)',
         \A u \in Thread \ {t} : signinCalls'[u] = signinCalls[u],
         \A d \in Device : DeviceSound(d)', Bounded(states)', Bounded(devices)'
  PROVE  SigninInv'
<1>1. \A u \in Thread : CallSound(u)'
  <2> TAKE u \in Thread
  <2>1. CASE u = t
    BY <2>1
  <2>2. CASE u # t
    BY <2>2, CallStays DEF SigninInv
  <2> QED BY <2>1, <2>2
<1>2. OneHolds' /\ Unminted' /\ OneMinted'
  <2>1. \A u \in Thread : Holds(u)' => Holds(u) /\ signinCalls'[u].of = signinCalls[u].of
    BY DEF Holds
  <2> QED BY <2>1, HandsStay
<1>3. TokensSound'
  BY TokensStay
<1> QED BY <1>1, <1>2, <1>3 DEF SigninInv

\* A step of the maps and the browsers alone.
LEMMA MapSteps ==
  ASSUME SigninInv, SigninTyped', Onward, UNCHANGED <<minted, signinCalls>>,
         \A d \in Device : devices'[d].user \in {devices[d].user, NoPerson}, Bounded(states)', Bounded(devices)'
  PROVE  SigninInv'
<1>1. \A u \in Thread : CallSound(u)'
  BY CallStays DEF SigninInv
<1>2. OneHolds' /\ Unminted' /\ OneMinted'
  <2>1. \A u \in Thread : Holds(u)' => Holds(u) /\ signinCalls'[u].of = signinCalls[u].of
    BY DEF Holds
  <2> QED BY <2>1, HandsStay
<1>3. TokensSound'
  BY TokensStay
<1>4. \A d \in Device : DeviceSound(d)'
  BY DeviceStays DEF SigninInv
<1> QED BY <1>1, <1>2, <1>3, <1>4 DEF SigninInv

LEMMA SigninStarts ==
  ASSUME SignInAssumption, Signin!Init
  PROVE  SigninInv
<1>1. /\ signinNow = 1 /\ returns = {} /\ minted = <<>>
      /\ states = [s \in State |-> Signin!NoEntry] /\ devices = [d \in Device |-> Signin!NoEntry]
      /\ browsers = [x \in Browser |-> [state |-> NoState, session |-> 0]]
      /\ signinCalls = [t \in Thread |-> Signin!Idle]
  BY DEF Signin!Init
<1>2. Signin!NoEntry \in Entry /\ Signin!NoEntry.at = "new" /\ Signin!NoEntry.user = NoPerson
  BY DEF Signin!NoEntry, Entry
<1>3. Signin!Idle \in SignInCall /\ Signin!Idle.at = "idle"
  BY DEF Signin!Idle, SignInCall
<1>4. SigninTyped
  <2>1. minted \in Seq(SignInToken)
    BY <1>1
  <2>2. signinNow \in Int
    BY <1>1
  <2> QED BY <1>1, <1>2, <1>3, <2>1, <2>2 DEF SigninTyped
<1>5. \A t \in Thread : CallSound(t) /\ ~Holds(t)
  BY <1>1, <1>3 DEF CallSound, Holds
<1>6. \A d \in Device : DeviceSound(d)
  BY <1>1, <1>2 DEF DeviceSound
<1>7. Len(minted) = 0
  BY <1>1
<1>8. Signin!Pending(states) = {} /\ Signin!Pending(devices) = {}
  BY <1>1, <1>2 DEF Signin!Pending
<1>9. Bounded(states) /\ Bounded(devices)
  BY <1>8, FS_EmptySet DEF Bounded, SignInAssumption
<1> QED BY <1>4, <1>5, <1>6, <1>7, <1>9 DEF SigninInv, OneHolds, OneMinted, Unminted, TokensSound

(* The maps' steps. *)

LEMMA LoginStep ==
  ASSUME SignInAssumption, SigninInv, NEW x \in Browser, NEW k \in State, Signin!Login(x, k)
  PROVE  SigninInv'
<1>1. /\ UNCHANGED <<signinNow, devices, minted, signinCalls, approvals, returns>>
      /\ states[k].at = "new"
      /\ browsers' = browsers \/ browsers' = [browsers EXCEPT ![x].state = k]
      /\ \/ states' = Signin!Swept(states)
         \/ states' = Signin!Put(states, k) /\ Signin!Room(states)
  BY DEF Signin!Login
<1>2. SigninTyped /\ states \in [State -> Entry] /\ signinNow \in Int /\ Bounded(states) /\ Bounded(devices)
  BY DEF SigninInv, SigninTyped
<1>3. states' \in [State -> Entry] /\ \A j \in State : states[j].at = "gone" => states'[j].at = "gone"
  <2>1. \A j \in State : states[j].at = "gone" => Signin!Swept(states)[j].at = "gone"
    BY <1>2, SweptMap DEF Entry
  <2>2. CASE states' = Signin!Swept(states)
    BY <1>2, <2>1, <2>2, SweptMap
  <2>3. CASE states' = Signin!Put(states, k)
    BY <1>1, <1>2, <2>1, <2>3, PutMap
  <2> QED BY <1>1, <2>2, <2>3
<1>4. SigninTyped'
  BY <1>1, <1>2, <1>3 DEF SigninTyped
<1>5. Onward
  BY <1>1, <1>3 DEF Onward
<1>6. Bounded(states)' /\ Bounded(devices)'
  <2>1. PICK now1 : now1 = states'
    OBVIOUS
  <2>2. Bounded(now1)
    BY <1>1, <1>2, <2>1, BoundedSwept, BoundedPut
  <2> QED BY <1>1, <1>2, <2>1, <2>2 DEF Bounded, Signin!Pending
<1> QED BY <1>1, <1>4, <1>5, <1>6, MapSteps

LEMMA DeviceStartStep ==
  ASSUME SignInAssumption, SigninInv, NEW k \in Device, Signin!DeviceStart(k)
  PROVE  SigninInv'
<1>1. /\ UNCHANGED <<signinNow, states, browsers, minted, signinCalls, approvals, returns>>
      /\ devices[k].at = "new"
      /\ \/ devices' = Signin!Swept(devices)
         \/ devices' = Signin!Put(devices, k) /\ Signin!Room(devices)
  BY DEF Signin!DeviceStart
<1>2. SigninTyped /\ devices \in [Device -> Entry] /\ signinNow \in Int /\ Bounded(states) /\ Bounded(devices)
  BY DEF SigninInv, SigninTyped
<1>3. /\ devices' \in [Device -> Entry]
      /\ \A j \in Device : /\ devices[j].at = "gone" => devices'[j].at = "gone"
                           /\ devices[j].at # "new" => devices'[j].at # "new" /\ devices'[j].user = devices[j].user
                           /\ devices'[j].user \in {devices[j].user, NoPerson}
  <2>1. \A j \in Device : LET e == Signin!Swept(devices)[j] IN
          /\ devices[j].at = "gone" => e.at = "gone"
          /\ devices[j].at # "new" => e.at # "new"
          /\ e.user = devices[j].user
    BY <1>2, SweptMap DEF Entry
  <2>2. CASE devices' = Signin!Swept(devices)
    BY <1>2, <2>1, <2>2, SweptMap
  <2>3. CASE devices' = Signin!Put(devices, k)
    BY <1>1, <1>2, <2>1, <2>3, PutMap
  <2> QED BY <1>1, <2>2, <2>3
<1>4. SigninTyped'
  BY <1>1, <1>2, <1>3 DEF SigninTyped
<1>5. Onward
  BY <1>1, <1>3 DEF Onward
<1>6. Bounded(states)' /\ Bounded(devices)'
  <2>1. PICK now1 : now1 = devices'
    OBVIOUS
  <2>2. Bounded(now1)
    BY <1>1, <1>2, <2>1, BoundedSwept, BoundedPut
  <2> QED BY <1>1, <1>2, <2>1, <2>2 DEF Bounded, Signin!Pending
<1> QED BY <1>1, <1>3, <1>4, <1>5, <1>6, MapSteps

\* What only looks at the maps, or the clock.
LEMMA MapsAlone ==
  ASSUME SigninInv, UNCHANGED <<states, devices, approvals>>, returns \subseteq returns'
  PROVE  /\ Onward /\ Bounded(states)' /\ Bounded(devices)'
         /\ \A d \in Device : DeviceSound(d)'
<1>1. Onward
  BY DEF Onward
<1>2. Bounded(states)' /\ Bounded(devices)'
  BY DEF SigninInv, Bounded, Signin!Pending
<1>3. \A d \in Device : DeviceSound(d)'
  BY <1>1, DeviceStays DEF SigninInv
<1> QED BY <1>1, <1>2, <1>3

LEMMA SigninTickStep ==
  ASSUME SigninInv, Signin!Tick
  PROVE  SigninInv'
<1>1. UNCHANGED <<states, devices, browsers, minted, signinCalls, approvals, returns>> /\ signinNow' = signinNow + 1
  BY DEF Signin!Tick
<1>2. SigninTyped'
  BY <1>1 DEF SigninInv, SigninTyped
<1> QED BY <1>1, <1>2, MapsAlone, MapSteps

\* A revocation changes no token but in that.
LEMMA RevokeKept ==
  ASSUME SigninInv, NEW n, Signin!Revoke(n), UNCHANGED <<states, devices, signinCalls, approvals, returns>>
  PROVE  /\ minted' \in Seq(SignInToken)
         /\ \A t \in Thread : CallSound(t)'
         /\ TokensSound' /\ OneHolds' /\ Unminted' /\ OneMinted'
<1>1. minted \in Seq(SignInToken) /\ n \in 1..Len(minted)
  BY LenProperties DEF SigninInv, SigninTyped, Signin!Revoke, Signin!Stands
<1>2. minted' = [minted EXCEPT ![n].revoked = TRUE]
  BY DEF Signin!Revoke
<1>3. minted[n] \in SignInToken
  BY <1>1, ElementOfSeq
<1> DEFINE new == [minted[n] EXCEPT !.revoked = TRUE]
<1>4. /\ new \in SignInToken
      /\ new.of = minted[n].of /\ new.kind = minted[n].kind /\ new.user = minted[n].user
  BY <1>3 DEF SignInToken
<1>5. minted' = [minted EXCEPT ![n] = new]
  BY <1>2
<1> HIDE DEF new
<1>6. minted' \in Seq(SignInToken) /\ Len(minted') = Len(minted)
      /\ \A i \in 1..Len(minted) : minted'[i] = IF i = n THEN new ELSE minted[i]
  BY <1>1, <1>4, <1>5, ExceptSeq
<1>7. \A i \in 1..Len(minted) : /\ minted'[i].of = minted[i].of
                                /\ minted'[i].kind = minted[i].kind /\ minted'[i].user = minted[i].user
  BY <1>4, <1>6
<1>8. Onward
  BY DEF Onward
<1>9. TokensSound'
  <2>1. \A i \in 1..Len(minted) : (TokenSound(minted[i]))' <=> TokenSound(minted[i])
    BY <1>7 DEF TokenSound, Spent, NamedUsers
  <2> QED BY <1>6, <2>1 DEF TokensSound, SigninInv
<1>10. OneHolds' /\ Unminted' /\ OneMinted'
  BY <1>6, <1>7 DEF SigninInv, OneHolds, Unminted, OneMinted, Holds
<1>11. \A t \in Thread : CallSound(t)'
  BY <1>8, CallStays DEF SigninInv
<1> QED BY <1>6, <1>9, <1>10, <1>11

LEMMA LogoutStep ==
  ASSUME SigninInv, NEW x \in Browser, Signin!Logout(x) \/ Signin!AdminRevoke(x)
  PROVE  SigninInv'
<1>1. /\ UNCHANGED <<signinNow, states, devices, signinCalls, approvals, returns>>
      /\ browsers' = browsers \/ browsers' = [browsers EXCEPT ![x].session = 0]
      /\ Signin!Revoke(browsers[x].session) \/ minted' = minted
  BY DEF Signin!Logout, Signin!AdminRevoke
<1>2. minted' \in Seq(SignInToken)
  BY <1>1, RevokeKept DEF SigninInv, SigninTyped
<1>3. SigninTyped'
  <2>1. browsers' \in [Browser -> [state : State \cup {NoState}, session : Nat]]
    <3>1. browsers \in [Browser -> [state : State \cup {NoState}, session : Nat]] /\ 0 \in Nat
      BY DEF SigninInv, SigninTyped
    <3>2. CASE browsers' = browsers
      BY <3>1, <3>2
    <3>3. CASE browsers' = [browsers EXCEPT ![x].session = 0]
      BY <3>1, <3>3
    <3> QED BY <1>1, <3>2, <3>3
  <2> QED BY <1>1, <1>2, <2>1, Zenon DEF SigninInv, SigninTyped
<1>4. CASE minted' = minted
  BY <1>1, <1>3, <1>4, MapsAlone, MapSteps
<1>5. CASE Signin!Revoke(browsers[x].session)
  BY <1>1, <1>3, <1>5, RevokeKept, MapsAlone DEF SigninInv
<1> QED BY <1>1, <1>4, <1>5

LEMMA ForgottenMap ==
  ASSUME NEW K, NEW map \in [K -> Entry], NEW new,
         new = [k \in K |-> IF map[k].at = "in" THEN Signin!Popped(map, k)[k] ELSE map[k]]
  PROVE  /\ new \in [K -> Entry]
         /\ \A k \in K : /\ new[k].at # "in" /\ new[k].user = map[k].user
                         /\ map[k].at # "new" => new[k].at = "gone"
<1>1. ASSUME NEW k \in K
      PROVE  /\ new[k] \in Entry /\ new[k].at # "in" /\ new[k].user = map[k].user
             /\ map[k].at # "new" => new[k].at = "gone"
  <2>1. map[k] \in Entry
    OBVIOUS
  <2>2. CASE map[k].at = "in"
    <3>1. new[k] = Signin!Popped(map, k)[k]
      BY <2>2
    <3> QED BY <2>1, <3>1, PoppedMap
  <2>3. CASE map[k].at # "in"
    <3>1. new[k] = map[k]
      BY <2>3
    <3> QED BY <2>1, <2>3, <3>1 DEF Entry
  <2> QED BY <2>2, <2>3
<1> QED BY <1>1

LEMMA SigninRestartStep ==
  ASSUME SignInAssumption, SigninInv, Signin!Restart
  PROVE  SigninInv'
<1>1. /\ UNCHANGED <<signinNow, browsers, minted, approvals, returns>>
      /\ signinCalls' = [t \in Thread |-> Signin!Idle]
      /\ states' = [k \in State |-> IF states[k].at = "in" THEN Signin!Popped(states, k)[k] ELSE states[k]]
      /\ devices' = [k \in Device |-> IF devices[k].at = "in" THEN Signin!Popped(devices, k)[k] ELSE devices[k]]
  BY DEF Signin!Restart
<1>2. states \in [State -> Entry] /\ devices \in [Device -> Entry] /\ SigninTyped /\ Bounded(states) /\ Bounded(devices)
  BY DEF SigninInv, SigninTyped
<1>3. /\ states' \in [State -> Entry] /\ devices' \in [Device -> Entry]
      /\ \A k \in State : states'[k].at # "in" /\ (states[k].at = "gone" => states'[k].at = "gone")
      /\ \A k \in Device : /\ devices'[k].at # "in" /\ devices'[k].user = devices[k].user
                           /\ devices[k].at # "new" => devices'[k].at = "gone"
  <2>1. PICK old, new : old = states /\ new = states' /\ old \in [State -> Entry]
    BY <1>2
  <2>2. PICK was, is : was = devices /\ is = devices' /\ was \in [Device -> Entry]
    BY <1>2
  <2>3. /\ new = [k \in State |-> IF old[k].at = "in" THEN Signin!Popped(old, k)[k] ELSE old[k]]
        /\ is = [k \in Device |-> IF was[k].at = "in" THEN Signin!Popped(was, k)[k] ELSE was[k]]
    BY <1>1, <2>1, <2>2
  <2>4. /\ new \in [State -> Entry]
        /\ \A k \in State : new[k].at # "in" /\ (old[k].at # "new" => new[k].at = "gone")
    BY <2>1, <2>3, ForgottenMap
  <2>5. /\ is \in [Device -> Entry]
        /\ \A k \in Device : /\ is[k].at # "in" /\ is[k].user = was[k].user
                             /\ was[k].at # "new" => is[k].at = "gone"
    BY <2>2, <2>3, ForgottenMap
  <2>6. "gone" # "new"
    OBVIOUS
  <2> QED BY <2>1, <2>2, <2>4, <2>5, <2>6
<1>4. Signin!Idle \in SignInCall
  BY DEF Signin!Idle, SignInCall
<1>5. SigninTyped'
  BY <1>1, <1>2, <1>3, <1>4 DEF SigninTyped
<1>6. Onward
  BY <1>1, <1>3 DEF Onward
<1>7. Bounded(states)' /\ Bounded(devices)'
  <2>1. Signin!Pending(states)' = {} /\ Signin!Pending(devices)' = {}
    BY <1>3 DEF Signin!Pending
  <2> QED BY <2>1, FS_EmptySet DEF Bounded, SignInAssumption
<1>8. \A t \in Thread : CallSound(t)' /\ ~Holds(t)'
  BY <1>1, IdleSound
<1>9. OneHolds' /\ Unminted' /\ OneMinted'
  BY <1>1, <1>8, HandsStay
<1>10. \A d \in Device : DeviceSound(d)'
  BY <1>3, <1>6, DeviceStays DEF SigninInv
<1> QED BY <1>1, <1>5, <1>6, <1>7, <1>8, <1>9, <1>10, TokensStay DEF SigninInv

(* The requests' steps that take nothing. *)

LEMMA SessionStep ==
  ASSUME SigninInv, NEW t \in Thread, NEW x \in Browser,
         Signin!Session(t, x, "find") \/ Signin!Session(t, x, "bearer")
  PROVE  SigninInv'
<1>1. PICK to \in {"find", "bearer"} : Signin!Session(t, x, to)
  OBVIOUS
<1> DEFINE n == browsers[x].session
           call == [Signin!Idle EXCEPT !.at = to, !.by = x, !.user = minted[n].user]
<1>2. /\ UNCHANGED <<signinNow, states, devices, browsers, minted, approvals, returns>>
      /\ n \in DOMAIN minted /\ signinCalls' = [signinCalls EXCEPT ![t] = call]
  BY <1>1 DEF Signin!Session, Signin!Goes, Signin!Stands
<1>3. minted \in Seq(SignInToken) /\ n \in 1..Len(minted) /\ signinCalls \in [Thread -> SignInCall] /\ SigninTyped
  BY <1>2, LenProperties DEF SigninInv, SigninTyped
<1>4. minted[n] \in SignInToken /\ TokenSound(minted[n])
  BY <1>3, ElementOfSeq DEF SigninInv, TokensSound
<1>5. call \in SignInCall /\ call.at = to /\ call.user = minted[n].user
  BY <1>4 DEF Signin!Idle, SignInCall, SignInToken
<1>6. call.user \in NamedUsers
  BY <1>4, <1>5 DEF TokenSound
<1> HIDE DEF call, n
<1>7. signinCalls'[t] = call /\ signinCalls' \in [Thread -> SignInCall]
      /\ \A u \in Thread \ {t} : signinCalls'[u] = signinCalls[u]
  BY <1>2, <1>3, <1>5
<1>8. SigninTyped'
  BY <1>2, <1>3, <1>7, Zenon DEF SigninTyped
<1>9. Onward /\ Bounded(states)' /\ Bounded(devices)' /\ \A d \in Device : DeviceSound(d)'
  BY <1>2, MapsAlone
<1>10. CallSound(t)' /\ ~Holds(t)'
  <2>1. NamedUsers \subseteq NamedUsers'
    BY <1>9, NamedStay
  <2> QED BY <1>5, <1>6, <1>7, <2>1 DEF CallSound, Holds
<1> QED BY <1>2, <1>7, <1>8, <1>9, <1>10, CallSteps

\* A request that is told to go on, or that it is over.
LEMMA GoesTyped ==
  ASSUME SigninInv, NEW t \in Thread, NEW call \in SignInCall, signinCalls' = [signinCalls EXCEPT ![t] = call]
  PROVE  /\ signinCalls'[t] = call /\ signinCalls' \in [Thread -> SignInCall]
         /\ \A u \in Thread \ {t} : signinCalls'[u] = signinCalls[u]
  BY DEF SigninInv, SigninTyped

LEMMA IdleTyped == Signin!Idle \in SignInCall
  BY DEF Signin!Idle, SignInCall

LEMMA PollStep ==
  ASSUME SigninInv, NEW t \in Thread, NEW d \in Device, Signin!Poll(t, d)
  PROVE  SigninInv'
<1> DEFINE next == [Signin!Idle EXCEPT !.at = "take", !.of = d]
<1>1. /\ UNCHANGED <<signinNow, states, devices, browsers, minted, approvals, returns>>
      /\ devices[d].at = "in" /\ devices[d].user # NoPerson
      /\ signinCalls' = [signinCalls EXCEPT ![t] = next]
  BY DEF Signin!Poll, Signin!Goes, Signin!Live
<1>2. next \in SignInCall /\ next.at = "take" /\ next.of = d
  BY DEF Signin!Idle, SignInCall, SignInCode
<1> HIDE DEF next
<1>3. /\ signinCalls'[t] = next /\ signinCalls' \in [Thread -> SignInCall]
      /\ \A u \in Thread \ {t} : signinCalls'[u] = signinCalls[u]
  BY <1>1, <1>2, GoesTyped
<1>4. SigninTyped'
  BY <1>1, <1>3, Zenon DEF SigninInv, SigninTyped
<1>5. Onward /\ Bounded(states)' /\ Bounded(devices)' /\ \A k \in Device : DeviceSound(k)'
  BY <1>1, MapsAlone
<1>6. CallSound(t)' /\ ~Holds(t)'
  BY <1>1, <1>2, <1>3 DEF CallSound, Holds
<1> QED BY <1>1, <1>3, <1>4, <1>5, <1>6, CallSteps

LEMMA FindStep ==
  ASSUME SigninInv, NEW t \in Thread, NEW d \in Device, Signin!Find(t, d)
  PROVE  SigninInv'
<1> DEFINE found == Signin!Live(devices[d]) /\ devices[d].user = NoPerson
           next == IF found THEN [signinCalls[t] EXCEPT !.at = "set", !.of = d] ELSE Signin!Idle
<1>1. /\ UNCHANGED <<signinNow, states, devices, browsers, minted, approvals, returns>>
      /\ signinCalls[t].at = "find" /\ signinCalls' = [signinCalls EXCEPT ![t] = next]
  BY DEF Signin!Find, Signin!Goes
<1>2. signinCalls[t] \in SignInCall /\ CallSound(t)
  BY DEF SigninInv, SigninTyped
<1>3. \/ next = Signin!Idle
      \/ /\ next.at = "set" /\ next.of = d /\ next.user = signinCalls[t].user /\ next \in SignInCall
         /\ devices[d].at = "in"
  BY <1>2 DEF Signin!Live, SignInCall, SignInCode
<1>4. next \in SignInCall
  BY <1>3, IdleTyped
<1> HIDE DEF next
<1>5. /\ signinCalls'[t] = next /\ signinCalls' \in [Thread -> SignInCall]
      /\ \A u \in Thread \ {t} : signinCalls'[u] = signinCalls[u]
  BY <1>1, <1>4, GoesTyped
<1>6. SigninTyped'
  BY <1>1, <1>5, Zenon DEF SigninInv, SigninTyped
<1>7. Onward /\ Bounded(states)' /\ Bounded(devices)' /\ \A k \in Device : DeviceSound(k)'
  BY <1>1, MapsAlone
<1>8. CallSound(t)' /\ ~Holds(t)'
  <2>1. CASE next = Signin!Idle
    BY <1>5, <2>1, IdleSound
  <2>2. CASE next.at = "set" /\ next.of = d /\ next.user = signinCalls[t].user /\ devices[d].at = "in"
    <3>1. NamedUsers \subseteq NamedUsers' /\ signinCalls[t].user \in NamedUsers
      BY <1>1, <1>2, <1>7, NamedStay DEF CallSound
    <3> QED BY <1>1, <1>5, <2>2, <3>1 DEF CallSound, Holds
  <2> QED BY <1>3, <2>1, <2>2
<1> QED BY <1>1, <1>5, <1>6, <1>7, <1>8, CallSteps

\* An approval is written on what may be in the map no more.
LEMMA SetStep ==
  ASSUME SignInAssumption, SigninInv, NEW t \in Thread, Signin!Set(t)
  PROVE  SigninInv'
<1>1. PICK call \in SignInCall : call = signinCalls[t]
  BY DEF SigninInv, SigninTyped
<1>2. /\ UNCHANGED <<signinNow, states, browsers, minted, returns>>
      /\ call.at = "set" /\ approvals' = approvals \cup {<<call.of, call.user>>}
      /\ devices' = [devices EXCEPT ![call.of].user = call.user]
      /\ signinCalls' = [signinCalls EXCEPT ![t] = Signin!Idle]
  BY <1>1 DEF Signin!Set, Signin!Goes
<1>3. call.of \in Device /\ call.user \in NamedUsers /\ devices[call.of].at # "new"
  BY <1>1, <1>2 DEF SigninInv, CallSound
<1>4. NamedUsers \subseteq Slug
  BY DEF SigninInv, SigninTyped, NamedUsers, Slug
<1>5. /\ devices \in [Device -> Entry]
      /\ devices' \in [Device -> Entry] /\ devices'[call.of].user = call.user
      /\ \A k \in Device : devices'[k].at = devices[k].at /\ (k # call.of => devices'[k].user = devices[k].user)
  <2>1. devices \in [Device -> Entry]
    BY DEF SigninInv, SigninTyped
  <2> QED BY <1>2, <1>3, <1>4, <2>1 DEF Entry
<1>6. /\ signinCalls'[t] = Signin!Idle /\ signinCalls' \in [Thread -> SignInCall]
      /\ \A u \in Thread \ {t} : signinCalls'[u] = signinCalls[u]
  BY <1>2, IdleTyped, GoesTyped
<1>7. SigninTyped'
  BY <1>2, <1>5, <1>6, Zenon DEF SigninInv, SigninTyped
<1>8. Onward
  <2>1. call.user # NoPerson
    BY <1>3, <1>4 DEF Slug, SignInAssumption
  <2> QED BY <1>2, <1>5, <2>1 DEF Onward
<1>9. Bounded(states)' /\ Bounded(devices)'
  <2>1. Signin!Pending(devices)' = Signin!Pending(devices) /\ Signin!Pending(states)' = Signin!Pending(states)
    BY <1>2, <1>5 DEF Signin!Pending
  <2> QED BY <2>1 DEF SigninInv, Bounded
<1>10. \A k \in Device : DeviceSound(k)'
  <2> TAKE k \in Device
  <2>1. CASE k = call.of
    <3>1. call.user \in NamedUsers'
      BY <1>3, <1>8, NamedStay
    <3> QED BY <1>2, <1>5, <2>1, <3>1 DEF DeviceSound
  <2>2. CASE k # call.of
    BY <1>5, <1>8, <2>2, DeviceStays DEF SigninInv
  <2> QED BY <2>1, <2>2
<1>11. CallSound(t)' /\ ~Holds(t)'
  BY <1>6, IdleSound
<1> QED BY <1>2, <1>6, <1>7, <1>8, <1>9, <1>10, <1>11, CallSteps

(* The requests' steps that take something. *)

\* A step that takes a code into one request's hands, which was in its map.
LEMMA TakingSteps ==
  ASSUME SigninInv, SigninTyped', Onward, minted' = minted, NEW t \in Thread, CallSound(t)',
         \A u \in Thread \ {t} : signinCalls'[u] = signinCalls[u],
         NEW k, signinCalls'[t].of = k, ~Spent(k),
         \A d \in Device : DeviceSound(d)', Bounded(states)', Bounded(devices)'
  PROVE  SigninInv'
<1>1. \A u \in Thread : CallSound(u)'
  <2> TAKE u \in Thread
  <2>1. CASE u = t
    BY <2>1
  <2>2. CASE u # t
    BY <2>2, CallStays DEF SigninInv
  <2> QED BY <2>1, <2>2
<1>2. \A u \in Thread \ {t} : Holds(u)' => Holds(u) /\ signinCalls'[u].of = signinCalls[u].of /\ signinCalls[u].of # k
  BY DEF Holds, SigninInv, CallSound
<1>3. OneHolds'
  BY <1>2 DEF SigninInv, OneHolds
<1>4. Unminted'
  <2>1. \A i \in 1..Len(minted) : minted[i].of # k
    BY DEF SigninInv, TokensSound, TokenSound
  <2> QED BY <1>2, <2>1 DEF SigninInv, Unminted
<1>5. OneMinted' /\ TokensSound'
  BY TokensStay DEF SigninInv, OneMinted
<1> QED BY <1>1, <1>3, <1>4, <1>5 DEF SigninInv

LEMMA CallbackStep ==
  ASSUME SignInAssumption, SigninInv, NEW t \in Thread, NEW x \in Browser, Signin!Callback(t, x)
  PROVE  SigninInv'
<1> DEFINE next == [Signin!Idle EXCEPT !.at = "identify", !.of = browsers[x].state, !.by = x]
<1>1. PICK k \in State : k = browsers[x].state
  BY DEF Signin!Callback, SigninInv, SigninTyped
<1>2. /\ UNCHANGED <<signinNow, devices, browsers, minted, approvals, returns>>
      /\ signinCalls[t].at = "idle" /\ states' = Signin!Popped(states, k)
      /\ \/ states[k].at = "in" /\ signinCalls' = [signinCalls EXCEPT ![t] = next]
         \/ signinCalls' = signinCalls
  BY <1>1 DEF Signin!Callback, Signin!Goes, Signin!Live
<1>3. next \in SignInCall /\ next.at = "identify" /\ next.of = k
  BY <1>1 DEF Signin!Idle, SignInCall, SignInCode
<1> HIDE DEF next
<1>4. SigninTyped /\ states \in [State -> Entry] /\ Bounded(states) /\ Bounded(devices)
  BY DEF SigninInv, SigninTyped
<1>5. states' \in [State -> Entry] /\ states'[k].at = "gone" /\ \A j \in State \ {k} : states'[j] = states[j]
  BY <1>2, <1>4, PoppedMap
<1>6. Onward
  BY <1>2, <1>5 DEF Onward
<1>7. Bounded(states)' /\ Bounded(devices)'
  <2>1. PICK now1 : now1 = states'
    OBVIOUS
  <2>2. Bounded(now1)
    BY <1>2, <1>4, <2>1, BoundedPopped
  <2> QED BY <1>2, <1>4, <2>1, <2>2 DEF Bounded, Signin!Pending
<1>8. \A d \in Device : DeviceSound(d)'
  BY <1>2, <1>6, DeviceStays DEF SigninInv
<1>9. CASE signinCalls' = signinCalls
  <2>1. SigninTyped'
    BY <1>2, <1>4, <1>5, <1>9, Zenon DEF SigninTyped
  <2> QED BY <1>2, <1>6, <1>7, <1>9, <2>1, MapSteps
<1>10. CASE states[k].at = "in" /\ signinCalls' = [signinCalls EXCEPT ![t] = next]
  <2>1. /\ signinCalls'[t] = next /\ signinCalls' \in [Thread -> SignInCall]
        /\ \A u \in Thread \ {t} : signinCalls'[u] = signinCalls[u]
    BY <1>3, <1>10, GoesTyped
  <2>2. SigninTyped'
    BY <1>2, <1>4, <1>5, <2>1, Zenon DEF SigninTyped
  <2>3. ~Spent(k)
    BY <1>10 DEF Spent
  <2>4. CallSound(t)'
    BY <1>3, <1>5, <2>1 DEF CallSound, Holds, Spent, SignInAssumption
  <2> QED BY <1>2, <1>3, <1>6, <1>7, <1>8, <2>1, <2>2, <2>3, <2>4, TakingSteps
<1> QED BY <1>2, <1>9, <1>10

LEMMA TakeStep ==
  ASSUME SignInAssumption, SigninInv, NEW t \in Thread, Signin!Take(t)
  PROVE  SigninInv'
<1>1. PICK call \in SignInCall : call = signinCalls[t]
  BY DEF SigninInv, SigninTyped
<1>2. PICK k : k = call.of
  OBVIOUS
<1>3. PICK user : user = devices[k].user
  OBVIOUS
<1> DEFINE mints == [call EXCEPT !.at = "mint", !.user = user]
<1>4. /\ UNCHANGED <<signinNow, states, browsers, minted, approvals, returns>>
      /\ call.at = "take" /\ devices' = Signin!Popped(devices, k)
      /\ \/ devices[k].at = "in" /\ signinCalls' = [signinCalls EXCEPT ![t] = mints]
         \/ signinCalls' = [signinCalls EXCEPT ![t] = Signin!Idle]
  BY <1>1, <1>2, <1>3 DEF Signin!Take, Signin!Goes, Signin!Live
<1>5. k \in Device /\ user # NoPerson /\ <<k, user>> \in approvals /\ user \in NamedUsers
  BY <1>1, <1>2, <1>3, <1>4 DEF SigninInv, CallSound, DeviceSound
<1>6. SigninTyped /\ devices \in [Device -> Entry] /\ Bounded(states) /\ Bounded(devices)
  BY DEF SigninInv, SigninTyped
<1>7. mints \in SignInCall /\ mints.at = "mint" /\ mints.of = k /\ mints.user = user
  BY <1>2, <1>3, <1>5, <1>6 DEF SignInCall, Entry
<1> HIDE DEF mints
<1>8. /\ devices' \in [Device -> Entry] /\ devices'[k].at = "gone" /\ devices'[k].user = devices[k].user
      /\ \A j \in Device \ {k} : devices'[j] = devices[j]
  BY <1>4, <1>5, <1>6, PoppedMap
<1>9. Onward
  BY <1>4, <1>8 DEF Onward
<1>10. Bounded(states)' /\ Bounded(devices)'
  <2>1. PICK now1 : now1 = devices'
    OBVIOUS
  <2>2. Bounded(now1)
    BY <1>4, <1>5, <1>6, <2>1, BoundedPopped
  <2> QED BY <1>4, <1>6, <2>1, <2>2 DEF Bounded, Signin!Pending
<1>11. \A d \in Device : DeviceSound(d)'
  <2>1. \A d \in Device : devices'[d].user = devices[d].user
    BY <1>8
  <2> QED BY <1>9, <2>1, DeviceStays DEF SigninInv
<1>12. CASE signinCalls' = [signinCalls EXCEPT ![t] = Signin!Idle]
  <2>1. /\ signinCalls'[t] = Signin!Idle /\ signinCalls' \in [Thread -> SignInCall]
        /\ \A u \in Thread \ {t} : signinCalls'[u] = signinCalls[u]
    BY <1>12, IdleTyped, GoesTyped
  <2>2. SigninTyped'
    BY <1>4, <1>6, <1>8, <2>1, Zenon DEF SigninTyped
  <2>3. CallSound(t)' /\ ~Holds(t)'
    BY <2>1, IdleSound
  <2> QED BY <1>4, <1>9, <1>10, <1>11, <2>1, <2>2, <2>3, CallSteps
<1>13. CASE devices[k].at = "in" /\ signinCalls' = [signinCalls EXCEPT ![t] = mints]
  <2>1. /\ signinCalls'[t] = mints /\ signinCalls' \in [Thread -> SignInCall]
        /\ \A u \in Thread \ {t} : signinCalls'[u] = signinCalls[u]
    BY <1>7, <1>13, GoesTyped
  <2>2. SigninTyped'
    BY <1>4, <1>6, <1>8, <2>1, Zenon DEF SigninTyped
  <2>3. ~Spent(k)
    BY <1>5, <1>13 DEF Spent
  <2>4. CallSound(t)'
    <3>1. user \in NamedUsers'
      BY <1>5, <1>9, NamedStay
    <3>2. Spent(k)'
      BY <1>5, <1>8 DEF Spent, SignInAssumption
    <3>3. signinCalls'[t].at = "mint" /\ signinCalls'[t].of = k /\ signinCalls'[t].user = user
      BY <1>7, <2>1
    <3>4. Spent(signinCalls[t].of)'
      BY <3>2, <3>3 DEF Spent
    <3> QED BY <1>4, <1>5, <3>1, <3>3, <3>4 DEF CallSound, Holds
  <2> QED BY <1>4, <1>7, <1>9, <1>10, <1>11, <2>1, <2>2, <2>3, <2>4, TakingSteps
<1> QED BY <1>4, <1>12, <1>13

(* The steps that mint. *)

\* A step that mints a token of what the request had in hand, or of no code.
LEMMA MintingSteps ==
  ASSUME SignInAssumption, SigninInv, SigninTyped', Onward, NEW t \in Thread, signinCalls'[t] = Signin!Idle,
         \A u \in Thread \ {t} : signinCalls'[u] = signinCalls[u],
         NEW new \in SignInToken, minted' = Append(minted, new), TokenSound(new)',
         (Holds(t) /\ new.of = signinCalls[t].of) \/ new.of = NoState,
         \A d \in Device : DeviceSound(d)', Bounded(states)', Bounded(devices)'
  PROVE  SigninInv'
<1>1. /\ minted \in Seq(SignInToken) /\ Len(minted) \in Nat /\ Len(minted') = Len(minted) + 1
      /\ \A i \in 1..Len(minted) : minted'[i] = minted[i]
      /\ minted'[Len(minted) + 1] = new
  BY AppendProperties, LenProperties DEF SigninInv, SigninTyped
<1>2. \A i \in 1..Len(minted') : i \in 1..Len(minted) \/ i = Len(minted) + 1
  BY <1>1
<1>3. ~Holds(t)' /\ CallSound(t)'
  BY IdleSound
<1>4. \A u \in Thread : CallSound(u)'
  <2> TAKE u \in Thread
  <2>1. CASE u = t
    BY <1>3, <2>1
  <2>2. CASE u # t
    BY <2>2, CallStays DEF SigninInv
  <2> QED BY <2>1, <2>2
<1>5. \A u \in Thread : Holds(u)' =>
        u # t /\ Holds(u) /\ signinCalls'[u].of = signinCalls[u].of /\ signinCalls[u].of \in SignInCode
  BY <1>3 DEF Holds, SigninInv, CallSound, SignInCode
<1>6. OneHolds'
  BY <1>5 DEF SigninInv, OneHolds
<1>7. Unminted'
  <2> SUFFICES ASSUME NEW u \in Thread, NEW i \in 1..Len(minted'), Holds(u)'
               PROVE  minted'[i].of # signinCalls'[u].of
    BY DEF Unminted
  <2>1. CASE i \in 1..Len(minted)
    BY <1>1, <1>5, <2>1 DEF SigninInv, Unminted
  <2>2. CASE i = Len(minted) + 1
    BY <1>1, <1>5, <2>2 DEF SigninInv, OneHolds, SignInAssumption, SignInCode
  <2> QED BY <1>2, <2>1, <2>2
<1>8. OneMinted'
  <2>1. \A i \in 1..Len(minted) : new.of # NoState => minted[i].of # new.of
    BY DEF SigninInv, Unminted
  <2> SUFFICES ASSUME NEW i \in 1..Len(minted'), NEW j \in 1..Len(minted'),
                      minted'[i].of = minted'[j].of, minted'[i].of # NoState
               PROVE  i = j
    BY DEF OneMinted
  <2>2. CASE i \in 1..Len(minted) /\ j \in 1..Len(minted)
    BY <1>1, <2>2 DEF SigninInv, OneMinted
  <2> QED BY <1>1, <1>2, <2>1, <2>2
<1>9. TokensSound'
  <2> SUFFICES ASSUME NEW i \in 1..Len(minted')
               PROVE  TokenSound(minted[i])'
    BY DEF TokensSound
  <2>1. CASE i \in 1..Len(minted)
    <3>1. PICK m : m = minted[i]
      OBVIOUS
    <3>2. TokenSound(m)'
      BY <2>1, <3>1, TokenStays DEF SigninInv, TokensSound
    <3> QED BY <1>1, <2>1, <3>1, <3>2 DEF TokenSound, Spent
  <2>2. CASE i = Len(minted) + 1
    BY <1>1, <2>2 DEF TokenSound, Spent
  <2> QED BY <1>2, <2>1, <2>2
<1> QED BY <1>4, <1>6, <1>7, <1>8, <1>9 DEF SigninInv

\* A request that is over, and has minted nothing.
LEMMA EndedStep ==
  ASSUME SigninInv, NEW t \in Thread, signinCalls' = [signinCalls EXCEPT ![t] = Signin!Idle],
         UNCHANGED <<signinNow, states, devices, browsers, minted, approvals, returns>>
  PROVE  SigninInv'
<1>1. /\ signinCalls'[t] = Signin!Idle /\ signinCalls' \in [Thread -> SignInCall]
      /\ \A u \in Thread \ {t} : signinCalls'[u] = signinCalls[u]
  BY IdleTyped, GoesTyped
<1>2. SigninTyped'
  BY <1>1, Zenon DEF SigninInv, SigninTyped
<1> QED BY <1>1, <1>2, IdleSound, MapsAlone, CallSteps

\* A request that has minted a token, and is over.
LEMMA MintedStep ==
  ASSUME SignInAssumption, SigninInv, NEW t \in Thread, signinCalls' = [signinCalls EXCEPT ![t] = Signin!Idle],
         UNCHANGED <<signinNow, states, devices, approvals>>,
         browsers' \in [Browser -> [state : State \cup {NoState}, session : Nat]],
         returns \subseteq returns', returns' \subseteq State \X {p \in Person : Signin!Allowed(p)},
         NEW new \in SignInToken, minted' = Append(minted, new), TokenSound(new)',
         (Holds(t) /\ new.of = signinCalls[t].of) \/ new.of = NoState
  PROVE  SigninInv'
<1>1. /\ signinCalls'[t] = Signin!Idle /\ signinCalls' \in [Thread -> SignInCall]
      /\ \A u \in Thread \ {t} : signinCalls'[u] = signinCalls[u]
  BY IdleTyped, GoesTyped
<1>2. minted' \in Seq(SignInToken)
  BY AppendProperties DEF SigninInv, SigninTyped
<1>3. SigninTyped'
  BY <1>1, <1>2, Zenon DEF SigninInv, SigninTyped
<1>4. Onward /\ Bounded(states)' /\ Bounded(devices)' /\ \A k \in Device : DeviceSound(k)'
  BY MapsAlone
<1> QED BY <1>1, <1>3, <1>4, MintingSteps

LEMMA IdentifiedStep ==
  ASSUME SignInAssumption, SigninInv, NEW t \in Thread, Signin!Identified(t)
  PROVE  SigninInv'
<1>1. PICK call \in SignInCall : call = signinCalls[t]
  BY DEF SigninInv, SigninTyped
<1>2. /\ UNCHANGED <<signinNow, states, devices, approvals>>
      /\ call.at = "identify" /\ signinCalls' = [signinCalls EXCEPT ![t] = Signin!Idle]
  BY <1>1 DEF Signin!Identified, Signin!Goes
<1>3. CASE UNCHANGED <<minted, browsers, returns>>
  BY <1>2, <1>3, EndedStep
<1>4. ASSUME NEW p \in Person, Signin!Allowed(p), Signin!Mint("web", Signin!UserSlug(p), call.of),
             returns' = returns \cup {<<call.of, p>>},
             browsers' = [browsers EXCEPT ![call.by] = [state |-> NoState, session |-> Len(minted) + 1]]
      PROVE  SigninInv'
  <2> DEFINE new == [kind |-> "web", user |-> Signin!UserSlug(p), of |-> call.of, revoked |-> FALSE]
  <2>1. Holds(t) /\ call.of \in State /\ Spent(call.of)
    BY <1>1, <1>2 DEF SigninInv, CallSound, Holds
  <2>2. new \in SignInToken /\ new.of = call.of /\ new.kind = "web" /\ new.user = Signin!UserSlug(p)
    BY DEF SignInToken, Slug, SignInCall
  <2>3. minted' = Append(minted, new)
    BY <1>4 DEF Signin!Mint
  <2> HIDE DEF new
  <2>4. returns' \subseteq State \X {q \in Person : Signin!Allowed(q)}
    BY <1>4, <2>1 DEF SigninInv, SigninTyped
  <2>5. browsers' \in [Browser -> [state : State \cup {NoState}, session : Nat]]
    <3>1. Len(minted) + 1 \in Nat
      BY LenProperties DEF SigninInv, SigninTyped
    <3>2. browsers \in [Browser -> [state : State \cup {NoState}, session : Nat]]
      BY DEF SigninInv, SigninTyped
    <3> QED BY <1>4, <3>1, <3>2
  <2>6. Onward
    BY <1>2, <1>4 DEF Onward
  <2>7. TokenSound(new)'
    <3>1. PICK k : k = call.of
      OBVIOUS
    <3>2. Spent(k)'
      BY <2>1, <2>6, <3>1, SpentStays
    <3>3. new.user \in NamedUsers'
      <4>1. PICK r \in returns' : r = <<call.of, p>>
        BY <1>4
      <4> QED BY <2>2, <4>1 DEF NamedUsers
    <3>4. <<new.of, p>> \in returns'
      BY <1>4, <2>2
    <3> QED BY <1>4, <2>2, <3>1, <3>2, <3>3, <3>4 DEF TokenSound
  <2> QED BY <1>1, <1>2, <1>4, <2>1, <2>2, <2>3, <2>4, <2>5, <2>7, MintedStep
<1> QED BY <1>1, <1>3, <1>4 DEF Signin!Identified

LEMMA BearerStep ==
  ASSUME SignInAssumption, SigninInv, NEW t \in Thread, Signin!Bearer(t)
  PROVE  SigninInv'
<1>0. PICK call \in SignInCall : call = signinCalls[t]
  BY DEF SigninInv, SigninTyped
<1> DEFINE new == [kind |-> "play", user |-> call.user, of |-> NoState, revoked |-> FALSE]
<1>1. /\ UNCHANGED <<signinNow, states, devices, browsers, approvals, returns>>
      /\ call.at = "bearer" /\ signinCalls' = [signinCalls EXCEPT ![t] = Signin!Idle]
      /\ minted' = Append(minted, new)
  BY <1>0 DEF Signin!Bearer, Signin!Goes, Signin!Mint
<1>2. call.user \in NamedUsers /\ NamedUsers \subseteq Slug
  BY <1>0, <1>1 DEF SigninInv, SigninTyped, CallSound, NamedUsers, Slug
<1>3. new \in SignInToken /\ new.of = NoState /\ new.kind = "play" /\ new.user = call.user
  BY <1>2 DEF SignInToken
<1> HIDE DEF new
<1>4. TokenSound(new)'
  <2>1. Spent(new.of)'
    BY <1>3 DEF Spent, SignInAssumption
  <2>2. new.user \in NamedUsers'
    BY <1>1, <1>2, <1>3 DEF NamedUsers
  <2> QED BY <1>3, <2>1, <2>2 DEF TokenSound
<1>5. /\ browsers' \in [Browser -> [state : State \cup {NoState}, session : Nat]]
      /\ returns' \subseteq State \X {p \in Person : Signin!Allowed(p)}
  BY <1>1 DEF SigninInv, SigninTyped
<1> QED BY <1>1, <1>3, <1>4, <1>5, MintedStep

LEMMA MintCliStep ==
  ASSUME SignInAssumption, SigninInv, NEW t \in Thread, Signin!MintCli(t)
  PROVE  SigninInv'
<1>1. PICK call \in SignInCall : call = signinCalls[t]
  BY DEF SigninInv, SigninTyped
<1> DEFINE new == [kind |-> "cli", user |-> call.user, of |-> call.of, revoked |-> FALSE]
<1>2. /\ UNCHANGED <<signinNow, states, devices, browsers, approvals, returns>>
      /\ call.at = "mint" /\ signinCalls' = [signinCalls EXCEPT ![t] = Signin!Idle]
      /\ minted' = minted \/ minted' = Append(minted, new)
  BY <1>1 DEF Signin!MintCli, Signin!Goes, Signin!Mint
<1>3. /\ Holds(t) /\ call.of \in Device /\ Spent(call.of) /\ <<call.of, call.user>> \in approvals
      /\ call.user \in NamedUsers /\ NamedUsers \subseteq Slug
  BY <1>1, <1>2 DEF SigninInv, SigninTyped, CallSound, Holds, NamedUsers, Slug
<1>4. CASE minted' = minted
  BY <1>2, <1>4, EndedStep
<1>5. CASE minted' = Append(minted, new)
  <2>1. new \in SignInToken /\ new.of = call.of /\ new.kind = "cli" /\ new.user = call.user
    BY <1>3 DEF SignInToken, SignInCall
  <2> HIDE DEF new
  <2>2. TokenSound(new)'
    <3>1. PICK k : k = call.of
      OBVIOUS
    <3>2. Spent(k)'
      BY <1>2, <1>3, <3>1 DEF Spent
    <3>3. new.user \in NamedUsers'
      BY <1>2, <1>3, <2>1 DEF NamedUsers
    <3> QED BY <1>2, <1>3, <2>1, <3>1, <3>2, <3>3 DEF TokenSound
  <2>3. /\ browsers' \in [Browser -> [state : State \cup {NoState}, session : Nat]]
        /\ returns' \subseteq State \X {p \in Person : Signin!Allowed(p)}
    BY <1>2 DEF SigninInv, SigninTyped
  <2> QED BY <1>1, <1>2, <1>3, <1>5, <2>1, <2>2, <2>3, MintedStep
<1> QED BY <1>2, <1>4, <1>5

LEMMA SigninNext ==
  ASSUME SignInAssumption, SigninInv, Signin!Next
  PROVE  SigninInv'
<1>1. CASE \E x \in Browser, k \in State : Signin!Login(x, k)
  BY <1>1, LoginStep
<1>2. CASE \E t \in Thread, x \in Browser :
             Signin!Callback(t, x) \/ Signin!Session(t, x, "find") \/ Signin!Session(t, x, "bearer")
  BY <1>2, CallbackStep, SessionStep
<1>3. CASE \E t \in Thread : \/ Signin!Identified(t) \/ Signin!Bearer(t) \/ Signin!Take(t)
                             \/ Signin!MintCli(t) \/ Signin!Set(t)
  BY <1>3, IdentifiedStep, BearerStep, TakeStep, MintCliStep, SetStep
<1>4. CASE \E t \in Thread, d \in Device : Signin!Poll(t, d) \/ Signin!Find(t, d)
  BY <1>4, PollStep, FindStep
<1>5. CASE \E d \in Device : Signin!DeviceStart(d)
  BY <1>5, DeviceStartStep
<1>6. CASE \E x \in Browser : Signin!Logout(x) \/ Signin!AdminRevoke(x)
  BY <1>6, LogoutStep
<1>7. CASE Signin!Restart
  BY <1>7, SigninRestartStep
<1>8. CASE Signin!Tick
  BY <1>8, SigninTickStep
<1> QED BY <1>1, <1>2, <1>3, <1>4, <1>5, <1>6, <1>7, <1>8 DEF Signin!Next

(* What it comes to. *)

LEMMA SigninPromise ==
  ASSUME SignInAssumption, SigninInv
  PROVE  Signin!SignInIsSound
<1>1. DOMAIN minted = 1..Len(minted)
  BY LenProperties DEF SigninInv, SigninTyped
<1>2. Signin!OneTokenPerCode
  BY <1>1 DEF SigninInv, OneMinted, Signin!OneTokenPerCode
<1>3. Signin!TokensAreGranted
  BY <1>1 DEF SigninInv, TokensSound, TokenSound, Signin!TokensAreGranted
<1>4. Signin!UsersSignedIn
  <2> SUFFICES ASSUME NEW i \in 1..Len(minted)
               PROVE  \E r \in returns : Signin!Allowed(r[2]) /\ minted[i].user = Signin!UserSlug(r[2])
    BY <1>1 DEF Signin!UsersSignedIn
  <2>1. PICK r \in returns : minted[i].user = Signin!UserSlug(r[2])
    BY DEF SigninInv, TokensSound, TokenSound, NamedUsers
  <2>2. Signin!Allowed(r[2])
    BY DEF SigninInv, SigninTyped
  <2> QED BY <2>1, <2>2
<1>5. Signin!MapsAreBounded
  BY SigninCardinality DEF SigninInv, Bounded, Signin!MapsAreBounded
<1> QED BY <1>2, <1>3, <1>4, <1>5 DEF Signin!SignInIsSound

(***************************************************************************)
(* The catalog.  Below the end of the last window, or of the scan's that   *)
(* runs, every row was told of but the late ones; above it none was.       *)
(***************************************************************************)

CatalogRow == [path : Path \cup {""}, imported_at : Nat, seen_at : Nat]
CatalogWrite == [kind : {"none", "put", "touch"}, key : Key \cup {""}, path : Path \cup {""},
                 now : Nat, force : BOOLEAN]

ScanMemory == [at : Nat, rows : SUBSET Key, left : SUBSET (Path \cup {""}), missing : SUBSET (Path \cup {""})]

\* Until when what was imported has been asked for.
Asked == IF scan = Catalog!NoScan THEN since ELSE scan.at

ScanTyped ==
  /\ catalogClock \in Nat \ {0}
  /\ catalogRows \in [Key -> CatalogRow]
  /\ catalogWrites \in [Writer -> CatalogWrite]
  /\ disk \in [Path -> Catalog!Sort]
  /\ since \in Nat
  /\ scan \in ScanMemory

ScanInv ==
  /\ ScanTyped
  /\ \A w \in Writer : LET u == catalogWrites[w] IN
       u.kind # "none" => u.key \in Key /\ u.now \in 1..catalogClock
  /\ scan = Catalog!NoScan \/ (scan.at \in 1..catalogClock /\ since <= scan.at)
  /\ since <= catalogClock
  /\ \A k \in Catalog!Entries \cap told : catalogRows[k].imported_at < Asked
  /\ \A k \in Catalog!Entries \ late : catalogRows[k].imported_at < Asked => k \in told
  /\ ~twice

LEMMA ScanStarts ==
  ASSUME Catalog!Init
  PROVE  ScanInv
<1>1. /\ catalogClock = 1 /\ since = 0 /\ told = {} /\ late = {} /\ twice = FALSE
      /\ catalogRows = [k \in Key |-> Catalog!NoRow]
      /\ catalogWrites = [w \in Writer |-> Catalog!NoWrite]
      /\ disk = [p \in Path |-> "file"] /\ scan = Catalog!NoScan
  BY DEF Catalog!Init
<1>2. 0 \in Nat /\ 1 \in Nat \ {0} /\ Catalog!NoScan.at = 0 /\ Catalog!NoWrite.kind = "none"
  BY DEF Catalog!NoScan, Catalog!NoWrite
<1>3. Catalog!NoRow \in CatalogRow /\ Catalog!NoWrite \in CatalogWrite /\ "file" \in Catalog!Sort
  BY <1>2 DEF Catalog!NoRow, Catalog!NoWrite, CatalogRow, CatalogWrite, Catalog!Sort
<1>4. ScanTyped
  <2>1. scan \in ScanMemory
    BY <1>1, <1>2 DEF Catalog!NoScan, ScanMemory
  <2> QED BY <1>1, <1>2, <1>3, <2>1, Zenon DEF ScanTyped
<1>5. Catalog!Entries = {}
  BY <1>1 DEF Catalog!Entries
<1> QED BY <1>1, <1>2, <1>4, <1>5 DEF ScanInv

\* The steps that leave the rows and what was told of them alone.
LEMMA RowsAlone ==
  ASSUME ScanInv, ScanTyped', UNCHANGED <<catalogRows, scan, since, told, late, twice>>,
         catalogClock' >= catalogClock,
         \A w \in Writer : LET u == catalogWrites'[w] IN
           u.kind # "none" => u.key \in Key /\ u.now \in 1..catalogClock'
  PROVE  ScanInv'
<1>1. Asked' = Asked /\ Catalog!Entries' = Catalog!Entries
  BY DEF Asked, Catalog!Entries
<1>2. (scan = Catalog!NoScan)' <=> scan = Catalog!NoScan
  BY DEF Catalog!NoScan
<1>3. catalogClock \in Nat /\ catalogClock' \in Nat /\ since \in Nat /\ scan.at \in Nat
  BY DEF ScanInv, ScanTyped, ScanMemory
<1> QED BY <1>1, <1>2, <1>3 DEF ScanInv

LEMMA ClockIsNow ==
  ASSUME ScanInv
  PROVE  catalogClock \in 1..catalogClock /\ catalogClock >= catalogClock
<1>1. catalogClock \in Nat \ {0}
  BY DEF ScanInv, ScanTyped
<1> QED BY <1>1

LEMMA CatalogArriveStep ==
  ASSUME ScanInv, NEW w \in Writer, NEW kind \in {"put", "touch"}, NEW k \in Key, NEW p \in Path \cup {""},
         NEW f \in BOOLEAN, Catalog!Arrive(w, kind, k, p, f)
  PROVE  ScanInv'
<1> DEFINE u == [kind |-> kind, key |-> k, path |-> p, now |-> catalogClock, force |-> f]
<1>1. /\ catalogWrites' = [catalogWrites EXCEPT ![w] = u]
      /\ UNCHANGED <<catalogClock, catalogRows, disk, scan, since, told, late, twice>>
  BY DEF Catalog!Arrive
<1>2. catalogClock \in Nat \ {0} /\ catalogWrites \in [Writer -> CatalogWrite] /\ ScanTyped
  BY DEF ScanInv, ScanTyped
<1>8. catalogClock \in 1..catalogClock /\ catalogClock >= catalogClock
  BY ClockIsNow
<1>3. u \in CatalogWrite /\ u.key = k /\ u.now = catalogClock
  BY <1>2 DEF CatalogWrite
<1> HIDE DEF u
<1>4. catalogWrites' \in [Writer -> CatalogWrite] /\ \A v \in Writer : catalogWrites'[v] \in {u, catalogWrites[v]}
  BY <1>1, <1>2, <1>3
<1>5. ScanTyped'
  BY <1>1, <1>2, <1>4, Zenon DEF ScanTyped
<1>6. \A v \in Writer : LET n == catalogWrites'[v] IN
        n.kind # "none" => n.key \in Key /\ n.now \in 1..catalogClock'
  <2> TAKE v \in Writer
  <2>1. CASE catalogWrites'[v] = u
    BY <1>1, <1>3, <1>8, <2>1, Zenon
  <2>2. CASE catalogWrites'[v] = catalogWrites[v]
    BY <1>1, <2>2 DEF ScanInv
  <2> QED BY <1>4, <2>1, <2>2
<1>7. catalogClock' >= catalogClock
  BY <1>1, <1>8, Zenon
<1> QED BY <1>1, <1>5, <1>6, <1>7, RowsAlone

LEMMA CatalogTickStep ==
  ASSUME ScanInv, Catalog!Tick
  PROVE  ScanInv'
<1>1. /\ catalogClock' = catalogClock + 1
      /\ UNCHANGED <<catalogRows, catalogWrites, disk, scan, since, told, late, twice>>
  BY DEF Catalog!Tick
<1>2. catalogClock \in Nat /\ catalogClock' \in Nat \ {0} /\ catalogClock' >= catalogClock /\ ScanTyped
  BY <1>1 DEF ScanInv, ScanTyped
<1>3. ScanTyped'
  BY <1>1, <1>2, Zenon DEF ScanTyped
<1>4. \A v \in Writer : LET n == catalogWrites'[v] IN
        n.kind # "none" => n.key \in Key /\ n.now \in 1..catalogClock'
  <2> TAKE v \in Writer
  <2>1. LET n == catalogWrites[v] IN n.kind # "none" => n.key \in Key /\ n.now \in 1..catalogClock
    BY DEF ScanInv
  <2>2. 1..catalogClock \subseteq 1..catalogClock'
    BY <1>1, <1>2
  <2> QED BY <1>1, <2>1, <2>2
<1> QED BY <1>1, <1>2, <1>3, <1>4, RowsAlone

LEMMA CatalogTurnStep ==
  ASSUME ScanInv, NEW p \in Path, Catalog!Turn(p)
  PROVE  ScanInv'
<1>1. /\ \E d \in Catalog!Sort : disk' = [disk EXCEPT ![p] = d]
      /\ UNCHANGED <<catalogClock, catalogRows, catalogWrites, scan, since, told, late, twice>>
  BY DEF Catalog!Turn
<1>2. ScanTyped /\ disk' \in [Path -> Catalog!Sort] /\ catalogClock \in Nat
  BY <1>1 DEF ScanInv, ScanTyped
<1>3. ScanTyped'
  BY <1>1, <1>2, Zenon DEF ScanTyped
<1> QED BY <1>1, <1>2, <1>3, RowsAlone DEF ScanInv

\* A write that is done, to the type and what waits.
LEMMA WriteDone ==
  ASSUME ScanInv, NEW w \in Writer, catalogWrites' = [catalogWrites EXCEPT ![w] = Catalog!NoWrite],
         UNCHANGED <<catalogClock, disk, scan, since>>, catalogRows' \in [Key -> CatalogRow]
  PROVE  /\ ScanTyped' /\ Asked' = Asked
         /\ \A v \in Writer : LET n == catalogWrites'[v] IN
              n.kind # "none" => n.key \in Key /\ n.now \in 1..catalogClock'
<1>1. Catalog!NoWrite \in CatalogWrite /\ Catalog!NoWrite.kind = "none"
  BY DEF Catalog!NoWrite, CatalogWrite
<1>2. catalogWrites \in [Writer -> CatalogWrite] /\ ScanTyped
  BY DEF ScanInv, ScanTyped
<1>3. /\ catalogWrites' \in [Writer -> CatalogWrite]
      /\ \A v \in Writer : catalogWrites'[v] \in {Catalog!NoWrite, catalogWrites[v]}
  BY <1>1, <1>2
<1>4. ScanTyped'
  BY <1>2, <1>3, Zenon DEF ScanTyped
<1> QED BY <1>1, <1>3, <1>4 DEF ScanInv, Asked, Catalog!NoScan

LEMMA UpsertStep ==
  ASSUME ScanInv, NEW w \in Writer, Catalog!Upsert(w)
  PROVE  ScanInv'
<1>1. PICK u \in CatalogWrite : u = catalogWrites[w]
  BY DEF ScanInv, ScanTyped
<1>2. u.kind = "put" /\ u.key \in Key /\ u.now \in 1..catalogClock /\ catalogClock \in Nat
  BY <1>1 DEF Catalog!Upsert, ScanInv, ScanTyped
<1>3. PICK stored \in CatalogRow : stored = catalogRows[u.key]
  BY <1>2 DEF ScanInv, ScanTyped
<1> DEFINE new == [path |-> u.path, seen_at |-> u.now,
                   imported_at |-> IF stored = Catalog!NoRow THEN u.now ELSE stored.imported_at]
<1>4. /\ catalogWrites' = [catalogWrites EXCEPT ![w] = Catalog!NoWrite]
      /\ UNCHANGED <<catalogClock, disk, scan, since, twice>>
      /\ \/ UNCHANGED <<catalogRows, told, late>>
         \/ /\ catalogRows' = [catalogRows EXCEPT ![u.key] = new]
            /\ told' = IF stored = Catalog!NoRow THEN told \ {u.key} ELSE told
            /\ late' = IF stored # Catalog!NoRow THEN late
                       ELSE IF u.now < catalogClock THEN late \cup {u.key} ELSE late \ {u.key}
  BY <1>1, <1>3 DEF Catalog!Upsert
<1>5. /\ new \in CatalogRow /\ new # Catalog!NoRow
      /\ stored = Catalog!NoRow => new.imported_at = u.now
      /\ stored # Catalog!NoRow => new.imported_at = stored.imported_at
  <2>1. u.path \in Path \cup {""} /\ u.now \in Nat /\ u.now # 0 /\ stored.imported_at \in Nat
    <3>1. u.path \in Path \cup {""} /\ u.now \in Nat /\ stored.imported_at \in Nat
      BY DEF CatalogRow, CatalogWrite
    <3>2. u.now # 0
      BY <1>2
    <3> QED BY <3>1, <3>2
  <2>2. new.seen_at = u.now /\ Catalog!NoRow.seen_at = 0
    BY DEF Catalog!NoRow
  <2>3. new.imported_at = IF stored = Catalog!NoRow THEN u.now ELSE stored.imported_at
    OBVIOUS
  <2>4. new \in CatalogRow
    BY <2>1 DEF CatalogRow
  <2> QED BY <2>1, <2>2, <2>3, <2>4
<1> HIDE DEF new
<1>6. catalogRows \in [Key -> CatalogRow] /\ catalogRows' \in [Key -> CatalogRow]
  BY <1>4, <1>5 DEF ScanInv, ScanTyped
<1>7. /\ ScanTyped' /\ Asked' = Asked
      /\ \A v \in Writer : LET n == catalogWrites'[v] IN
           n.kind # "none" => n.key \in Key /\ n.now \in 1..catalogClock'
  BY <1>4, <1>6, WriteDone
<1>8. Asked \in Nat /\ Asked <= catalogClock
  BY DEF ScanInv, ScanTyped, Asked
<1>9. /\ \A k \in Catalog!Entries' \cap told' : catalogRows'[k].imported_at < Asked
      /\ \A k \in Catalog!Entries' \ late' : catalogRows'[k].imported_at < Asked => k \in told'
  <2>1. CASE UNCHANGED <<catalogRows, told, late>>
    BY <2>1 DEF ScanInv, Catalog!Entries, Catalog!NoRow
  <2>2. CASE /\ catalogRows' = [catalogRows EXCEPT ![u.key] = new]
             /\ told' = IF stored = Catalog!NoRow THEN told \ {u.key} ELSE told
             /\ late' = IF stored # Catalog!NoRow THEN late
                        ELSE IF u.now < catalogClock THEN late \cup {u.key} ELSE late \ {u.key}
    <3>1. /\ catalogRows'[u.key] = new
          /\ \A k \in Key \ {u.key} : catalogRows'[k] = catalogRows[k]
      BY <1>2, <1>6, <2>2
    <3>2. \A k \in Catalog!Entries' : k = u.key \/ (k # u.key /\ k \in Catalog!Entries)
      BY <3>1 DEF Catalog!Entries, Catalog!NoRow
    <3>3. stored # Catalog!NoRow <=> u.key \in Catalog!Entries
      BY <1>2, <1>3 DEF Catalog!Entries
    <3>4. CASE stored = Catalog!NoRow
      BY <1>2, <1>5, <1>8, <2>2, <3>1, <3>2, <3>4 DEF ScanInv, Catalog!Entries
    <3>5. CASE stored # Catalog!NoRow
      BY <1>2, <1>3, <1>5, <2>2, <3>1, <3>2, <3>3, <3>5 DEF ScanInv, Catalog!Entries
    <3> QED BY <3>4, <3>5
  <2> QED BY <1>4, <2>1, <2>2
<1> QED BY <1>4, <1>7, <1>9 DEF ScanInv, Catalog!NoScan

\* Rows that are gone, or seen again, were imported when they were.
LEMMA RowsKept ==
  ASSUME ScanInv, ScanTyped', UNCHANGED <<catalogClock, scan, since, told, late, twice>>,
         \A w \in Writer : LET u == catalogWrites'[w] IN
           u.kind # "none" => u.key \in Key /\ u.now \in 1..catalogClock',
         \A k \in Catalog!Entries' : k \in Catalog!Entries /\ catalogRows'[k].imported_at = catalogRows[k].imported_at
  PROVE  ScanInv'
<1>1. Asked' = Asked
  BY DEF Asked, Catalog!NoScan
<1> QED BY <1>1 DEF ScanInv, Catalog!NoScan

LEMMA CatalogTouchStep ==
  ASSUME ScanInv, NEW w \in Writer, Catalog!Touch(w)
  PROVE  ScanInv'
<1>1. PICK u \in CatalogWrite : u = catalogWrites[w]
  BY DEF ScanInv, ScanTyped
<1>2. /\ u.key \in Key /\ u.now \in Nat
      /\ catalogWrites' = [catalogWrites EXCEPT ![w] = Catalog!NoWrite]
      /\ UNCHANGED <<catalogClock, disk, scan, since, told, late, twice>>
      /\ \/ catalogRows' = catalogRows
         \/ catalogRows[u.key] # Catalog!NoRow /\ catalogRows' = [catalogRows EXCEPT ![u.key].seen_at = u.now]
  BY <1>1 DEF Catalog!Touch, ScanInv, CatalogWrite
<1>3. /\ catalogRows' \in [Key -> CatalogRow]
      /\ \A k \in Key : /\ catalogRows'[k].imported_at = catalogRows[k].imported_at
                        /\ catalogRows'[k] # Catalog!NoRow => catalogRows[k] # Catalog!NoRow
  <2>1. catalogRows \in [Key -> CatalogRow]
    BY DEF ScanInv, ScanTyped
  <2>2. CASE catalogRows' = catalogRows
    BY <2>1, <2>2
  <2>3. CASE catalogRows[u.key] # Catalog!NoRow /\ catalogRows' = [catalogRows EXCEPT ![u.key].seen_at = u.now]
    BY <1>2, <2>1, <2>3 DEF CatalogRow
  <2> QED BY <1>2, <2>2, <2>3
<1>4. /\ ScanTyped'
      /\ \A v \in Writer : LET n == catalogWrites'[v] IN
           n.kind # "none" => n.key \in Key /\ n.now \in 1..catalogClock'
  BY <1>2, <1>3, WriteDone
<1>5. \A k \in Catalog!Entries' : k \in Catalog!Entries /\ catalogRows'[k].imported_at = catalogRows[k].imported_at
  BY <1>3 DEF Catalog!Entries, Catalog!NoRow
<1> QED BY <1>2, <1>4, <1>5, RowsKept

LEMMA CatalogDeleteStep ==
  ASSUME ScanInv, NEW k \in Key, Catalog!Delete(k)
  PROVE  ScanInv'
<1>1. /\ catalogRows' = [catalogRows EXCEPT ![k] = Catalog!NoRow]
      /\ UNCHANGED <<catalogClock, catalogWrites, disk, scan, since, told, late, twice>>
  BY DEF Catalog!Delete
<1>2. Catalog!NoRow \in CatalogRow
  BY DEF Catalog!NoRow, CatalogRow
<1>3. catalogRows \in [Key -> CatalogRow] /\ ScanTyped
  BY DEF ScanInv, ScanTyped
<1>4. /\ catalogRows' \in [Key -> CatalogRow] /\ catalogRows'[k] = Catalog!NoRow
      /\ \A j \in Key \ {k} : catalogRows'[j] = catalogRows[j]
  BY <1>1, <1>2, <1>3
<1>5. ScanTyped'
  BY <1>1, <1>3, <1>4, Zenon DEF ScanTyped
<1>6. \A j \in Catalog!Entries' : j \in Catalog!Entries /\ catalogRows'[j].imported_at = catalogRows[j].imported_at
  BY <1>4 DEF Catalog!Entries, Catalog!NoRow
<1>7. \A v \in Writer : LET n == catalogWrites'[v] IN
        n.kind # "none" => n.key \in Key /\ n.now \in 1..catalogClock'
  BY <1>1 DEF ScanInv
<1> QED BY <1>1, <1>5, <1>6, <1>7, RowsKept

LEMMA ScanBeginStep ==
  ASSUME ScanInv, Catalog!ScanBegin
  PROVE  ScanInv'
<1> DEFINE added == {k \in Catalog!Entries : Catalog!Window(catalogClock, catalogRows[k])}
<1>1. /\ scan = Catalog!NoScan /\ scan'.at = catalogClock
      /\ told' = told \cup added /\ twice' = (twice \/ added \cap told # {})
      /\ UNCHANGED <<catalogClock, catalogRows, catalogWrites, disk, since, late>>
  BY DEF Catalog!ScanBegin
<1>2. /\ catalogClock \in Nat \ {0} /\ since \in Nat /\ since <= catalogClock /\ ScanTyped
      /\ \A k \in Catalog!Entries : catalogRows[k].imported_at \in Nat
  BY DEF ScanInv, ScanTyped, Catalog!Entries, CatalogRow
<1>3. Asked = since /\ Asked' = catalogClock /\ (scan # Catalog!NoScan)'
  BY <1>1, <1>2 DEF Asked, Catalog!NoScan
<1>4. \A k \in Catalog!Entries : k \in added <=> catalogRows[k].imported_at < catalogClock
                                               /\ catalogRows[k].imported_at >= since
  BY DEF Catalog!Window
<1>5. added \subseteq Catalog!Entries /\ Catalog!Entries' = Catalog!Entries
  BY <1>1 DEF Catalog!Entries, Catalog!NoRow
<1> HIDE DEF added
<1>6. ~twice'
  <2>1. added \cap told = {}
    BY <1>2, <1>3, <1>4, <1>5 DEF ScanInv
  <2> QED BY <1>1, <2>1, Zenon DEF ScanInv
<1>7. \A k \in Catalog!Entries \cap told' : catalogRows[k].imported_at < catalogClock
  BY <1>1, <1>2, <1>3, <1>4 DEF ScanInv
<1>8. \A k \in Catalog!Entries \ late : catalogRows[k].imported_at < catalogClock => k \in told'
  BY <1>1, <1>2, <1>3, <1>4 DEF ScanInv
<1>9. ScanTyped'
  <2>1. scan' = [at |-> catalogClock, rows |-> Catalog!Entries, missing |-> {},
                 left |-> {catalogRows[k].path : k \in Catalog!Entries}]
    BY DEF Catalog!ScanBegin
  <2>2. \A k \in Catalog!Entries : catalogRows[k].path \in Path \cup {""}
    BY <1>2 DEF ScanTyped, Catalog!Entries, CatalogRow
  <2>3. scan' \in ScanMemory
    BY <1>2, <2>1, <2>2 DEF Catalog!Entries, ScanMemory
  <2> QED BY <1>1, <1>2, <2>3, Zenon DEF ScanTyped
<1>10. \A v \in Writer : LET n == catalogWrites'[v] IN
        n.kind # "none" => n.key \in Key /\ n.now \in 1..catalogClock'
  BY <1>1 DEF ScanInv
<1> QED BY <1>1, <1>2, <1>3, <1>5, <1>6, <1>7, <1>8, <1>9, <1>10 DEF ScanInv

\* The scan goes on, or reports.
LEMMA ScanGoesStep ==
  ASSUME ScanInv, Catalog!ScanStat \/ Catalog!ScanEnd
  PROVE  ScanInv'
<1>1. UNCHANGED <<catalogClock, catalogRows, catalogWrites, disk, told, late, twice>> /\ Catalog!Entries' = Catalog!Entries
  BY DEF Catalog!ScanStat, Catalog!ScanEnd, Catalog!Entries, Catalog!NoRow
<1>2. /\ ScanTyped /\ catalogClock \in Nat /\ since \in Nat /\ scan.at \in Nat
      /\ since <= catalogClock /\ (scan = Catalog!NoScan \/ (scan.at \in 1..catalogClock /\ since <= scan.at))
  BY DEF ScanInv, ScanTyped, ScanMemory
<1>3. \A v \in Writer : LET n == catalogWrites'[v] IN
        n.kind # "none" => n.key \in Key /\ n.now \in 1..catalogClock'
  BY <1>1 DEF ScanInv
<1>4. CASE Catalog!ScanEnd
  <2>1. scan # Catalog!NoScan /\ since' = scan.at /\ scan' = Catalog!NoScan /\ Catalog!NoScan.at = 0
    BY <1>4 DEF Catalog!ScanEnd, Catalog!NoScan
  <2>2. Asked' = Asked /\ (scan = Catalog!NoScan)'
    BY <2>1 DEF Asked, Catalog!NoScan
  <2>3. ScanTyped'
    <3>1. scan' \in ScanMemory
      BY <2>1 DEF Catalog!NoScan, ScanMemory
    <3> QED BY <1>1, <1>2, <2>1, <3>1, Zenon DEF ScanTyped
  <2> QED BY <1>1, <1>2, <1>3, <2>1, <2>2, <2>3 DEF ScanInv
<1>5. CASE Catalog!ScanStat
  <2>1. PICK p \in scan.left : scan' = [scan EXCEPT !.left = @ \ {p},
                                          !.missing = IF Catalog!Present(p) THEN @ ELSE @ \cup {p}]
    BY <1>5 DEF Catalog!ScanStat
  <2>2. scan # Catalog!NoScan
    BY <2>1 DEF Catalog!NoScan
  <2>3. /\ since' = since /\ scan'.at = scan.at
        /\ scan' \in ScanMemory
    BY <1>2, <1>5, <2>1 DEF Catalog!ScanStat, ScanTyped, ScanMemory
  <2>4. (scan # Catalog!NoScan)' /\ Asked' = Asked
    BY <1>2, <2>2, <2>3 DEF Catalog!NoScan, Asked
  <2>5. ScanTyped'
    BY <1>1, <1>2, <2>3, Zenon DEF ScanTyped
  <2> QED BY <1>1, <1>2, <1>3, <2>2, <2>3, <2>4, <2>5 DEF ScanInv
<1> QED BY <1>4, <1>5

LEMMA ScanNext ==
  ASSUME ScanInv, Catalog!Next
  PROVE  ScanInv'
<1>1. CASE \E w \in Writer : \/ \E k \in Key, p \in Path, f \in BOOLEAN : Catalog!Arrive(w, "put", k, p, f)
                             \/ \E k \in Key : Catalog!Arrive(w, "touch", k, "", FALSE)
                             \/ Catalog!Upsert(w) \/ Catalog!Touch(w)
  BY <1>1, CatalogArriveStep, UpsertStep, CatalogTouchStep
<1>2. CASE \E k \in Key : Catalog!Delete(k)
  BY <1>2, CatalogDeleteStep
<1>3. CASE Catalog!ScanBegin
  BY <1>3, ScanBeginStep
<1>4. CASE Catalog!ScanStat \/ Catalog!ScanEnd
  BY <1>4, ScanGoesStep
<1>5. CASE \E p \in Path : Catalog!Turn(p)
  BY <1>5, CatalogTurnStep
<1>6. CASE Catalog!Tick
  BY <1>6, CatalogTickStep
<1> QED BY <1>1, <1>2, <1>3, <1>4, <1>5, <1>6 DEF Catalog!Next

LEMMA ScanPromise ==
  ASSUME ScanInv
  PROVE  Catalog!AddedOnce /\ Catalog!MissingIsUnopenable
<1>1. Catalog!AddedOnce
  BY DEF ScanInv, Asked, Catalog!AddedOnce
<1>2. Catalog!MissingIsUnopenable
  BY DEF ScanInv, ScanTyped, Catalog!MissingIsUnopenable, Catalog!Present, Catalog!Opens, Catalog!Contained,
         Catalog!Sort
<1> QED BY <1>1, <1>2

(***************************************************************************)
(* The catalog's hashes.  A version of the bytes that is the payload's no  *)
(* longer never is again; a link, once made, is of one inode for good, so  *)
(* that its sidecar is of its bytes until they are rewritten under it.     *)
(***************************************************************************)

HashPair == [stamp : Nat, sha256 : Nat]
HashMemory == [at : {"new", "link", "hash", "sidecar", "stat", "digest", "put", "over"}, known : HashPair,
               inode : HashInode \cup {0}, stamp : Nat, sha256 : Nat]

HashTyped ==
  /\ bytes \in [HashInode -> Nat] /\ hashWrites \in Nat
  /\ original \in HashInode \cup {0} /\ link \in HashInode \cup {0}
  /\ sidecar \in Nat /\ hashRow \in HashPair
  /\ hashRuns \in [HashRun -> HashMemory]
  /\ amended \subseteq HashInode /\ amended \subseteq {link}
  /\ \A i \in HashInode : bytes[i] <= hashWrites

\* The payload is the version that was looked at.
IsNow(stamp) == original # 0 /\ bytes[original] = stamp

HashSound(stamp, sha256) ==
  stamp <= hashWrites /\ (sha256 # 0 /\ sha256 # stamp /\ IsNow(stamp) => original \in amended)

OfTheLink(sha256) == link # 0 /\ (link \notin amended => sha256 = bytes[link])

RunIsSound(r) ==
  LET run == hashRuns[r] IN
  /\ HashSound(run.known.stamp, run.known.sha256)
  /\ run.at = "put" => HashSound(run.stamp, run.sha256)
  /\ run.at = "digest" => run.stamp <= hashWrites /\ (IsNow(run.stamp) => original = run.inode)
  /\ run.at = "hash" => link # 0
  /\ run.at = "sidecar" => OfTheLink(run.sha256)

HashInv ==
  /\ HashTyped
  /\ HashSound(hashRow.stamp, hashRow.sha256)
  /\ sidecar # 0 => OfTheLink(sidecar)
  /\ \A r \in HashRun : RunIsSound(r)

LEMMA HashStarts ==
  ASSUME Hashes!Init
  PROVE  HashInv
<1>1. /\ bytes = [i \in HashInode |-> 0] /\ original = 0 /\ link = 0 /\ sidecar = 0
      /\ hashRow = Hashes!NoRow /\ hashRuns = [r \in HashRun |-> Hashes!Idle]
      /\ hashWrites = 0 /\ amended = {}
  BY DEF Hashes!Init, Hashes!NoFile, Hashes!NoHash
<1>2. Hashes!NoRow \in HashPair /\ Hashes!NoRow.stamp = 0 /\ Hashes!NoRow.sha256 = 0
  BY DEF Hashes!NoRow, HashPair, Hashes!NoHash
<1>3. Hashes!Idle \in HashMemory /\ Hashes!Idle.at = "new" /\ Hashes!Idle.known = Hashes!NoRow
  BY <1>2 DEF Hashes!Idle, HashMemory, Hashes!NoFile, Hashes!NoHash
<1>4. HashTyped
  <2>1. hashRuns \in [HashRun -> HashMemory]
    BY <1>1, <1>3
  <2>2. bytes \in [HashInode -> Nat] /\ \A i \in HashInode : bytes[i] <= hashWrites
    BY <1>1
  <2> QED BY <1>1, <1>2, <2>1, <2>2 DEF HashTyped
<1>5. HashSound(0, 0)
  BY <1>1 DEF HashSound
<1>6. \A r \in HashRun : RunIsSound(r)
  BY <1>1, <1>2, <1>3, <1>5 DEF RunIsSound
<1> QED BY <1>1, <1>2, <1>4, <1>5, <1>6 DEF HashInv

(* What a turn of the payload leaves true. *)

\* A payload that turned is a version nobody has looked at, or none.
Turned ==
  /\ UNCHANGED <<link, sidecar, hashRow, hashRuns>>
  /\ hashWrites' >= hashWrites
  /\ original' # 0 => bytes'[original'] > hashWrites
  /\ link # 0 => (link \in amended => link \in amended') /\ (link \notin amended' => bytes'[link] = bytes[link])

LEMMA TurnedKeeps ==
  ASSUME HashInv, HashTyped', Turned
  PROVE  HashInv'
<1>1. /\ hashWrites \in Nat /\ hashWrites' \in Nat /\ hashWrites' >= hashWrites
      /\ original' # 0 => original' \in HashInode /\ bytes'[original'] \in Nat /\ bytes'[original'] > hashWrites
  BY DEF HashInv, HashTyped, Turned
<1>2. ASSUME NEW s \in Nat, NEW h, HashSound(s, h)
      PROVE  HashSound(s, h)' /\ ~IsNow(s)'
  BY <1>1, <1>2 DEF HashSound, IsNow
<1>3. ASSUME NEW h, OfTheLink(h)
      PROVE  OfTheLink(h)'
  BY <1>3 DEF OfTheLink, Turned
<1>4. \A p \in HashPair : HashSound(p.stamp, p.sha256) => HashSound(p.stamp, p.sha256)'
  BY <1>2 DEF HashPair
<1>5. HashSound(hashRow.stamp, hashRow.sha256)'
  BY <1>4 DEF HashInv, HashTyped, Turned, HashSound, IsNow
<1>6. sidecar' # 0 => OfTheLink(sidecar)'
  <2>1. PICK h : h = sidecar
    OBVIOUS
  <2>2. h # 0 => OfTheLink(h)'
    BY <1>3, <2>1 DEF HashInv
  <2> QED BY <2>1, <2>2 DEF OfTheLink, Turned
<1>7. \A r \in HashRun : RunIsSound(r)'
  <2> SUFFICES ASSUME NEW r \in HashRun
               PROVE  RunIsSound(r)'
    OBVIOUS
  <2>1. PICK run \in HashMemory : run = hashRuns[r]
    BY DEF HashInv, HashTyped
  <2>2. hashRuns'[r] = run
    BY <2>1 DEF Turned
  <2>3. HashSound(run.known.stamp, run.known.sha256)'
    BY <1>4, <2>1 DEF HashInv, RunIsSound, HashMemory
  <2>4. run.at = "put" => HashSound(run.stamp, run.sha256)'
    BY <1>2, <2>1 DEF HashInv, RunIsSound, HashMemory
  <2>5. run.at = "digest" => run.stamp <= hashWrites' /\ ~IsNow(run.stamp)'
    <3>1. run.stamp \in Nat
      BY DEF HashMemory
    <3>2. run.at = "digest" => run.stamp <= hashWrites
      BY <2>1 DEF HashInv, RunIsSound
    <3> QED BY <1>1, <3>1, <3>2 DEF IsNow
  <2>6. run.at = "hash" => link' # 0
    BY <2>1 DEF HashInv, RunIsSound, Turned
  <2>7. run.at = "sidecar" => OfTheLink(run.sha256)'
    BY <1>3, <2>1 DEF HashInv, RunIsSound
  <2> QED BY <2>2, <2>3, <2>4, <2>5, <2>6, <2>7 DEF RunIsSound, HashSound, IsNow, OfTheLink
<1> QED BY <1>5, <1>6, <1>7 DEF HashInv

LEMMA PayloadSteps ==
  ASSUME InodeAssumption, HashInv, Hashes!Download \/ Hashes!Prune \/ Hashes!Rewrite
  PROVE  HashInv'
<1>1. /\ bytes \in [HashInode -> Nat] /\ hashWrites \in Nat /\ HashTyped
      /\ original \in HashInode \cup {0} /\ amended \subseteq HashInode /\ amended \subseteq {link}
      /\ link \in HashInode \cup {0} /\ \A i \in HashInode : bytes[i] <= hashWrites
  BY DEF HashInv, HashTyped
<1>2. CASE Hashes!Prune
  <2>1. original' = 0 /\ UNCHANGED <<bytes, link, sidecar, hashRow, hashRuns, hashWrites, amended>>
    BY <1>2 DEF Hashes!Prune, Hashes!NoFile
  <2>2. HashTyped'
    BY <2>1 DEF HashInv, HashTyped
  <2>3. Turned
    BY <1>1, <2>1 DEF Turned
  <2> QED BY <2>2, <2>3, TurnedKeeps
<1>3. CASE Hashes!Download
  <2>1. PICK i \in HashInode \ {link} : original' = i /\ bytes' = [bytes EXCEPT ![i] = hashWrites + 1]
    BY <1>3 DEF Hashes!Download
  <2>2. hashWrites' = hashWrites + 1 /\ amended' = amended \ {i} /\ UNCHANGED <<link, sidecar, hashRow, hashRuns>>
    BY <1>3, <2>1 DEF Hashes!Download
  <2>3. hashWrites + 1 \in Nat /\ hashWrites' >= hashWrites /\ hashWrites + 1 > hashWrites
    BY <1>1, <2>2
  <2>4. /\ bytes' \in [HashInode -> Nat] /\ bytes'[i] = hashWrites + 1
        /\ \A j \in HashInode \ {i} : bytes'[j] = bytes[j]
    BY <1>1, <2>1, <2>3
  <2>5. \A j \in HashInode : bytes'[j] <= hashWrites'
    BY <1>1, <2>2, <2>4
  <2>6. HashTyped'
    BY <1>1, <2>1, <2>2, <2>3, <2>4, <2>5 DEF HashTyped
  <2>7. Turned
    BY <1>1, <2>1, <2>2, <2>3, <2>4 DEF Turned
  <2> QED BY <2>6, <2>7, TurnedKeeps
<1>4. CASE Hashes!Rewrite
  <2>1. /\ original \in HashInode /\ bytes' = [bytes EXCEPT ![original] = hashWrites + 1]
        /\ hashWrites' = hashWrites + 1
        /\ amended' = IF link = original THEN amended \cup {original} ELSE amended
        /\ UNCHANGED <<original, link, sidecar, hashRow, hashRuns>>
    BY <1>1, <1>4 DEF Hashes!Rewrite, Hashes!NoFile
  <2>3. hashWrites + 1 \in Nat /\ hashWrites' >= hashWrites /\ hashWrites + 1 > hashWrites
    BY <1>1, <2>1
  <2>4. /\ bytes' \in [HashInode -> Nat] /\ bytes'[original] = hashWrites + 1
        /\ \A j \in HashInode \ {original} : bytes'[j] = bytes[j]
    BY <1>1, <2>1, <2>3
  <2>5. \A j \in HashInode : bytes'[j] <= hashWrites'
    BY <1>1, <2>1, <2>4
  <2>6. HashTyped'
    BY <1>1, <2>1, <2>3, <2>4, <2>5 DEF HashTyped
  <2>7. Turned
    BY <1>1, <2>1, <2>3, <2>4 DEF Turned
  <2> QED BY <2>6, <2>7, TurnedKeeps
<1> QED BY <1>2, <1>3, <1>4

(* A run's steps. *)

\* A run that goes on, and changes nothing but what its own step may.
LEMMA RunGoes ==
  ASSUME HashInv, NEW r \in HashRun, NEW run \in HashMemory, hashRuns' = [hashRuns EXCEPT ![r] = run],
         UNCHANGED <<bytes, original, link, hashWrites, amended>>, sidecar' \in Nat, hashRow' \in HashPair,
         HashSound(run.known.stamp, run.known.sha256),
         run.at = "put" => HashSound(run.stamp, run.sha256),
         run.at = "digest" => run.stamp <= hashWrites /\ (IsNow(run.stamp) => original = run.inode),
         run.at = "hash" => link # 0,
         run.at = "sidecar" => OfTheLink(run.sha256),
         hashRow' = hashRow \/ HashSound(hashRow'.stamp, hashRow'.sha256),
         sidecar' = sidecar \/ OfTheLink(sidecar')
  PROVE  HashInv'
<1>1. /\ hashRuns' \in [HashRun -> HashMemory] /\ hashRuns'[r] = run
      /\ \A q \in HashRun \ {r} : hashRuns'[q] = hashRuns[q]
  BY DEF HashInv, HashTyped
<1>2. HashTyped'
  BY <1>1 DEF HashInv, HashTyped
<1>3. RunIsSound(r)'
  BY <1>1 DEF RunIsSound, HashSound, IsNow, OfTheLink
<1>4. \A q \in HashRun \ {r} : RunIsSound(q)'
  BY <1>1 DEF HashInv, RunIsSound, HashSound, IsNow, OfTheLink
<1>5. HashSound(hashRow.stamp, hashRow.sha256)'
  BY DEF HashInv, HashSound, IsNow
<1>6. sidecar' # 0 => OfTheLink(sidecar)'
  BY DEF HashInv, OfTheLink
<1> QED BY <1>2, <1>3, <1>4, <1>5, <1>6 DEF HashInv

LEMMA OverRun ==
  ASSUME HashInv
  PROVE  /\ Hashes!Over \in HashMemory /\ Hashes!Over.at = "over"
         /\ HashSound(Hashes!Over.known.stamp, Hashes!Over.known.sha256)
<1>1. /\ Hashes!Over \in HashMemory /\ Hashes!Over.at = "over"
      /\ Hashes!Over.known.stamp = 0 /\ Hashes!Over.known.sha256 = 0
  BY DEF Hashes!Over, Hashes!Idle, HashMemory, HashPair, Hashes!NoRow, Hashes!NoFile, Hashes!NoHash
<1>2. hashWrites \in Nat
  BY DEF HashInv, HashTyped
<1> QED BY <1>1, <1>2 DEF HashSound

LEMMA RunBegins ==
  ASSUME HashInv, NEW r \in HashRun, Hashes!Begin(r)
  PROVE  HashInv'
<1> DEFINE next == [hashRuns[r] EXCEPT !.at = "link", !.known = hashRow]
<1>1. hashRuns' = [hashRuns EXCEPT ![r] = next] /\ UNCHANGED <<bytes, original, link, sidecar, hashRow, hashWrites, amended>>
  BY DEF Hashes!Begin, Hashes!Goes
<1>2. hashRuns[r] \in HashMemory /\ hashRow \in HashPair /\ sidecar \in Nat
  BY DEF HashInv, HashTyped
<1>3. next \in HashMemory /\ next.at = "link" /\ next.known = hashRow
  BY <1>2 DEF HashMemory
<1>4. PICK run \in HashMemory : run = next
  BY <1>3
<1> HIDE DEF next
<1>5. run.at = "link" /\ HashSound(run.known.stamp, run.known.sha256)
  BY <1>3, <1>4 DEF HashInv
<1> QED BY <1>1, <1>2, <1>4, <1>5, RunGoes

LEMMA RunLinks ==
  ASSUME HashInv, NEW r \in HashRun, Hashes!Link(r)
  PROVE  HashInv'
<1>1. PICK was \in HashMemory : was = hashRuns[r]
  BY DEF HashInv, HashTyped
<1> DEFINE next == [was EXCEPT !.at = IF r \in Unhashed THEN "stat" ELSE "hash"]
<1>2. /\ UNCHANGED <<bytes, original, sidecar, hashRow, hashWrites, amended>>
      /\ \/ /\ original # 0 /\ link \in {0, original} /\ link' = original
            /\ hashRuns' = [hashRuns EXCEPT ![r] = next]
         \/ hashRuns' = [hashRuns EXCEPT ![r] = Hashes!Over] /\ link' = link
  BY <1>1 DEF Hashes!Link, Hashes!Goes, Hashes!NoFile
<1>3. sidecar \in Nat /\ hashRow \in HashPair
  BY DEF HashInv, HashTyped
<1>4. next \in HashMemory /\ next.at \in {"stat", "hash"} /\ next.known = was.known
  BY DEF HashMemory
<1>5. HashSound(next.known.stamp, next.known.sha256)
  BY <1>1, <1>4 DEF HashInv, RunIsSound
<1> HIDE DEF next
<1>6. CASE hashRuns' = [hashRuns EXCEPT ![r] = Hashes!Over] /\ link' = link
  BY <1>2, <1>3, <1>6, OverRun, RunGoes
<1>7. CASE original # 0 /\ link' = link /\ link # 0 /\ hashRuns' = [hashRuns EXCEPT ![r] = next]
  BY <1>2, <1>3, <1>4, <1>5, <1>7, RunGoes
<1>8. CASE original # 0 /\ link = 0 /\ link' = original /\ hashRuns' = [hashRuns EXCEPT ![r] = next]
  <2>1. /\ sidecar = 0
        /\ \A q \in HashRun : hashRuns[q].at \notin {"hash", "sidecar"}
    BY <1>8 DEF HashInv, OfTheLink, RunIsSound
  <2>2. amended = {}
    <3>1. amended \subseteq HashInode /\ amended \subseteq {0}
      BY <1>8 DEF HashInv, HashTyped
    <3> QED BY <3>1, InodeAssumption
  <2>3. /\ hashRuns' \in [HashRun -> HashMemory] /\ hashRuns'[r] = next
        /\ \A q \in HashRun \ {r} : hashRuns'[q] = hashRuns[q]
    BY <1>4, <1>8 DEF HashInv, HashTyped
  <2>4. HashTyped'
    BY <1>2, <1>8, <2>2, <2>3 DEF HashInv, HashTyped
  <2>5. RunIsSound(r)'
    BY <1>2, <1>4, <1>5, <1>8, <2>3 DEF RunIsSound, HashSound, IsNow
  <2>6. \A q \in HashRun \ {r} : RunIsSound(q)'
    BY <1>2, <2>1, <2>3 DEF HashInv, RunIsSound, HashSound, IsNow
  <2>7. HashSound(hashRow.stamp, hashRow.sha256)'
    BY <1>2 DEF HashInv, HashSound, IsNow
  <2> QED BY <1>2, <2>1, <2>4, <2>5, <2>6, <2>7 DEF HashInv
<1> QED BY <1>2, <1>6, <1>7, <1>8

LEMMA RunHashes ==
  ASSUME HashInv, NEW r \in HashRun, Hashes!Hash(r) \/ Hashes!Sidecar(r)
  PROVE  HashInv'
<1>1. PICK was \in HashMemory : was = hashRuns[r]
  BY DEF HashInv, HashTyped
<1>2. HashSound(was.known.stamp, was.known.sha256) /\ sidecar \in Nat /\ hashRow \in HashPair
  BY <1>1 DEF HashInv, HashTyped, RunIsSound
<1>3. CASE Hashes!Sidecar(r)
  <2> DEFINE next == [was EXCEPT !.at = "stat", !.sha256 = 0]
  <2>1. /\ was.at = "sidecar" /\ sidecar' = was.sha256 /\ hashRuns' = [hashRuns EXCEPT ![r] = next]
        /\ UNCHANGED <<bytes, original, link, hashRow, hashWrites, amended>>
    BY <1>1, <1>3 DEF Hashes!Sidecar, Hashes!Goes, Hashes!NoHash
  <2>2. next \in HashMemory /\ next.at = "stat" /\ next.known = was.known /\ was.sha256 \in Nat
    BY DEF HashMemory
  <2> HIDE DEF next
  <2>3. OfTheLink(was.sha256)
    BY <1>1, <2>1 DEF HashInv, RunIsSound
  <2>4. OfTheLink(sidecar') /\ sidecar' \in Nat
    BY <2>1, <2>2, <2>3
  <2> QED BY <1>2, <2>1, <2>2, <2>4, RunGoes
<1>4. CASE Hashes!Hash(r)
  <2> DEFINE says == [was EXCEPT !.at = "sidecar", !.sha256 = bytes[link]]
             stands == [was EXCEPT !.at = "stat"]
  <2>1. /\ was.at = "hash" /\ UNCHANGED <<bytes, original, link, sidecar, hashRow, hashWrites, amended>>
        /\ hashRuns' = [hashRuns EXCEPT ![r] = stands] \/ hashRuns' = [hashRuns EXCEPT ![r] = says]
    BY <1>1, <1>4 DEF Hashes!Hash, Hashes!Goes, Hashes!NoHash
  <2>2. stands \in HashMemory /\ stands.at = "stat" /\ stands.known = was.known
    BY DEF HashMemory
  <2>3. link # 0 /\ link \in HashInode /\ bytes[link] \in Nat
    BY <1>1, <2>1 DEF HashInv, HashTyped, RunIsSound
  <2>4. says \in HashMemory /\ says.at = "sidecar" /\ says.known = was.known /\ says.sha256 = bytes[link]
    BY <2>3 DEF HashMemory
  <2>5. OfTheLink(says.sha256)
    BY <2>3, <2>4 DEF OfTheLink
  <2>6. PICK next \in HashMemory : next = says
    BY <2>4
  <2> HIDE DEF says, stands
  <2>7. CASE hashRuns' = [hashRuns EXCEPT ![r] = stands]
    BY <1>2, <2>1, <2>2, <2>7, RunGoes
  <2>8. CASE hashRuns' = [hashRuns EXCEPT ![r] = says]
    BY <1>2, <2>1, <2>4, <2>5, <2>6, <2>8, RunGoes
  <2> QED BY <2>1, <2>7, <2>8
<1> QED BY <1>3, <1>4

LEMMA RunStats ==
  ASSUME HashInv, NEW r \in HashRun, Hashes!Stat(r)
  PROVE  HashInv'
<1>1. PICK was \in HashMemory : was = hashRuns[r]
  BY DEF HashInv, HashTyped
<1> DEFINE looked == [was EXCEPT !.at = "digest", !.inode = original, !.stamp = bytes[original]]
<1>2. /\ UNCHANGED <<bytes, original, link, sidecar, hashRow, hashWrites, amended>>
      /\ \/ hashRuns' = [hashRuns EXCEPT ![r] = Hashes!Over]
         \/ original # 0 /\ hashRuns' = [hashRuns EXCEPT ![r] = looked]
  BY <1>1 DEF Hashes!Stat, Hashes!Goes, Hashes!NoFile
<1>3. HashSound(was.known.stamp, was.known.sha256) /\ sidecar \in Nat /\ hashRow \in HashPair
  BY <1>1 DEF HashInv, HashTyped, RunIsSound
<1>4. CASE hashRuns' = [hashRuns EXCEPT ![r] = Hashes!Over]
  BY <1>2, <1>3, <1>4, OverRun, RunGoes
<1>5. CASE original # 0 /\ hashRuns' = [hashRuns EXCEPT ![r] = looked]
  <2>1. original \in HashInode /\ bytes[original] \in Nat /\ bytes[original] <= hashWrites
    BY <1>5 DEF HashInv, HashTyped
  <2>2. /\ looked \in HashMemory /\ looked.at = "digest" /\ looked.known = was.known
        /\ looked.inode = original /\ looked.stamp = bytes[original]
    BY <2>1 DEF HashMemory
  <2>3. PICK next \in HashMemory : next = looked
    BY <2>2
  <2> HIDE DEF looked
  <2> QED BY <1>2, <1>3, <1>5, <2>1, <2>2, <2>3, RunGoes
<1> QED BY <1>2, <1>4, <1>5

LEMMA RunDigests ==
  ASSUME HashInv, NEW r \in HashRun, Hashes!Digest(r)
  PROVE  HashInv'
<1>1. PICK was \in HashMemory : was = hashRuns[r]
  BY DEF HashInv, HashTyped
<1>2. /\ was.at = "digest" /\ UNCHANGED <<bytes, original, link, sidecar, hashRow, hashWrites, amended>>
      /\ \/ hashRuns' = [hashRuns EXCEPT ![r] = Hashes!Over]
         \/ \E h : /\ hashRuns' = [hashRuns EXCEPT ![r] = [was EXCEPT !.at = "put", !.sha256 = h]]
                   /\ \/ h = was.known.sha256 /\ was.known.stamp = was.stamp
                      \/ h = 0
                      \/ h = sidecar /\ sidecar # 0 /\ link = was.inode
                      \/ original # 0 /\ h = bytes[original]
  BY <1>1 DEF Hashes!Digest, Hashes!Goes, Hashes!NoFile, Hashes!NoHash, Hashes!OfThis
<1>3. /\ HashSound(was.known.stamp, was.known.sha256) /\ sidecar \in Nat /\ hashRow \in HashPair
      /\ was.stamp <= hashWrites /\ (IsNow(was.stamp) => original = was.inode)
  BY <1>1, <1>2 DEF HashInv, HashTyped, RunIsSound
<1>4. CASE hashRuns' = [hashRuns EXCEPT ![r] = Hashes!Over]
  BY <1>2, <1>3, <1>4, OverRun, RunGoes
<1>5. ASSUME NEW h, hashRuns' = [hashRuns EXCEPT ![r] = [was EXCEPT !.at = "put", !.sha256 = h]],
             \/ h = was.known.sha256 /\ was.known.stamp = was.stamp
             \/ h = 0
             \/ h = sidecar /\ sidecar # 0 /\ link = was.inode
             \/ original # 0 /\ h = bytes[original]
      PROVE  HashInv'
  <2> DEFINE says == [was EXCEPT !.at = "put", !.sha256 = h]
  <2>1. h \in Nat
    <3>1. was.known.sha256 \in Nat
      BY DEF HashMemory, HashPair
    <3>2. original # 0 => bytes[original] \in Nat
      BY DEF HashInv, HashTyped
    <3> QED BY <1>3, <1>5, <3>1, <3>2
  <2>2. says \in HashMemory /\ says.at = "put" /\ says.known = was.known /\ says.stamp = was.stamp /\ says.sha256 = h
    BY <2>1 DEF HashMemory
  <2>3. HashSound(was.stamp, h)
    <3>1. CASE h = was.known.sha256 /\ was.known.stamp = was.stamp
      BY <1>3, <3>1
    <3>2. CASE h = 0
      BY <1>3, <3>2 DEF HashSound
    <3>3. CASE h = sidecar /\ sidecar # 0 /\ link = was.inode
      BY <1>3, <3>3 DEF HashSound, HashInv, OfTheLink, IsNow
    <3>4. CASE original # 0 /\ h = bytes[original]
      BY <1>3, <3>4 DEF HashSound, IsNow
    <3> QED BY <1>5, <3>1, <3>2, <3>3, <3>4
  <2>4. PICK next \in HashMemory : next = says
    BY <2>2
  <2>5. hashRuns' = [hashRuns EXCEPT ![r] = next]
    BY <1>5, <2>4
  <2> HIDE DEF says
  <2> QED BY <1>2, <1>3, <2>2, <2>3, <2>4, <2>5, RunGoes
<1> QED BY <1>2, <1>4, <1>5

LEMMA RunPuts ==
  ASSUME HashInv, NEW r \in HashRun, Hashes!Put(r) \/ Hashes!Kill(r)
  PROVE  HashInv'
<1>1. PICK was \in HashMemory : was = hashRuns[r]
  BY DEF HashInv, HashTyped
<1> DEFINE new == [stamp |-> was.stamp, sha256 |-> was.sha256]
<1>2. /\ hashRuns' = [hashRuns EXCEPT ![r] = Hashes!Over]
      /\ UNCHANGED <<bytes, original, link, sidecar, hashWrites, amended>>
      /\ hashRow' = hashRow \/ (hashRow' = new /\ was.at = "put")
  BY <1>1 DEF Hashes!Put, Hashes!Kill, Hashes!Goes
<1>3. new \in HashPair /\ new.stamp = was.stamp /\ new.sha256 = was.sha256
  BY DEF HashMemory, HashPair
<1>4. was.at = "put" => HashSound(new.stamp, new.sha256)
  BY <1>1, <1>3 DEF HashInv, RunIsSound
<1> HIDE DEF new
<1>5. sidecar' \in Nat /\ hashRow' \in HashPair /\ (hashRow' = hashRow \/ HashSound(hashRow'.stamp, hashRow'.sha256))
  BY <1>2, <1>3, <1>4 DEF HashInv, HashTyped
<1> QED BY <1>2, <1>5, OverRun, RunGoes

LEMMA HashNext ==
  ASSUME HashInv, Hashes!Next
  PROVE  HashInv'
  BY RunBegins, RunLinks, RunHashes, RunStats, RunDigests, RunPuts, PayloadSteps, InodeAssumption DEF Hashes!Next

LEMMA HashPromise ==
  ASSUME HashInv
  PROVE  Hashes!HashIsTrue
  BY DEF HashInv, HashSound, IsNow, Hashes!HashIsTrue, Hashes!NoFile, Hashes!NoHash

(***************************************************************************)
(* The ports store.  The lock keeps two changes of the builds apart; a     *)
(* reader has none, and what it read stays true until a change overtakes   *)
(* it.                                                                     *)
(***************************************************************************)

\* Where a thread has the lock.
UnderLock == {"name", "point", "sweep", "dropAll"}

\* The lock is held by the one thread that is between naming and sweeping.
PortsLockIsHeld ==
  /\ \A t \in Uploader : t \in portsHolder <=> portsCalls[t].at \in UnderLock
  /\ \A t, u \in portsHolder : t = u

\* How far a change has come: its build is named, then pointed to.
ChangesFollow == \A t \in Uploader :
  /\ portsCalls[t].at \in {"point", "sweep"} => portsCalls[t].build \subseteq builds
  /\ portsCalls[t].at \in {"sweep", "dropAll"} => pointer = portsCalls[t].build

\* A reader nobody overtook has read what the pointer says.
ReadersFollow == \A t \in Uploader \ moved :
  portsCalls[t].at \in {"look", "open"} => pointer = portsCalls[t].build

PortsInv == Ports!TypeOK /\ Ports!PointerStands /\ PortsLockIsHeld /\ ChangesFollow /\ ReadersFollow

LEMMA PortsCallType ==
  ASSUME Ports!TypeOK, NEW t \in Uploader
  PROVE  portsCalls[t].build \subseteq Build
  BY DEF Ports!TypeOK, Ports!Call

\* What becomes of the calls when one thread goes on.
LEMMA PortsGoes ==
  ASSUME Ports!TypeOK, NEW t \in Uploader,
         NEW place \in {"idle", "stream", "lock", "name", "point", "sweep", "drop", "dropAll", "look", "open"},
         NEW build \in SUBSET Build, Ports!Goes(t, place, build)
  PROVE  /\ portsCalls' \in [Uploader -> Ports!Call]
         /\ portsCalls'[t].at = place /\ portsCalls'[t].build = build
         /\ \A u \in Uploader \ {t} :
              portsCalls'[u].at = portsCalls[u].at /\ portsCalls'[u].build = portsCalls[u].build
<1>1. [at |-> place, build |-> build] \in Ports!Call
  BY DEF Ports!Call
<1> QED BY <1>1 DEF Ports!TypeOK, Ports!Goes

\* A step of a thread outside the lock that leaves the store alone.
LEMMA OutsideStep ==
  ASSUME PortsInv, NEW t \in Uploader, portsCalls[t].at \notin UnderLock,
         NEW place \in {"idle", "stream", "lock", "drop", "look", "open"},
         NEW build \in SUBSET Build, Ports!Goes(t, place, build),
         UNCHANGED <<builds, pointer, portsHolder, missed>>, moved' \in {moved, moved \ {t}},
         place \in {"look", "open"} => t \in moved' \/ build = pointer
  PROVE  PortsInv'
<1> USE DEF PortsInv
<1>1. /\ portsCalls' \in [Uploader -> Ports!Call]
      /\ portsCalls'[t].at = place /\ portsCalls'[t].build = build
      /\ \A u \in Uploader \ {t} :
           portsCalls'[u].at = portsCalls[u].at /\ portsCalls'[u].build = portsCalls[u].build
  BY PortsGoes
<1>2. Ports!TypeOK' /\ Ports!PointerStands'
  BY <1>1 DEF Ports!TypeOK, Ports!PointerStands
<1>3. PortsLockIsHeld'
  BY <1>1 DEF PortsLockIsHeld, UnderLock
<1>4. ChangesFollow'
  BY <1>1 DEF ChangesFollow
<1>5. ReadersFollow'
  BY <1>1 DEF ReadersFollow
<1> QED BY <1>2, <1>3, <1>4, <1>5

LEMMA PortsStart == Ports!Init => PortsInv
<1> SUFFICES ASSUME Ports!Init PROVE PortsInv
  OBVIOUS
<1>1. Ports!Idle \in Ports!Call
  BY DEF Ports!Idle, Ports!Call
<1>2. \A t \in Uploader : portsCalls[t].at = "idle"
  BY DEF Ports!Init, Ports!Idle
<1>3. Ports!TypeOK
  BY <1>1 DEF Ports!Init, Ports!TypeOK
<1> QED BY <1>2, <1>3 DEF Ports!Init, PortsInv, Ports!PointerStands,
                          PortsLockIsHeld, ChangesFollow, ReadersFollow, UnderLock

LEMMA PortsBeginPut ==
  ASSUME PortsInv, NEW t \in Uploader, NEW b \in Build, Ports!BeginPut(t, b)
  PROVE  PortsInv'
<1>1. portsCalls[t].at \notin UnderLock
  BY DEF Ports!BeginPut, UnderLock
<1> QED BY <1>1, OutsideStep DEF Ports!BeginPut

LEMMA PortsStream ==
  ASSUME PortsInv, NEW t \in Uploader, Ports!Stream(t)
  PROVE  PortsInv'
<1>1. portsCalls[t].at \notin UnderLock
  BY DEF Ports!Stream, UnderLock
<1> QED BY <1>1, OutsideStep, PortsCallType DEF Ports!Stream, PortsInv

LEMMA PortsBeginDelete ==
  ASSUME PortsInv, NEW t \in Uploader, Ports!BeginDelete(t)
  PROVE  PortsInv'
<1>1. portsCalls[t].at \notin UnderLock
  BY DEF Ports!BeginDelete, UnderLock
<1> QED BY <1>1, OutsideStep DEF Ports!BeginDelete

(* Under the ports store's lock *)

LEMMA PortsLock ==
  ASSUME PortsInv, NEW t \in Uploader, Ports!Lock(t)
  PROVE  PortsInv'
<1> USE DEF PortsInv
<1>1. portsCalls[t].at \in {"lock", "drop"} /\ portsHolder = {} /\ UNCHANGED <<builds, missed>>
  BY DEF Ports!Lock
<1>2. \A u \in Uploader : portsCalls[u].at \notin UnderLock
  BY <1>1 DEF PortsLockIsHeld
<1>3. CASE portsCalls[t].at = "lock"
  <2>1. Ports!Goes(t, "name", portsCalls[t].build) /\ portsHolder' = {t} /\ pointer' = pointer /\ moved' = moved
    BY <1>3 DEF Ports!Lock
  <2>2. /\ portsCalls' \in [Uploader -> Ports!Call]
        /\ portsCalls'[t].at = "name"
        /\ \A u \in Uploader \ {t} :
             portsCalls'[u].at = portsCalls[u].at /\ portsCalls'[u].build = portsCalls[u].build
    BY <2>1, PortsGoes, PortsCallType
  <2>3. Ports!TypeOK' /\ Ports!PointerStands'
    BY <1>1, <2>1, <2>2 DEF Ports!TypeOK, Ports!PointerStands
  <2>4. PortsLockIsHeld' /\ ChangesFollow'
    BY <1>2, <2>1, <2>2 DEF PortsLockIsHeld, ChangesFollow, UnderLock
  <2>5. ReadersFollow'
    BY <2>1, <2>2 DEF ReadersFollow
  <2> QED BY <2>3, <2>4, <2>5
<1>4. CASE portsCalls[t].at = "drop" /\ pointer = {}
  <2>1. Ports!Goes(t, "idle", {}) /\ UNCHANGED <<builds, pointer, portsHolder, missed, moved>>
    BY <1>4, <1>1 DEF Ports!Lock
  <2> QED BY <1>2, <2>1, OutsideStep
<1>5. CASE portsCalls[t].at = "drop" /\ pointer # {}
  <2>1. Ports!Goes(t, "dropAll", {}) /\ portsHolder' = {t} /\ pointer' = {} /\ moved' = moved \cup (Uploader \ {t})
    BY <1>5 DEF Ports!Lock, Ports!Moves
  <2>2. /\ portsCalls' \in [Uploader -> Ports!Call]
        /\ portsCalls'[t].at = "dropAll" /\ portsCalls'[t].build = {}
        /\ \A u \in Uploader \ {t} :
             portsCalls'[u].at = portsCalls[u].at /\ portsCalls'[u].build = portsCalls[u].build
    BY <2>1, PortsGoes
  <2>3. Ports!TypeOK' /\ Ports!PointerStands'
    BY <1>1, <2>1, <2>2 DEF Ports!TypeOK, Ports!PointerStands
  <2>4. PortsLockIsHeld' /\ ChangesFollow'
    BY <1>2, <2>1, <2>2 DEF PortsLockIsHeld, ChangesFollow, UnderLock
  <2>5. ReadersFollow'
    BY <2>1, <2>2 DEF ReadersFollow
  <2> QED BY <2>3, <2>4, <2>5
<1> QED BY <1>1, <1>3, <1>4, <1>5

LEMMA PortsName ==
  ASSUME PortsInv, NEW t \in Uploader, Ports!Name(t)
  PROVE  PortsInv'
<1> USE DEF PortsInv
<1>1. portsCalls[t].at = "name" /\ builds' = builds \cup portsCalls[t].build
      /\ Ports!Goes(t, "point", portsCalls[t].build) /\ UNCHANGED <<pointer, portsHolder, moved, missed>>
  BY DEF Ports!Name
<1>2. /\ portsCalls' \in [Uploader -> Ports!Call]
      /\ portsCalls'[t].at = "point" /\ portsCalls'[t].build = portsCalls[t].build
      /\ \A u \in Uploader \ {t} :
           portsCalls'[u].at = portsCalls[u].at /\ portsCalls'[u].build = portsCalls[u].build
  BY <1>1, PortsGoes, PortsCallType
<1>3. Ports!TypeOK' /\ Ports!PointerStands'
  BY <1>1, <1>2, PortsCallType DEF Ports!TypeOK, Ports!PointerStands
<1>4. PortsLockIsHeld'
  BY <1>1, <1>2 DEF PortsLockIsHeld, UnderLock
<1>5. ChangesFollow'
  BY <1>1, <1>2 DEF ChangesFollow
<1>6. ReadersFollow'
  BY <1>1, <1>2 DEF ReadersFollow
<1> QED BY <1>3, <1>4, <1>5, <1>6

LEMMA PortsPoint ==
  ASSUME PortsInv, NEW t \in Uploader, Ports!Point(t)
  PROVE  PortsInv'
<1> USE DEF PortsInv
<1>1. portsCalls[t].at = "point" /\ pointer' = portsCalls[t].build /\ Ports!Goes(t, "sweep", portsCalls[t].build)
      /\ moved' = moved \cup (Uploader \ {t}) /\ UNCHANGED <<builds, portsHolder, missed>>
  BY DEF Ports!Point, Ports!Moves
<1>2. /\ portsCalls' \in [Uploader -> Ports!Call]
      /\ portsCalls'[t].at = "sweep" /\ portsCalls'[t].build = portsCalls[t].build
      /\ \A u \in Uploader \ {t} :
           portsCalls'[u].at = portsCalls[u].at /\ portsCalls'[u].build = portsCalls[u].build
  BY <1>1, PortsGoes, PortsCallType
\* The lock: no other change is under way.
<1>3. \A u \in Uploader \ {t} : portsCalls[u].at \notin UnderLock
  BY <1>1 DEF PortsLockIsHeld, UnderLock
<1>4. Ports!TypeOK' /\ Ports!PointerStands'
  BY <1>1, <1>2, PortsCallType DEF Ports!TypeOK, Ports!PointerStands, ChangesFollow
<1>5. PortsLockIsHeld'
  BY <1>1, <1>2 DEF PortsLockIsHeld, UnderLock
<1>6. ChangesFollow'
  BY <1>1, <1>2, <1>3 DEF ChangesFollow, UnderLock
<1>7. ReadersFollow'
  BY <1>1, <1>2 DEF ReadersFollow
<1> QED BY <1>4, <1>5, <1>6, <1>7

LEMMA PortsSweep ==
  ASSUME PortsInv, NEW t \in Uploader, Ports!Sweep(t)
  PROVE  PortsInv'
<1> USE DEF PortsInv
<1>1. portsCalls[t].at \in {"sweep", "dropAll"} /\ UNCHANGED <<pointer, moved, missed>>
  BY DEF Ports!Sweep
<1>2. \A u \in Uploader \ {t} : portsCalls[u].at \notin UnderLock
  BY <1>1 DEF PortsLockIsHeld, UnderLock
<1>3. portsHolder = {t}
  BY <1>1 DEF PortsLockIsHeld, UnderLock, Ports!TypeOK
<1>4. CASE builds \ portsCalls[t].build = {}
  <2>1. portsHolder' = {} /\ Ports!Goes(t, "idle", {}) /\ builds' = builds
    BY <1>4 DEF Ports!Sweep
  <2>2. /\ portsCalls' \in [Uploader -> Ports!Call]
        /\ portsCalls'[t].at = "idle"
        /\ \A u \in Uploader \ {t} :
             portsCalls'[u].at = portsCalls[u].at /\ portsCalls'[u].build = portsCalls[u].build
    BY <2>1, PortsGoes
  <2>3. Ports!TypeOK' /\ Ports!PointerStands'
    BY <1>1, <2>1, <2>2 DEF Ports!TypeOK, Ports!PointerStands
  <2>4. PortsLockIsHeld' /\ ChangesFollow'
    BY <1>2, <2>1, <2>2 DEF PortsLockIsHeld, ChangesFollow, UnderLock
  <2>5. ReadersFollow'
    BY <1>1, <2>2 DEF ReadersFollow
  <2> QED BY <2>3, <2>4, <2>5
<1>5. CASE builds \ portsCalls[t].build # {}
  <2>1. PICK b \in builds \ portsCalls[t].build : builds' = builds \ {b}
    BY <1>5 DEF Ports!Sweep
  <2>2. UNCHANGED <<portsHolder, portsCalls>>
    BY <1>5 DEF Ports!Sweep
  <2>3. pointer = portsCalls[t].build
    BY <1>1 DEF ChangesFollow
  <2>4. (Ports!TypeOK /\ Ports!PointerStands /\ PortsLockIsHeld /\ ReadersFollow)'
    BY <1>1, <2>1, <2>2, <2>3 DEF Ports!TypeOK, Ports!PointerStands, PortsLockIsHeld, ReadersFollow
  <2>5. ChangesFollow'
    BY <1>1, <1>2, <2>1, <2>2, <2>3 DEF ChangesFollow, Ports!PointerStands, UnderLock
  <2> QED BY <2>4, <2>5
<1> QED BY <1>4, <1>5

(* A download, which takes no lock *)

LEMMA PortsMeta ==
  ASSUME PortsInv, NEW t \in Uploader, Ports!Meta(t)
  PROVE  PortsInv'
<1>1. portsCalls[t].at \notin UnderLock
  BY DEF Ports!Meta, UnderLock
<1> QED BY <1>1, OutsideStep DEF Ports!Meta, PortsInv, Ports!TypeOK

LEMMA PortsLook ==
  ASSUME PortsInv, NEW t \in Uploader, Ports!Look(t)
  PROVE  PortsInv'
<1>1. portsCalls[t].at = "look" /\ portsCalls[t].at \notin UnderLock
  BY DEF Ports!Look, UnderLock
<1>2. t \notin moved => portsCalls[t].build = pointer
  BY <1>1 DEF PortsInv, ReadersFollow
<1>3. missed' = missed
  BY <1>2 DEF Ports!Look, PortsInv, Ports!PointerStands, Ports!TypeOK
<1>4. CASE portsCalls[t].build \subseteq builds
  <2>1. Ports!Goes(t, "open", portsCalls[t].build) /\ UNCHANGED <<builds, pointer, portsHolder, moved>>
    BY <1>4 DEF Ports!Look
  <2> QED BY <1>1, <1>2, <1>3, <2>1, OutsideStep, PortsCallType DEF PortsInv
<1>5. CASE ~(portsCalls[t].build \subseteq builds)
  <2>1. Ports!Goes(t, "idle", {}) /\ UNCHANGED <<builds, pointer, portsHolder, moved>>
    BY <1>5 DEF Ports!Look
  <2> QED BY <1>1, <1>3, <2>1, OutsideStep
<1> QED BY <1>4, <1>5

LEMMA PortsOpen ==
  ASSUME PortsInv, NEW t \in Uploader, Ports!Open(t)
  PROVE  PortsInv'
<1>1. portsCalls[t].at = "open" /\ portsCalls[t].at \notin UnderLock
  BY DEF Ports!Open, UnderLock
<1>2. t \notin moved => portsCalls[t].build = pointer
  BY <1>1 DEF PortsInv, ReadersFollow
<1>3. missed' = missed
  BY <1>2 DEF Ports!Open, PortsInv, Ports!PointerStands, Ports!TypeOK
<1> QED BY <1>1, <1>3, OutsideStep DEF Ports!Open

LEMMA PortsCrash ==
  ASSUME PortsInv, Ports!Crash
  PROVE  PortsInv'
<1> USE DEF PortsInv
<1>1. /\ portsCalls' = [t \in Uploader |-> Ports!Idle] /\ portsHolder' = {}
      /\ UNCHANGED <<builds, pointer, moved, missed>>
  BY DEF Ports!Crash
<1> QED BY <1>1 DEF Ports!TypeOK, Ports!Call, Ports!Idle, Ports!PointerStands,
                    PortsLockIsHeld, ChangesFollow, ReadersFollow, UnderLock

LEMMA PortsNext ==
  ASSUME PortsInv, Ports!Next
  PROVE  PortsInv'
<1>1. CASE \E t \in Uploader : \/ \E b \in Build : Ports!BeginPut(t, b)
                               \/ Ports!Stream(t) \/ Ports!Lock(t) \/ Ports!Name(t)
                               \/ Ports!Point(t) \/ Ports!Sweep(t)
  BY <1>1, PortsBeginPut, PortsStream, PortsLock, PortsName, PortsPoint, PortsSweep
<1>2. CASE \E t \in Uploader : Ports!BeginDelete(t) \/ Ports!Meta(t) \/ Ports!Look(t) \/ Ports!Open(t)
  BY <1>2, PortsBeginDelete, PortsMeta, PortsLook, PortsOpen
<1> QED BY <1>1, <1>2, PortsCrash DEF Ports!Next

(***************************************************************************)
(* What these parts promise, of the service's behaviors.                   *)
(***************************************************************************)

ArtKept == part = "art" => ArtInv
WarmKept == part = "warm" => WarmInv
AnswersKept == part = "answers" => AnswersInv

\* A game's art has one answer while no two writes have crossed, "miss" is told of
\* none that has a picture, and the runs that fill the cache are resumed with nothing
\* lost; and what the proxy remembered is whole, with its kind (art_cache.py _write,
\* warm.py, answer_cache.py put).
THEOREM OneAnswerStands == ServiceSpec => []OneAnswer
<1>1. ServiceInit => ArtKept /\ WarmKept /\ AnswersKept
  BY ArtInit, WarmStarts, AnswersStart DEF ServiceInit, ArtKept, WarmKept, AnswersKept
<1>2. ArtKept /\ [ServiceNext]_ServiceVars => ArtKept'
  <2> SUFFICES ASSUME ArtKept, [ServiceNext]_ServiceVars, part' = "art" PROVE ArtInv'
    BY DEF ArtKept
  <2>1. CASE ServiceNext
    BY <2>1, ArtNext DEF ServiceNext, ArtKept
  <2>2. CASE UNCHANGED ServiceVars
    <3>1. UNCHANGED artVars /\ ArtInv
      BY <2>2 DEF ServiceVars, ArtKept
    <3> QED BY <3>1 DEF artVars, ArtInv, ArtTyped, LooksFollow, WritesFollow
  <2> QED BY <2>1, <2>2
<1>3. WarmKept /\ [ServiceNext]_ServiceVars => WarmKept'
  <2> SUFFICES ASSUME WarmKept, [ServiceNext]_ServiceVars, part' = "warm" PROVE WarmInv'
    BY DEF WarmKept
  <2>1. CASE ServiceNext
    BY <2>1, WarmNext, WarmAssumption DEF ServiceNext, WarmKept
  <2>2. CASE UNCHANGED ServiceVars
    <3>1. UNCHANGED warmVars /\ WarmInv
      BY <2>2 DEF ServiceVars, WarmKept
    <3> QED BY <3>1 DEF warmVars, WarmInv, WarmTyped, RunSound
  <2> QED BY <2>1, <2>2
<1>4. AnswersKept /\ [ServiceNext]_ServiceVars => AnswersKept'
  <2> SUFFICES ASSUME AnswersKept, [ServiceNext]_ServiceVars, part' = "answers" PROVE AnswersInv'
    BY DEF AnswersKept
  <2>1. CASE ServiceNext
    BY <2>1, AnswersNext, ThreadAssumption DEF ServiceNext, AnswersKept
  <2>2. CASE UNCHANGED ServiceVars
    <3>1. UNCHANGED answersVars /\ AnswersInv
      BY <2>2 DEF ServiceVars, AnswersKept
    <3> QED BY <3>1 DEF answersVars, AnswersInv, AnswersTyped, CallsFollow, KindIsThere, PartsApart, OneStores,
                        ReadsWhole
  <2> QED BY <2>1, <2>2
<1>5. ArtKept /\ WarmKept /\ AnswersKept => OneAnswer
  BY ArtOne, WarmPromise, AnswersPromise DEF ArtKept, WarmKept, AnswersKept, OneAnswer
<1> QED BY <1>1, <1>2, <1>3, <1>4, <1>5, PTL DEF ServiceSpec

ConnectionKept == part = "connection" => ConnectionInv

\* Whatever a request was answered, and wherever, the next read is of a request or of
\* nothing; the answers are to the requests in order, a HEAD's without a body, and a
\* stranger past the open pages is told 401 only (app.py _handle, _problem, _send).
THEOREM NextIsARequest == ServiceSpec => []AnswersAreFramed
<1>1. ServiceInit => ConnectionKept
  BY ConnectionStarts DEF ServiceInit, ConnectionKept
<1>2. ConnectionKept /\ [ServiceNext]_ServiceVars => ConnectionKept'
  <2> SUFFICES ASSUME ConnectionKept, [ServiceNext]_ServiceVars, part' = "connection" PROVE ConnectionInv'
    BY DEF ConnectionKept
  <2>1. CASE ServiceNext
    BY <2>1, ConnectionNext, ConnectionAssumption DEF ServiceNext, ConnectionKept
  <2>2. CASE UNCHANGED ServiceVars
    <3>1. UNCHANGED connectionVars /\ ConnectionInv
      BY <2>2 DEF ServiceVars, ConnectionKept
    <3> QED BY <3>1 DEF connectionVars, ConnectionInv, ConnectionTyped, AnswersSound, Stranger, Framed, Covers,
                        Due, InHand, Body, Connection!streamed, Connection!refused, Connection!pre_auth,
                        Connection!play_page, Connection!Reads
  <2> QED BY <2>1, <2>2
<1>3. ConnectionKept => AnswersAreFramed
  BY ConnectionPromise DEF ConnectionKept, AnswersAreFramed
<1> QED BY <1>1, <1>2, <1>3, PTL DEF ServiceSpec

SigninKept == part = "signin" => SigninInv

\* One state or device code mints one token, however polls, callbacks, approvals,
\* expiries and restarts interleave; a token is for whom the provider named or who was
\* told that they had approved it; a user is one person, though names are sanitized;
\* and no flood fills a map (oauth.py poll_device, approve_device, user_slug, _Pending).
THEOREM SignInStands == ServiceSpec => []SignInIsSound
<1>1. ServiceInit => SigninKept
  BY SigninStarts, SignInAssumption DEF ServiceInit, SigninKept
<1>2. SigninKept /\ [ServiceNext]_ServiceVars => SigninKept'
  <2> SUFFICES ASSUME SigninKept, [ServiceNext]_ServiceVars, part' = "signin" PROVE SigninInv'
    BY DEF SigninKept
  <2>1. CASE ServiceNext
    BY <2>1, SigninNext, SignInAssumption DEF ServiceNext, SigninKept
  <2>2. CASE UNCHANGED ServiceVars
    <3>1. UNCHANGED signinVars /\ SigninInv
      BY <2>2 DEF ServiceVars, SigninKept
    <3>2. UNCHANGED <<signinNow, states, devices, browsers, minted, signinCalls, approvals, returns>>
      BY <3>1 DEF signinVars
    <3>3. SigninTyped'
      BY <3>1, <3>2, Zenon DEF SigninInv, SigninTyped
    <3> QED BY <3>1, <3>2, <3>3, MapsAlone, MapSteps
  <2> QED BY <2>1, <2>2
<1>3. SigninKept => SignInIsSound
  BY SigninPromise, SignInAssumption DEF SigninKept, SignInIsSound
<1> QED BY <1>1, <1>2, <1>3, PTL DEF ServiceSpec

ScanKept == part = "catalog" => ScanInv

\* Whatever is imported, touched, deleted and scanned in whatever order, one import is
\* told of in one scan, none is passed over that the window's clocks agree on, and a row
\* is said to be missing only of a path that cannot be opened (routes_catalog.py scan).
THEOREM ScanStands == ServiceSpec => []ScanIsTrue
<1>1. ServiceInit => ScanKept
  BY ScanStarts DEF ServiceInit, ScanKept
<1>2. ScanKept /\ [ServiceNext]_ServiceVars => ScanKept'
  <2> SUFFICES ASSUME ScanKept, [ServiceNext]_ServiceVars, part' = "catalog" PROVE ScanInv'
    BY DEF ScanKept
  <2>1. CASE ServiceNext
    BY <2>1, ScanNext DEF ServiceNext, ScanKept
  <2>2. CASE UNCHANGED ServiceVars
    <3>1. UNCHANGED catalogVars /\ ScanInv
      BY <2>2 DEF ServiceVars, ScanKept
    <3> QED BY <3>1 DEF catalogVars, ScanInv, ScanTyped, Asked, Catalog!Entries
  <2> QED BY <2>1, <2>2
<1>3. ScanKept => ScanIsTrue
  BY ScanPromise DEF ScanKept, ScanIsTrue
<1> QED BY <1>1, <1>2, <1>3, PTL DEF ServiceSpec

PortsKept == part = "ports" => PortsInv

\* The ports store's lock keeps the changes apart, wherever the service stops.
LEMMA PortsAlways == ServiceSpec => []PortsKept
<1>1. ServiceInit => PortsKept
  BY PortsStart DEF ServiceInit, PortsKept
<1>2. PortsKept /\ [ServiceNext]_ServiceVars => PortsKept'
  <2> SUFFICES ASSUME PortsKept, [ServiceNext]_ServiceVars, part' = "ports" PROVE PortsInv'
    BY DEF PortsKept
  <2>1. CASE ServiceNext
    BY <2>1, PortsNext DEF ServiceNext, PortsKept
  <2>2. CASE UNCHANGED ServiceVars
    <3>1. UNCHANGED portsVars /\ PortsInv
      BY <2>2 DEF ServiceVars, PortsKept
    <3> QED BY <3>1 DEF portsVars, PortsInv, Ports!TypeOK, Ports!PointerStands, PortsLockIsHeld, ChangesFollow,
                        ReadersFollow
  <2> QED BY <2>1, <2>2
<1> QED BY <1>1, <1>2, PTL DEF ServiceSpec

\* The pointer to a pushed build names one that is there, whoever pushes and deletes
\* and wherever the service stops; and a download that no change overtook finds its
\* build (ports.py put, build_path).
THEOREM PointerAlwaysStands == ServiceSpec => []PointerStands
<1>1. PortsKept => PointerStands
  BY DEF PortsKept, PortsInv, PointerStands
<1> QED BY PortsAlways, <1>1, PTL

\* Of the threads at most one is between naming a build and sweeping the others
\* (ports.py put, delete).
THEOREM ChangesExclude ==
  ServiceSpec => [](part = "ports" => \A t, u \in Uploader :
                      portsCalls[t].at \in UnderLock /\ portsCalls[u].at \in UnderLock => t = u)
<1>1. PortsKept => (part = "ports" => \A t, u \in Uploader :
                      portsCalls[t].at \in UnderLock /\ portsCalls[u].at \in UnderLock => t = u)
  BY DEF PortsKept, PortsInv, PortsLockIsHeld
<1> QED BY PortsAlways, <1>1, PTL

LEMMA UpstreamSame ==
  ASSUME UpstreamInv, UNCHANGED upstreamVars
  PROVE  UpstreamInv'
<1>1. UNCHANGED <<upstreamNow, credit, updated, token, lock, upstreamCalls, slots, needless, outdated>>
  BY DEF upstreamVars
<1> USE DEF UpstreamInv
<1>2. UpstreamTyped'
  BY <1>1 DEF UpstreamTyped
<1>3. Paced'
  BY <1>1 DEF Paced, Debt
<1>4. \A t \in Thread : ThreadSound(t)' /\ MinterSound(t)'
  BY <1>1 DEF ThreadSound, MinterSound, Upstream!Fresh
<1>5. Upstream!TokenServes'
  BY <1>1 DEF Upstream!TokenServes
<1> QED BY <1>2, <1>3, <1>4, <1>5

LEMMA LogsSame ==
  ASSUME LogsInv, UNCHANGED logsVars
  PROVE  LogsInv'
<1>1. UNCHANGED <<logsClock, bundle, record, logsHolder, logsCalls, fits>>
  BY DEF logsVars
<1>2. /\ Logs!Listed' = Logs!Listed
      /\ \A S : Logs!Total(S)' = Logs!Total(S) /\ Logs!Oldest(S)' = Logs!Oldest(S)
  BY <1>1, StoreSame
<1>3. LogsTyped'
  BY <1>1, <1>2 DEF LogsInv, LogsTyped
<1>4. LogsLockIsHeld'
  BY <1>1 DEF LogsInv, LogsLockIsHeld
<1>5. StoreFits'
  BY <1>1, <1>2 DEF LogsInv, StoreFits
<1>6. \A c : CallFits(c)' = CallFits(c)
  BY <1>1, <1>2 DEF CallFits
<1>7. ASSUME NEW t \in Thread PROVE CallFits(logsCalls[t])' /\ UploadFollows(t)'
  BY <1>1, <1>2, <1>6 DEF LogsInv, UploadFollows
<1> QED BY <1>3, <1>4, <1>5, <1>7 DEF LogsInv

LEMMA PlannerSame ==
  ASSUME PlannerInv, UNCHANGED plannerVars
  PROVE  PlannerInv'
  BY DEF PlannerInv, plannerVars

UpstreamKept == part = "upstream" => UpstreamInv

\* However threads' clock readings and reservations interleave, no more calls fall due
\* in any stretch of time than the pace allows, and a call carries a token that still
\* serves when its wait is over, minted only when the last was nearly out
\* (ratelimit.py reserve, token_cache.py get).
THEOREM PaceStands == ServiceSpec => []ProxyIsKept
<1>1. ServiceInit => UpstreamKept
  BY UpstreamStarts DEF ServiceInit, UpstreamKept
<1>2. UpstreamKept /\ [ServiceNext]_ServiceVars => UpstreamKept'
  <2> SUFFICES ASSUME UpstreamKept, [ServiceNext]_ServiceVars, part' = "upstream" PROVE UpstreamInv'
    BY DEF UpstreamKept
  <2>1. CASE ServiceNext
    BY <2>1, UpstreamNext DEF ServiceNext, UpstreamKept
  <2>2. CASE UNCHANGED ServiceVars
    BY <2>2, UpstreamSame DEF ServiceVars, UpstreamKept
  <2> QED BY <2>1, <2>2
<1>3. UpstreamKept => ProxyIsKept
  BY UpstreamPromise DEF UpstreamKept, ProxyIsKept
<1> QED BY <1>1, <1>2, <1>3, PTL DEF ServiceSpec

LogsKept == part = "logs" => LogsInv

\* QuotaHolds, whatever uploads and deletions interleave and wherever the service
\* stops (logs_store.py store, pick_victims, delete).
THEOREM QuotaStands == ServiceSpec => []QuotaHolds
<1>1. ServiceInit => LogsKept
  BY LogsStarts DEF ServiceInit, LogsKept
<1>2. LogsKept /\ [ServiceNext]_ServiceVars => LogsKept'
  <2> SUFFICES ASSUME LogsKept, [ServiceNext]_ServiceVars, part' = "logs" PROVE LogsInv'
    BY DEF LogsKept
  <2>1. CASE ServiceNext
    BY <2>1, LogsNext DEF ServiceNext, LogsKept
  <2>2. CASE UNCHANGED ServiceVars
    BY <2>2, LogsSame DEF ServiceVars, LogsKept
  <2> QED BY <2>1, <2>2
<1>3. LogsKept => QuotaHolds
  BY LogsPromise DEF LogsKept, QuotaHolds
<1> QED BY <1>1, <1>2, <1>3, PTL DEF ServiceSpec

PlannerKept == part = "planner" => PlannerInv

\* Whatever a payload holds, what is planned for it is filed right, and a set's plan
\* keeps one dump of each title that has a retail one, and not a worse one
\* (classify.py classify, planner.py plan, slugify.py select_1g1r).
THEOREM PlanStands == ServiceSpec => []PlanIsSound
<1>1. ServiceInit => PlannerKept
  BY PlannerStarts DEF ServiceInit, PlannerKept
<1>2. PlannerKept /\ [ServiceNext]_ServiceVars => PlannerKept'
  <2> SUFFICES ASSUME PlannerKept, [ServiceNext]_ServiceVars, part' = "planner" PROVE PlannerInv'
    BY DEF PlannerKept
  <2>1. CASE ServiceNext
    BY <2>1, PlannerNext DEF ServiceNext, PlannerKept
  <2>2. CASE UNCHANGED ServiceVars
    BY <2>2, PlannerSame DEF ServiceVars, PlannerKept
  <2> QED BY <2>1, <2>2
<1>3. PlannerKept => PlanIsSound
  BY PlannerPromise DEF PlannerKept, PlanIsSound
<1> QED BY <1>1, <1>2, <1>3, PTL DEF ServiceSpec

(***************************************************************************)
(* The import runs, whose proofs are a module of their own: the behaviors  *)
(* of either library are behaviors of it.                                  *)
(***************************************************************************)

IndexerP == INSTANCE IndexerProofs WITH
  Of <- GameOf, Before <- GameBefore,
  rows <- indexerRows, turns <- indexerTurns

OneP == INSTANCE IndexerProofs WITH
  Game <- OneGames, Base <- OneBase, Extra <- OneExtra, Of <- OneOf, Before <- OneBefore,
  MaxRuns <- MaxOneRuns, MaxTurns <- MaxOneTurns,
  rows <- indexerRows, turns <- indexerTurns

LEMMA IndexerIsP ==
  (Indexer!Next <=> IndexerP!Next) /\ (Indexer!Init <=> IndexerP!Init)
BY DEF Indexer!Init, IndexerP!Init,
       Indexer!Begin, IndexerP!Begin, Indexer!Plan, IndexerP!Plan, Indexer!Next1, IndexerP!Next1, Indexer!Link,
       IndexerP!Link, Indexer!Accepts, IndexerP!Accepts, Indexer!Publishes, IndexerP!Publishes, Indexer!Kept,
       IndexerP!Kept, Indexer!Publish, IndexerP!Publish, Indexer!Torrents, IndexerP!Torrents, Indexer!Tree,
       IndexerP!Tree, Indexer!Touch, IndexerP!Touch, Indexer!Touches, IndexerP!Touches, Indexer!Wrong, IndexerP!Wrong, Indexer!Sweep,
       IndexerP!Sweep, Indexer!Kill, IndexerP!Kill, Indexer!Turn, IndexerP!Turn, Indexer!Goes, IndexerP!Goes,
       Indexer!Running, IndexerP!Running, Indexer!HasBytes, IndexerP!HasBytes, Indexer!Bytes, IndexerP!Bytes,
       Indexer!Listed, IndexerP!Listed, Indexer!NoRow, IndexerP!NoRow, Indexer!Idle, IndexerP!Idle,
       Indexer!Payload, IndexerP!Payload, Indexer!Runner, IndexerP!Runner, Indexer!Local, IndexerP!Local,
       Indexer!Next, IndexerP!Next, Indexer!Cardinality, IndexerP!Cardinality, Indexer!IsFiniteSet,
       IndexerP!IsFiniteSet

LEMMA OneGameIsP ==
  (OneGame!Next <=> OneP!Next) /\ (OneGame!Init <=> OneP!Init)
BY DEF OneGame!Init, OneP!Init,
       OneGame!Begin, OneP!Begin, OneGame!Plan, OneP!Plan, OneGame!Next1, OneP!Next1, OneGame!Link, OneP!Link,
       OneGame!Accepts, OneP!Accepts, OneGame!Publishes, OneP!Publishes, OneGame!Kept, OneP!Kept,
       OneGame!Publish, OneP!Publish, OneGame!Torrents, OneP!Torrents, OneGame!Tree, OneP!Tree, OneGame!Touch,
       OneP!Touch, OneGame!Touches, OneP!Touches, OneGame!Wrong, OneP!Wrong, OneGame!Sweep, OneP!Sweep, OneGame!Kill, OneP!Kill, OneGame!Turn,
       OneP!Turn, OneGame!Goes, OneP!Goes, OneGame!Running, OneP!Running, OneGame!HasBytes, OneP!HasBytes,
       OneGame!Bytes, OneP!Bytes, OneGame!Listed, OneP!Listed, OneGame!NoRow, OneP!NoRow, OneGame!Idle,
       OneP!Idle, OneGame!Payload, OneP!Payload, OneGame!Runner, OneP!Runner, OneGame!Local, OneP!Local,
       OneGame!Next, OneP!Next, OneGame!Cardinality, OneP!Cardinality, OneGame!IsFiniteSet, OneP!IsFiniteSet

LEMMA IndexerAlways == ServiceSpec => [](part = "indexer" => Indexer!SweepIsTrue /\ Indexer!RunSettles)
<1> DEFINE On == part = "indexer"
<1>1. IndexerP!Spec => [](IndexerP!SweepIsTrue /\ IndexerP!RunSettles)
  BY IndexerAssumption, IndexerP!RunsStand DEF IndexerP!Library, IndexerP!Payload, IndexerP!Local
<1>2. ServiceInit /\ On => IndexerP!Init
  BY IndexerIsP DEF ServiceInit
<1>3. On /\ [ServiceNext]_ServiceVars => On' /\ [IndexerP!Next]_IndexerP!vars
  BY IndexerIsP DEF ServiceNext, ServiceVars, indexerVars, IndexerP!vars
<1>4. ~On /\ [ServiceNext]_ServiceVars => ~On'
  BY DEF ServiceNext, ServiceVars
<1>5. IndexerP!SweepIsTrue /\ IndexerP!RunSettles => (On => Indexer!SweepIsTrue /\ Indexer!RunSettles)
  BY DEF Indexer!SweepIsTrue, Indexer!RunSettles, IndexerP!SweepIsTrue, IndexerP!RunSettles
<1>6. ~On => (On => Indexer!SweepIsTrue /\ Indexer!RunSettles)
  OBVIOUS
<1>7. (On => Indexer!SweepIsTrue /\ Indexer!RunSettles) => (part = "indexer" => Indexer!SweepIsTrue /\ Indexer!RunSettles)
  OBVIOUS
<1> HIDE DEF On
<1> QED BY <1>1, <1>2, <1>3, <1>4, <1>5, <1>6, <1>7, PTL DEF ServiceSpec, IndexerP!Spec

LEMMA OneGameAlways == ServiceSpec => [](part = "updates" => OneGame!SweepIsTrue /\ OneGame!RunSettles)
<1> DEFINE On == part = "updates"
<1>1. OneP!Spec => [](OneP!SweepIsTrue /\ OneP!RunSettles)
  BY OneGameAssumption, OneP!RunsStand DEF OneP!Library, OneP!Payload, OneP!Local
<1>2. ServiceInit /\ On => OneP!Init
  BY OneGameIsP DEF ServiceInit
<1>3. On /\ [ServiceNext]_ServiceVars => On' /\ [OneP!Next]_OneP!vars
  BY OneGameIsP DEF ServiceNext, ServiceVars, indexerVars, OneP!vars
<1>4. ~On /\ [ServiceNext]_ServiceVars => ~On'
  BY DEF ServiceNext, ServiceVars
<1>5. OneP!SweepIsTrue /\ OneP!RunSettles => (On => OneGame!SweepIsTrue /\ OneGame!RunSettles)
  BY DEF OneGame!SweepIsTrue, OneGame!RunSettles, OneP!SweepIsTrue, OneP!RunSettles
<1>6. ~On => (On => OneGame!SweepIsTrue /\ OneGame!RunSettles)
  OBVIOUS
<1>7. (On => OneGame!SweepIsTrue /\ OneGame!RunSettles) => (part = "updates" => OneGame!SweepIsTrue /\ OneGame!RunSettles)
  OBVIOUS
<1> HIDE DEF On
<1> QED BY <1>1, <1>2, <1>3, <1>4, <1>5, <1>6, <1>7, PTL DEF ServiceSpec, OneP!Spec

HashKept == part = "hashes" => HashInv

\* Whatever runs there are, of whatever library, and wherever they are killed: a sweep
\* reports no game whose bytes seeded all along, a run that nothing disturbed leaves the
\* catalog as the library is (run.py run, publish.py sweep), and the hash in a row that is
\* of the payload's present version is of its bytes (execute.py, publish.py).
THEOREM IndexStands == ServiceSpec => []IndexIsTrue
<1>1. ServiceInit => HashKept
  BY HashStarts, InodeAssumption DEF ServiceInit, HashKept
<1>2. HashKept /\ [ServiceNext]_ServiceVars => HashKept'
  <2> SUFFICES ASSUME HashKept, [ServiceNext]_ServiceVars, part' = "hashes" PROVE HashInv'
    BY DEF HashKept
  <2>1. CASE ServiceNext
    BY <2>1, HashNext DEF ServiceNext, HashKept
  <2>2. CASE UNCHANGED ServiceVars
    <3>1. UNCHANGED hashVars /\ HashInv
      BY <2>2 DEF ServiceVars, HashKept
    <3> QED BY <3>1 DEF hashVars, HashInv, HashTyped, HashSound, IsNow, OfTheLink, RunIsSound
  <2> QED BY <2>1, <2>2
<1>3. HashKept => (part = "hashes" => Hashes!HashIsTrue)
  BY HashPromise DEF HashKept
<1>4. /\ part = "indexer" => Indexer!SweepIsTrue /\ Indexer!RunSettles
      /\ part = "updates" => OneGame!SweepIsTrue /\ OneGame!RunSettles
      /\ part = "hashes" => Hashes!HashIsTrue
      => IndexIsTrue
  BY DEF IndexIsTrue
<1> QED BY <1>1, <1>2, <1>3, <1>4, IndexerAlways, OneGameAlways, PTL DEF ServiceSpec

=============================================================================
