--------------------------- MODULE IndexerProofs ---------------------------
(***************************************************************************)
(* That a sweep reports no game whose bytes seeded all along, and that a   *)
(* run which nothing disturbed leaves the catalog as the library is: for   *)
(* every library, any number of runs of either kind, killed anywhere, with *)
(* requests refused or lost.  A clean run is yet to come to a game, or has *)
(* confirmed it, at every step; and a clean run alone remembers the        *)
(* catalog as it is, so that what it is through with is in its game's row. *)
(***************************************************************************)
EXTENDS Indexer, TLAPS

(***************************************************************************)
(* The shape of the state.                                                 *)
(***************************************************************************)

Row == [path : Base \cup {"", Local}, extras : SUBSET Extra]

Run == [at : {"idle", "plan", "link", "publish", "tree", "sweep"}, rows : [Game -> Row], todo : SUBSET Payload,
        entries : SUBSET Game, done : SUBSET Game, unchanged : SUBSET Game, fresh : SUBSET Game,
        lacked : SUBSET Game, clean : BOOLEAN, alone : BOOLEAN]

\* An update hangs from its own game.
Attached(map) == \A g \in Game : \A x \in map[g].extras : Of[x] = g

TypeOK ==
  /\ seeds \subseteq Payload /\ manifest \subseteq Game
  /\ linked \in [Game -> SUBSET Base]
  /\ rows \in [Game -> Row] /\ Attached(rows)
  /\ runs \in [Runner -> Run]
  /\ \A r \in Runner : Attached(runs[r].rows)

-----------------------------------------------------------------------------
\* A full run alone gets to the tree, and to the sweep.
SweepsAreFull == \A r \in Runner : runs[r].at \in {"tree", "sweep"} => r \in Full

\* What a run is about to publish is what it has linked.
InHand(r) == runs[r].at = "publish" => \A s \in Base : Next1(r, s) => linked[Of[s]] = {s}

\* A run is yet to come to a game that lacked nothing, or has confirmed it, or failed.
Confirmed(r, g) ==
  LET run == runs[r]
      come == g \in run.unchanged \cup run.fresh IN
  /\ HasBytes(g)
  /\ run.at \in {"link", "publish"} /\ r \in Full /\ run.clean =>
       come \/ \E s \in run.todo \cap Base : Of[s] = g /\ linked[g] = {s}
  /\ run.at = "tree" /\ run.clean => come
  /\ run.at = "sweep" /\ run.clean => g \in run.fresh

Confirms(r) == runs[r].at # "idle" => \A g \in Game \ runs[r].lacked : Confirmed(r, g)

\* A run that nothing disturbs is the only one, and, as long as no request of its own
\* was lost, remembers the catalog as it is.
IsAlone(r) ==
  runs[r].alone /\ runs[r].at # "idle" =>
    /\ \A q \in Runner \ {r} : runs[q].at = "idle"
    /\ runs[r].clean => runs[r].rows = rows

\* A payload that a run is through with is in its game's row.
Through(r) ==
  LET run == runs[r] IN
  /\ run.todo \subseteq seeds
  /\ run.at \in {"tree", "sweep"} => run.todo = {}
  /\ \A b \in (seeds \cap Base) \ run.todo :
       /\ linked[Of[b]] = {b} /\ Of[b] \in run.done
       /\ rows[Of[b]].path = b /\ rows[Of[b]].extras \subseteq seeds
  /\ \A x \in (seeds \cap Extra) \ run.todo : run.todo \cap Base = {} /\ x \in rows[Of[x]].extras

Settles(r) ==
  /\ r \in Full /\ runs[r].alone /\ runs[r].clean
  /\ runs[r].at \in {"link", "publish", "tree", "sweep"}
  => Through(r)

IInv ==
  /\ TypeOK /\ SweepsAreFull
  /\ \A r \in Runner : InHand(r) /\ Confirms(r) /\ IsAlone(r) /\ Settles(r)
  /\ SweepIsTrue /\ RunSettles

-----------------------------------------------------------------------------
(* What the steps keep. *)

\* The directory has each payload once, in some order; what is of its own is not
\* attached to another, and no payload has an empty path or the tree's.
Library ==
  /\ Base \cap Extra = {} /\ "" \notin Payload /\ Local \notin Payload
  /\ \A s \in Payload : Of[s] \in Game
  /\ \A s, u \in Payload : <<s, u>> \in Before => <<u, s>> \notin Before

LEMMA NextIsOne ==
  ASSUME Library, TypeOK, NEW r \in Runner, NEW s, NEW u, Next1(r, s), Next1(r, u)
  PROVE  s = u
<1>1. runs[r].todo \subseteq Payload
  BY DEF TypeOK, Run
<1> QED BY <1>1 DEF Library, Next1

LEMMA IdleRun ==
  /\ Idle \in Run /\ Attached(Idle.rows) /\ Idle.at = "idle" /\ Idle.lacked = {} /\ Idle.clean = TRUE
  /\ Idle.rows = [g \in Game |-> NoRow]
<1>1. NoRow \in Row /\ NoRow.extras = {}
  BY DEF NoRow, Row
<1>2. [g \in Game |-> NoRow] \in [Game -> Row]
  BY <1>1
<1>3. Idle.rows = [g \in Game |-> NoRow]
  BY DEF Idle
<1>4. Attached(Idle.rows)
  BY <1>1, <1>3 DEF Attached
<1> QED BY <1>2, <1>3, <1>4 DEF Idle, Run

LEMMA TypedRun ==
  ASSUME TypeOK, NEW r \in Runner
  PROVE  runs[r] \in Run /\ Attached(runs[r].rows)
  BY DEF TypeOK

\* A link, once made, stands.
LinksStand == \A g \in Game : linked[g] # {} => linked'[g] = linked[g]

LEMMA BytesStay ==
  ASSUME LinksStand, seeds' = seeds, NEW g \in Game, HasBytes(g)
  PROVE  HasBytes(g)'
  BY DEF LinksStand, HasBytes

\* Beside a step of another run.
Beside(q) ==
  /\ runs'[q].at = runs[q].at /\ runs'[q].todo = runs[q].todo
  /\ runs'[q].unchanged = runs[q].unchanged /\ runs'[q].lacked = runs[q].lacked
  /\ runs'[q].clean = runs[q].clean /\ runs[q].fresh \subseteq runs'[q].fresh

LEMMA OtherStands ==
  ASSUME Library, IInv, seeds' = seeds, LinksStand, NEW q \in Runner, Beside(q),
         runs'[q].at # "idle" => ~runs'[q].alone
  PROVE  InHand(q)' /\ Confirms(q)' /\ IsAlone(q)' /\ Settles(q)'
<1>1. PICK was : was = runs[q]
  OBVIOUS
<1>2. PICK now : now = runs'[q]
  OBVIOUS
<1>3. /\ now.at = was.at /\ now.todo = was.todo /\ now.unchanged = was.unchanged /\ now.lacked = was.lacked
      /\ now.clean = was.clean /\ was.fresh \subseteq now.fresh /\ was \in Run
  BY <1>1, <1>2, TypedRun DEF Beside, IInv
<1>4. InHand(q)'
  <2> SUFFICES ASSUME was.at = "publish", NEW s \in Base, Next1(q, s)'
               PROVE  linked'[Of[s]] = {s}
    BY <1>2, <1>3 DEF InHand
  <2>1. Next1(q, s)
    BY <1>1, <1>2, <1>3 DEF Next1
  <2>2. linked[Of[s]] = {s}
    BY <1>1, <2>1 DEF IInv, InHand
  <2>3. Of[s] \in Game
    BY DEF Library, Payload
  <2> QED BY <2>2, <2>3 DEF LinksStand
<1>5. Confirms(q)'
  <2> SUFFICES ASSUME now.at # "idle", NEW g \in Game \ now.lacked
               PROVE  Confirmed(q, g)'
    BY <1>2 DEF Confirms
  <2>1. Confirmed(q, g)
    BY <1>1, <1>3 DEF IInv, Confirms
  <2>2. HasBytes(g)'
    BY <2>1, BytesStay DEF Confirmed
  <2>3. \A s : linked[g] = {s} => linked'[g] = {s}
    BY DEF LinksStand
  <2>4. ASSUME now.at \in {"link", "publish"}, q \in Full, now.clean
        PROVE  \/ g \in now.unchanged \cup now.fresh
               \/ \E s \in now.todo \cap Base : Of[s] = g /\ linked'[g] = {s}
    BY <1>1, <1>3, <2>1, <2>3, <2>4 DEF Confirmed
  <2>5. now.at = "tree" /\ now.clean => g \in now.unchanged \cup now.fresh
    BY <1>1, <1>3, <2>1 DEF Confirmed
  <2>6. now.at = "sweep" /\ now.clean => g \in now.fresh
    BY <1>1, <1>3, <2>1 DEF Confirmed
  <2> QED BY <1>2, <2>2, <2>4, <2>5, <2>6 DEF Confirmed
<1>6. IsAlone(q)' /\ Settles(q)'
  BY DEF IsAlone, Settles
<1> QED BY <1>4, <1>5, <1>6

\* A step of one run, which keeps what is said of it.
LEMMA StepOfOne ==
  ASSUME Library, IInv, TypeOK', seeds' = seeds, LinksStand, NEW r \in Runner, runs[r].at # "idle",
         \A q \in Runner \ {r} : Beside(q) /\ runs'[q].alone = runs[q].alone,
         runs'[r].at \in {"tree", "sweep"} => r \in Full,
         InHand(r)', Confirms(r)', Settles(r)', SweepIsTrue', RunSettles',
         runs'[r].alone /\ runs'[r].at # "idle" =>
           runs[r].alone /\ (runs'[r].clean => runs[r].clean /\ (runs[r].rows = rows => runs'[r].rows = rows'))
  PROVE  IInv'
<1>1. \A q \in Runner \ {r} : runs[q].at # "idle" => ~runs[q].alone
  BY DEF IInv, IsAlone
<1>2. \A q \in Runner \ {r} : InHand(q)' /\ Confirms(q)' /\ IsAlone(q)' /\ Settles(q)'
  BY <1>1, OtherStands DEF Beside
<1>3. SweepsAreFull'
  BY DEF IInv, SweepsAreFull, Beside
<1>4. IsAlone(r)'
  BY DEF IInv, IsAlone, Beside
<1> QED BY <1>2, <1>3, <1>4 DEF IInv

\* A run that ends or fails has nothing left to keep.
LEMMA OverStep ==
  ASSUME Library, IInv, UNCHANGED <<seeds, linked, manifest, rows>>, NEW r \in Runner, runs[r].at # "idle",
         runs' = [runs EXCEPT ![r] = Idle], SweepIsTrue', RunSettles'
  PROVE  IInv'
<1>1. runs \in [Runner -> Run]
  BY DEF IInv, TypeOK
<1>2. runs' \in [Runner -> Run] /\ runs'[r] = Idle /\ \A q \in Runner \ {r} : runs'[q] = runs[q]
  BY <1>1, IdleRun
<1>3. TypeOK'
  BY <1>2, IdleRun DEF IInv, TypeOK, Attached
<1>4. InHand(r)' /\ Confirms(r)' /\ Settles(r)'
  BY <1>2, IdleRun DEF InHand, Confirms, Settles
<1>5. LinksStand /\ \A q \in Runner \ {r} : Beside(q)
  BY <1>2 DEF LinksStand, Beside
<1> QED BY <1>2, <1>3, <1>4, <1>5, IdleRun, StepOfOne

-----------------------------------------------------------------------------
(* The steps. *)

LEMMA InitIInv ==
  ASSUME Init
  PROVE  IInv
<1>1. /\ seeds = {} /\ linked = [g \in Game |-> {}] /\ manifest = {} /\ rows = [g \in Game |-> NoRow]
      /\ runs = [r \in Runner |-> Idle] /\ reported = {} /\ stale = {}
  BY DEF Init
<1>2. NoRow \in Row /\ NoRow.extras = {}
  BY DEF NoRow, Row
<1>3. TypeOK
  <2>1. rows \in [Game -> Row] /\ Attached(rows)
    BY <1>1, <1>2 DEF Attached
  <2>2. runs \in [Runner -> Run] /\ \A r \in Runner : Attached(runs[r].rows)
    BY <1>1, IdleRun
  <2>3. linked \in [Game -> SUBSET Base]
    BY <1>1
  <2> QED BY <1>1, <2>1, <2>2, <2>3 DEF TypeOK
<1>4. \A r \in Runner : runs[r].at = "idle"
  BY <1>1, IdleRun
<1> QED BY <1>1, <1>3, <1>4 DEF IInv, SweepsAreFull, InHand, Confirms, IsAlone, Settles, SweepIsTrue, RunSettles

LEMMA BeginStep ==
  ASSUME Library, IInv, NEW r \in Runner, Begin(r)
  PROVE  IInv'
<1> DEFINE new == [Idle EXCEPT !.at = "plan", !.rows = rows, !.alone = Running = {},
                               !.lacked = {g \in Game : ~HasBytes(g)}]
<1>1. /\ runs' = [q \in Runner |-> IF q = r THEN new ELSE [runs[q] EXCEPT !.alone = FALSE]]
      /\ UNCHANGED <<seeds, linked, manifest, rows, reported, stale>>
  BY DEF Begin
<1>2. runs \in [Runner -> Run] /\ rows \in [Game -> Row] /\ Attached(rows)
  BY DEF IInv, TypeOK
<1>3. /\ new \in Run /\ new.at = "plan" /\ new.rows = rows /\ (new.alone <=> Running = {})
      /\ new.lacked = {g \in Game : ~HasBytes(g)}
  BY <1>2, IdleRun DEF Run
<1> HIDE DEF new
<1>4. /\ runs'[r] = new /\ \A q \in Runner \ {r} : runs'[q] = [runs[q] EXCEPT !.alone = FALSE]
      /\ \A q \in Runner \ {r} : runs'[q] \in Run /\ ~runs'[q].alone /\ Beside(q) /\ runs'[q].rows = runs[q].rows
  BY <1>1, <1>2 DEF Run, Beside
<1>5. TypeOK'
  <2>1. runs' \in [Runner -> Run]
    BY <1>1, <1>3, <1>4
  <2>2. \A q \in Runner : Attached(runs[q].rows)'
    BY <1>1, <1>2, <1>3, <1>4, TypedRun DEF IInv, Attached
  <2> QED BY <1>1, <2>1, <2>2 DEF IInv, TypeOK, Attached
<1>6. LinksStand
  BY <1>1 DEF LinksStand
<1>7. \A q \in Runner \ {r} : InHand(q)' /\ Confirms(q)' /\ IsAlone(q)' /\ Settles(q)'
  BY <1>1, <1>4, <1>6, OtherStands
<1>8. InHand(r)' /\ Settles(r)'
  BY <1>3, <1>4 DEF InHand, Settles
<1>9. Confirms(r)'
  <2>1. \A g \in Game : HasBytes(g)' <=> HasBytes(g)
    BY <1>1 DEF HasBytes
  <2> QED BY <1>3, <1>4, <2>1 DEF Confirms, Confirmed
<1>10. IsAlone(r)'
  BY <1>1, <1>3, <1>4 DEF IsAlone, Running, Beside
<1>11. SweepsAreFull'
  BY <1>3, <1>4 DEF SweepsAreFull, IInv, Beside
<1> QED BY <1>1, <1>5, <1>7, <1>8, <1>9, <1>10, <1>11 DEF IInv, SweepIsTrue, RunSettles

LEMMA PlanStep ==
  ASSUME Library, IInv, NEW r \in Runner, Plan(r)
  PROVE  IInv'
<1>1. PICK chosen \in SUBSET seeds :
        /\ r \in Full => chosen = seeds
        /\ runs' = [runs EXCEPT ![r] = [runs[r] EXCEPT !.at = "link", !.todo = chosen, !.entries = manifest]]
  BY DEF Plan, Goes
<1>2. runs[r].at = "plan" /\ UNCHANGED <<seeds, linked, manifest, rows, reported, stale>>
  BY DEF Plan
<1> DEFINE new == [runs[r] EXCEPT !.at = "link", !.todo = chosen, !.entries = manifest]
<1>3. runs \in [Runner -> Run] /\ seeds \subseteq Payload /\ manifest \subseteq Game
  BY DEF IInv, TypeOK
<1>4. /\ new \in Run /\ new.at = "link" /\ new.todo = chosen /\ new.rows = runs[r].rows
      /\ new.lacked = runs[r].lacked /\ new.alone = runs[r].alone /\ new.clean = runs[r].clean
  BY <1>3 DEF Run
<1> HIDE DEF new
<1>5. runs' \in [Runner -> Run] /\ runs'[r] = new /\ \A q \in Runner \ {r} : runs'[q] = runs[q]
  BY <1>1, <1>3, <1>4 DEF new
<1>6. TypeOK'
  BY <1>2, <1>4, <1>5, TypedRun DEF IInv, TypeOK, Attached
<1>7. LinksStand /\ \A q \in Runner \ {r} : Beside(q) /\ runs'[q].alone = runs[q].alone
  BY <1>2, <1>5 DEF LinksStand, Beside
<1>8. InHand(r)'
  BY <1>4, <1>5 DEF InHand
<1>9. Confirms(r)'
  <2> SUFFICES ASSUME NEW g \in Game \ runs[r].lacked
               PROVE  Confirmed(r, g)'
    BY <1>4, <1>5 DEF Confirms
  <2>1. HasBytes(g)
    BY <1>2 DEF IInv, Confirms, Confirmed
  <2>2. PICK s \in seeds \cap Base : Of[s] = g /\ linked[g] = {s}
    BY <2>1 DEF HasBytes
  <2>3. r \in Full => s \in new.todo
    BY <1>1, <1>4, <2>2
  <2> QED BY <1>2, <1>4, <1>5, <2>1, <2>2, <2>3 DEF Confirmed, HasBytes
<1>10. Settles(r)'
  BY <1>1, <1>2, <1>4, <1>5 DEF Settles, Through
<1>11. SweepIsTrue' /\ RunSettles'
  BY <1>2 DEF IInv, SweepIsTrue, RunSettles
<1> QED BY <1>2, <1>4, <1>5, <1>6, <1>7, <1>8, <1>9, <1>10, <1>11, StepOfOne

LEMMA LinkStep ==
  ASSUME Library, IInv, NEW r \in Runner, NEW s \in Payload, Link(r, s)
  PROVE  IInv'
<1>1. PICK was \in Run : was = runs[r]
  BY TypedRun DEF IInv
<1>2. PICK g \in Game : g = Of[s]
  BY DEF Library
<1> DEFINE ok == s \in Extra \/ (s \in seeds /\ linked[g] \in {{}, {s}})
           kept == IF s \in Base /\ ok THEN was.entries \cup {g} ELSE was.entries
           goes == [was EXCEPT !.at = "publish", !.entries = kept]
           fails == [was EXCEPT !.todo = @ \ {s}, !.clean = FALSE]
           new == IF ok THEN goes ELSE fails
<1>3. /\ was.at = "link" /\ Next1(r, s) /\ manifest' = kept
      /\ linked' = IF s \in Base /\ ok THEN [linked EXCEPT ![g] = {s}] ELSE linked
      /\ UNCHANGED <<seeds, rows, reported, stale>>
  BY <1>1, <1>2 DEF Link
<1>4. runs' = [runs EXCEPT ![r] = new]
  BY <1>1, <1>2 DEF Link, Goes
<1>5. kept \in SUBSET Game
  BY DEF Run
<1> HIDE DEF kept
<1>6. /\ goes \in Run /\ fails \in Run
      /\ goes = [was EXCEPT !.at = "publish", !.entries = kept]
      /\ fails = [was EXCEPT !.todo = @ \ {s}, !.clean = FALSE]
  BY <1>5 DEF Run
<1>7. /\ new \in Run /\ new.rows = was.rows /\ new.lacked = was.lacked /\ new.alone = was.alone
      /\ new.unchanged = was.unchanged /\ new.fresh = was.fresh /\ new.done = was.done
      /\ ok => new.at = "publish" /\ new.todo = was.todo /\ new.clean = was.clean
      /\ ~ok => new.at = "link" /\ ~new.clean
  <2>1. CASE ok
    <3>1. new = goes
      BY <2>1
    <3> QED BY <2>1, <3>1, <1>6 DEF Run
  <2>2. CASE ~ok
    <3>1. new = fails /\ was.at = "link"
      BY <2>2, <1>3
    <3> QED BY <2>2, <3>1, <1>6 DEF Run
  <2> QED BY <2>1, <2>2
<1>8. linked \in [Game -> SUBSET Base] /\ runs \in [Runner -> Run]
  BY DEF IInv, TypeOK
<1>9. /\ linked' \in [Game -> SUBSET Base] /\ LinksStand
      /\ s \in Base /\ ok => linked'[g] = {s}
  <2>1. CASE s \in Base /\ ok
    <3>1. s \notin Extra
      BY <2>1 DEF Library
    <3> QED BY <1>3, <1>8, <2>1, <3>1 DEF LinksStand
  <2>2. CASE ~(s \in Base /\ ok)
    BY <1>3, <1>8, <2>2 DEF LinksStand
  <2> QED BY <2>1, <2>2
<1> HIDE DEF new
<1>10. runs' \in [Runner -> Run] /\ runs'[r] = new /\ \A q \in Runner \ {r} : runs'[q] = runs[q]
  BY <1>4, <1>5, <1>7, <1>8
<1> HIDE DEF ok
<1>11. TypeOK'
  BY <1>1, <1>3, <1>5, <1>7, <1>9, <1>10, TypedRun DEF IInv, TypeOK, Attached
<1>12. \A q \in Runner \ {r} : Beside(q) /\ runs'[q].alone = runs[q].alone
  BY <1>10 DEF Beside
<1>13. InHand(r)'
  <2> SUFFICES ASSUME new.at = "publish", NEW u \in Base, Next1(r, u)'
               PROVE  linked'[Of[u]] = {u}
    BY <1>10 DEF InHand
  <2>1. ok
    BY <1>5, <1>7
  <2>2. Next1(r, u)
    BY <1>1, <1>5, <1>7, <1>10, <2>1 DEF Next1
  <2>3. u = s
    BY <1>3, <2>2, NextIsOne DEF IInv
  <2> QED BY <1>2, <1>9, <2>1, <2>3
<1>14. Confirms(r)'
  <2> SUFFICES ASSUME NEW h \in Game \ was.lacked
               PROVE  Confirmed(r, h)'
    BY <1>5, <1>7, <1>10 DEF Confirms
  <2>1. Confirmed(r, h)
    BY <1>1, <1>3 DEF IInv, Confirms
  <2>2. HasBytes(h)'
    BY <1>3, <1>9, <2>1, BytesStay DEF Confirmed
  <2>3. \A x : linked[h] = {x} => linked'[h] = {x}
    BY <1>9 DEF LinksStand
  <2>4. ASSUME r \in Full, new.clean
        PROVE  \/ h \in new.unchanged \cup new.fresh
               \/ \E x \in new.todo \cap Base : Of[x] = h /\ linked'[h] = {x}
    BY <1>1, <1>3, <1>5, <1>7, <2>1, <2>3, <2>4 DEF Confirmed
  <2> QED BY <1>5, <1>7, <1>10, <2>2, <2>4 DEF Confirmed
<1>15. Settles(r)'
  <2> SUFFICES ASSUME r \in Full, was.alone, new.clean
               PROVE  Through(r)'
    BY <1>5, <1>7, <1>10 DEF Settles
  <2>1. ok /\ Through(r)
    BY <1>1, <1>3, <1>5, <1>7 DEF IInv, Settles
  <2>2. \A b \in (seeds \cap Base) \ was.todo : linked'[Of[b]] = {b}
    <3>1. \A b \in Base : Of[b] \in Game
      BY DEF Library, Payload
    <3> QED BY <1>1, <1>9, <2>1, <3>1 DEF Through, LinksStand
  <2> QED BY <1>1, <1>3, <1>5, <1>7, <1>10, <2>1, <2>2 DEF Through
<1>16. SweepIsTrue' /\ RunSettles'
  BY <1>3 DEF IInv, SweepIsTrue, RunSettles
<1> QED BY <1>1, <1>3, <1>5, <1>7, <1>9, <1>10, <1>11, <1>12, <1>13, <1>14, <1>15, <1>16, StepOfOne

\* Games that one run has seen are seen after every run's start.
LEMMA SeenByAll ==
  ASSUME IInv, NEW r \in Runner, NEW now \in Run, Attached(now.rows), NEW seen \in SUBSET Game,
         runs' = [q \in Runner |-> IF q = r THEN now ELSE [runs[q] EXCEPT !.fresh = @ \cup seen]],
         UNCHANGED <<seeds, linked, manifest>>, rows' \in [Game -> Row], Attached(rows)'
  PROVE  /\ TypeOK' /\ runs'[r] = now
         /\ \A q \in Runner \ {r} : Beside(q) /\ runs'[q].alone = runs[q].alone /\ runs'[q].at = runs[q].at
<1>1. runs \in [Runner -> Run]
  BY DEF IInv, TypeOK
<1>2. runs'[r] = now /\ \A q \in Runner \ {r} : runs'[q] = [runs[q] EXCEPT !.fresh = @ \cup seen]
  OBVIOUS
<1>3. ASSUME NEW q \in Runner \ {r}
      PROVE  /\ runs'[q] \in Run /\ Beside(q) /\ runs'[q].alone = runs[q].alone
             /\ runs'[q].rows = runs[q].rows /\ runs'[q].at = runs[q].at
  <2>1. PICK other \in Run : other = runs[q]
    BY <1>1
  <2>2. runs'[q] = [other EXCEPT !.fresh = @ \cup seen]
    BY <1>2, <2>1
  <2>3. /\ runs'[q] \in Run /\ runs'[q].alone = other.alone /\ runs'[q].rows = other.rows
        /\ runs'[q].at = other.at /\ runs'[q].todo = other.todo /\ runs'[q].unchanged = other.unchanged
        /\ runs'[q].lacked = other.lacked /\ runs'[q].clean = other.clean
        /\ runs'[q].fresh = other.fresh \cup seen
    BY <2>2 DEF Run
  <2> QED BY <2>1, <2>3 DEF Beside
<1>4. runs' \in [Runner -> Run]
  BY <1>2, <1>3
<1>5. \A q \in Runner : Attached(runs[q].rows)'
  BY <1>2, <1>3, TypedRun DEF IInv, Attached
<1>6. TypeOK'
  BY <1>4, <1>5 DEF IInv, TypeOK
<1> QED BY <1>2, <1>3, <1>6

\* What publishing comes to, as long as nothing has failed: the row is as the run would
\* have it, and the run has confirmed it.
LEMMA Published ==
  ASSUME Library, IInv, NEW r \in Runner, NEW was \in Run, was = runs[r], NEW g \in Game, NEW new \in Row,
         \A x \in new.extras : Of[x] = g,
         NEW run \in Run, run.rows = was.rows, run.lacked = was.lacked, run.alone = was.alone,
         run.done = was.done, run.unchanged = was.unchanged, run.fresh = was.fresh, run.clean = was.clean,
         UNCHANGED <<seeds, linked, manifest>>, Publishes(r, g, new, run)
  PROVE  /\ TypeOK' /\ LinksStand
         /\ \A q \in Runner \ {r} : Beside(q) /\ runs'[q].alone = runs[q].alone /\ runs'[q].at = runs[q].at
         /\ \E now \in Run :
              /\ now = runs'[r] /\ now.at = run.at /\ now.todo = run.todo /\ now.lacked = was.lacked
              /\ now.alone = was.alone
              /\ was.unchanged \subseteq now.unchanged /\ was.fresh \subseteq now.fresh
              /\ now.clean =>
                   /\ was.clean /\ now.done = was.done \cup {g} /\ g \in now.unchanged \cup now.fresh
                   /\ was.rows = rows => rows' = [rows EXCEPT ![g] = new] /\ now.rows = rows'
<1>1. /\ runs \in [Runner -> Run] /\ rows \in [Game -> Row] /\ Attached(rows) /\ Attached(was.rows)
      /\ was.rows \in [Game -> Row]
  BY DEF IInv, TypeOK, Run
<1>2. LinksStand
  BY DEF LinksStand
<1>3. /\ {g} \in SUBSET Game
      /\ rows' = [rows EXCEPT ![g] = new] => rows' \in [Game -> Row] /\ Attached(rows)'
  BY <1>1 DEF Attached
<1>4. ASSUME NEW now \in Run, runs' = [runs EXCEPT ![r] = now], rows' = rows, now.rows = was.rows
      PROVE  /\ TypeOK' /\ runs'[r] = now
             /\ \A q \in Runner \ {r} : Beside(q) /\ runs'[q].alone = runs[q].alone /\ runs'[q].at = runs[q].at
  <2>1. runs'[r] = now /\ runs' \in [Runner -> Run] /\ \A q \in Runner \ {r} : runs'[q] = runs[q]
    BY <1>1, <1>4
  <2> QED BY <1>1, <1>4, <2>1 DEF IInv, TypeOK, Attached, Beside
<1>5. CASE new = was.rows[g] /\ Goes(r, [run EXCEPT !.done = @ \cup {g}, !.unchanged = @ \cup {g}]) /\ rows' = rows
  <2> DEFINE now == [run EXCEPT !.done = @ \cup {g}, !.unchanged = @ \cup {g}]
  <2>1. /\ now \in Run /\ now.at = run.at /\ now.todo = run.todo /\ now.lacked = was.lacked
        /\ now.alone = was.alone /\ now.rows = was.rows /\ now.clean = was.clean
        /\ now.done = was.done \cup {g} /\ now.unchanged = was.unchanged \cup {g} /\ now.fresh = was.fresh
    BY DEF Run
  <2>2. runs' = [runs EXCEPT ![r] = now]
    BY <1>5 DEF Goes
  <2> HIDE DEF now
  <2>3. was.rows = rows => rows' = [rows EXCEPT ![g] = new]
    BY <1>1, <1>5
  <2> QED BY <1>2, <1>4, <1>5, <2>1, <2>2, <2>3
<1>6. CASE /\ rows' = [rows EXCEPT ![g] = new]
           /\ runs' = [q \in Runner |->
                        IF q = r THEN [run EXCEPT !.done = @ \cup {g}, !.rows[g] = new, !.fresh = @ \cup {g}]
                        ELSE [runs[q] EXCEPT !.fresh = @ \cup {g}]]
  <2> DEFINE now == [run EXCEPT !.done = @ \cup {g}, !.rows[g] = new, !.fresh = @ \cup {g}]
  <2>1. /\ now \in Run /\ now.at = run.at /\ now.todo = run.todo /\ now.lacked = was.lacked
        /\ now.alone = was.alone /\ now.rows = [was.rows EXCEPT ![g] = new] /\ now.clean = was.clean
        /\ now.done = was.done \cup {g} /\ now.unchanged = was.unchanged /\ now.fresh = was.fresh \cup {g}
    BY <1>1 DEF Run
  <2> HIDE DEF now
  <2>2. runs' = [q \in Runner |-> IF q = r THEN now ELSE [runs[q] EXCEPT !.fresh = @ \cup {g}]]
    BY <1>6 DEF now
  <2>3. Attached(now.rows)
    BY <1>1, <2>1 DEF Attached
  <2>4. /\ TypeOK' /\ runs'[r] = now
        /\ \A q \in Runner \ {r} : Beside(q) /\ runs'[q].alone = runs[q].alone /\ runs'[q].at = runs[q].at
    BY <1>3, <1>6, <2>1, <2>2, <2>3, SeenByAll
  <2>5. was.rows = rows => now.rows = rows'
    BY <1>6, <2>1
  <2> QED BY <1>2, <1>6, <2>1, <2>4, <2>5
<1>7. CASE Goes(r, [run EXCEPT !.clean = FALSE]) /\ rows' = rows
  <2> DEFINE now == [run EXCEPT !.clean = FALSE]
  <2>1. /\ now \in Run /\ now.at = run.at /\ now.todo = run.todo /\ now.lacked = was.lacked
        /\ now.alone = was.alone /\ now.rows = was.rows /\ ~now.clean
        /\ now.unchanged = was.unchanged /\ now.fresh = was.fresh
    BY DEF Run
  <2>2. runs' = [runs EXCEPT ![r] = now]
    BY <1>7 DEF Goes
  <2> HIDE DEF now
  <2> QED BY <1>2, <1>4, <1>7, <2>1, <2>2
<1>8. CASE /\ rows' = [rows EXCEPT ![g] = new]
           /\ runs' = [q \in Runner |->
                        IF q = r THEN [run EXCEPT !.clean = FALSE, !.fresh = @ \cup {g}]
                        ELSE [runs[q] EXCEPT !.fresh = @ \cup {g}]]
  <2> DEFINE now == [run EXCEPT !.clean = FALSE, !.fresh = @ \cup {g}]
  <2>1. /\ now \in Run /\ now.at = run.at /\ now.todo = run.todo /\ now.lacked = was.lacked
        /\ now.alone = was.alone /\ now.rows = was.rows /\ ~now.clean
        /\ now.unchanged = was.unchanged /\ now.fresh = was.fresh \cup {g}
    BY DEF Run
  <2> HIDE DEF now
  <2>2. runs' = [q \in Runner |-> IF q = r THEN now ELSE [runs[q] EXCEPT !.fresh = @ \cup {g}]]
    BY <1>8 DEF now
  <2>3. Attached(now.rows)
    BY <1>1, <2>1
  <2>4. /\ TypeOK' /\ runs'[r] = now
        /\ \A q \in Runner \ {r} : Beside(q) /\ runs'[q].alone = runs[q].alone /\ runs'[q].at = runs[q].at
    BY <1>3, <1>8, <2>1, <2>2, <2>3, SeenByAll
  <2> QED BY <1>2, <2>1, <2>4
<1> QED BY <1>5, <1>6, <1>7, <1>8 DEF Publishes

\* A run that has failed promises nothing until it is over.
LEMMA FailedStep ==
  ASSUME Library, IInv, NEW r \in Runner, runs[r].at # "idle", NEW now \in Run, runs' = [runs EXCEPT ![r] = now],
         UNCHANGED <<seeds, linked, manifest, rows, reported, stale>>, now.rows = runs[r].rows,
         now.lacked = runs[r].lacked, now.alone = runs[r].alone, ~now.clean, now.at # "publish",
         now.at \in {"tree", "sweep"} => r \in Full
  PROVE  IInv'
<1>1. runs'[r] = now /\ runs' \in [Runner -> Run] /\ \A q \in Runner \ {r} : runs'[q] = runs[q]
  BY DEF IInv, TypeOK
<1>2. TypeOK'
  BY <1>1, TypedRun DEF IInv, TypeOK, Attached
<1>3. LinksStand /\ \A q \in Runner \ {r} : Beside(q) /\ runs'[q].alone = runs[q].alone
  BY <1>1 DEF LinksStand, Beside
<1>4. InHand(r)' /\ Settles(r)'
  BY <1>1 DEF InHand, Settles
<1>5. Confirms(r)'
  <2>1. \A g \in Game \ now.lacked : HasBytes(g)'
    BY <1>3, BytesStay DEF IInv, Confirms, Confirmed
  <2> QED BY <1>1, <2>1 DEF Confirms, Confirmed
<1>6. SweepIsTrue' /\ RunSettles'
  BY DEF IInv, SweepIsTrue, RunSettles
<1> QED BY <1>1, <1>2, <1>3, <1>4, <1>5, <1>6, StepOfOne

LEMMA PublishStep ==
  ASSUME Library, IInv, NEW r \in Runner, NEW s \in Payload, Publish(r, s)
  PROVE  IInv'
<1>1. PICK was \in Run : was = runs[r]
  BY TypedRun DEF IInv
<1>2. PICK g \in Game : g = Of[s]
  BY DEF Library
<1> DEFINE run == [was EXCEPT !.at = "link", !.todo = @ \ {s}]
           new == IF s \in Base THEN [path |-> s, extras |-> Kept(r, g)]
                  ELSE [path |-> was.rows[g].path, extras |-> Kept(r, g) \cup {s}]
<1>3. was.at = "publish" /\ Next1(r, s) /\ UNCHANGED <<seeds, linked, manifest, reported, stale>>
  BY <1>1 DEF Publish
<1>4. /\ run \in Run /\ run.at = "link" /\ run.todo = was.todo \ {s} /\ run.rows = was.rows
      /\ run.lacked = was.lacked /\ run.alone = was.alone /\ run.done = was.done /\ run.unchanged = was.unchanged
      /\ run.fresh = was.fresh /\ run.clean = was.clean
  BY DEF Run
<1>5. CASE s \notin seeds \/ (s \in Extra /\ was.rows[g] = NoRow)
  <2> DEFINE now == [run EXCEPT !.clean = FALSE]
  <2>1. now \in Run /\ ~now.clean /\ now.at = "link" /\ now.rows = was.rows /\ now.lacked = was.lacked
        /\ now.alone = was.alone
    BY <1>4 DEF Run
  <2>2. runs' = [runs EXCEPT ![r] = now] /\ rows' = rows
    BY <1>1, <1>2, <1>5 DEF Publish, Goes
  <2> HIDE DEF now
  <2> QED BY <1>1, <1>3, <2>1, <2>2, FailedStep
<1>6. CASE s \in seeds /\ ~(s \in Extra /\ was.rows[g] = NoRow)
  <2>1. Publishes(r, g, new, run)
    BY <1>1, <1>2, <1>6 DEF Publish
  <2>2. /\ Kept(r, g) \subseteq Extra \cap seeds /\ \A x \in Kept(r, g) : Of[x] = g
        /\ Kept(r, g) = was.rows[g].extras \cap seeds /\ was.rows[g] \in Row
    BY <1>1, TypedRun DEF IInv, Kept, Attached, Run, Row
  <2>3. new \in Row /\ \A x \in new.extras : Of[x] = g
    BY <1>2, <2>2 DEF Row, Payload
  <2>4. new.extras \subseteq seeds
    BY <1>6, <2>2
  <2>5. /\ s \in Base => new.path = s
        /\ s \notin Base => new.path = was.rows[g].path /\ s \in new.extras
        /\ was.rows[g].extras \cap seeds \subseteq new.extras
    BY <2>2
  <2> HIDE DEF run, new
  <2>6. /\ TypeOK' /\ LinksStand
        /\ \A q \in Runner \ {r} : Beside(q) /\ runs'[q].alone = runs[q].alone
        /\ \E now \in Run :
              /\ now = runs'[r] /\ now.at = run.at /\ now.todo = run.todo /\ now.lacked = was.lacked
              /\ now.alone = was.alone
              /\ was.unchanged \subseteq now.unchanged /\ was.fresh \subseteq now.fresh
              /\ now.clean =>
                   /\ was.clean /\ now.done = was.done \cup {g} /\ g \in now.unchanged \cup now.fresh
                   /\ was.rows = rows => rows' = [rows EXCEPT ![g] = new] /\ now.rows = rows'
    BY <1>1, <1>3, <1>4, <2>1, <2>3, Published
  <2>7. PICK now \in Run :
          /\ now = runs'[r] /\ now.at = "link" /\ now.todo = was.todo \ {s} /\ now.lacked = was.lacked
          /\ now.alone = was.alone
          /\ was.unchanged \subseteq now.unchanged /\ was.fresh \subseteq now.fresh
          /\ now.clean =>
               /\ was.clean /\ now.done = was.done \cup {g} /\ g \in now.unchanged \cup now.fresh
               /\ was.rows = rows => rows' = [rows EXCEPT ![g] = new] /\ now.rows = rows'
    BY <1>4, <2>6
  <2>8. InHand(r)'
    BY <2>7 DEF InHand
  <2>9. Confirms(r)'
    <3> SUFFICES ASSUME NEW h \in Game \ was.lacked
                 PROVE  Confirmed(r, h)'
      BY <2>7 DEF Confirms
    <3>1. Confirmed(r, h)
      BY <1>1, <1>3 DEF IInv, Confirms
    <3>2. HasBytes(h)'
      BY <1>3, <2>6, <3>1, BytesStay DEF Confirmed
    <3>3. ASSUME r \in Full, now.clean
          PROVE  h \in now.unchanged \cup now.fresh \/ \E x \in now.todo \cap Base : Of[x] = h /\ linked'[h] = {x}
      <4>1. was.clean /\ g \in now.unchanged \cup now.fresh
        BY <2>7, <3>3
      <4>2. h \in was.unchanged \cup was.fresh \/ \E x \in was.todo \cap Base : Of[x] = h /\ linked[h] = {x}
        BY <1>1, <1>3, <3>1, <3>3, <4>1 DEF Confirmed
      <4> QED BY <1>2, <1>3, <2>7, <4>1, <4>2
    <3> QED BY <2>7, <3>2, <3>3 DEF Confirmed
  <2>10. Settles(r)'
    <3> SUFFICES ASSUME r \in Full, was.alone, now.clean
                 PROVE  Through(r)'
      BY <2>7 DEF Settles
    <3>1. was.clean /\ now.done = was.done \cup {g}
      BY <2>7
    <3>2. Through(r) /\ was.rows = rows
      BY <1>1, <1>3, <3>1 DEF IInv, Settles, IsAlone
    <3>3. rows' = [rows EXCEPT ![g] = new] /\ rows \in [Game -> Row]
      BY <2>7, <3>2 DEF IInv, TypeOK
    <3>4. rows'[g] = new /\ \A h \in Game \ {g} : rows'[h] = rows[h]
      BY <3>3
    <3>5. s \in was.todo /\ was.todo \subseteq seeds
      BY <1>1, <1>3, <3>2 DEF Next1, Through
    <3>6. CASE s \in Base
      <4>1. linked[g] = {s} /\ s \notin Extra
        BY <1>1, <1>2, <1>3, <3>6 DEF IInv, InHand, Library
      <4>2. ASSUME NEW b \in (seeds \cap Base) \ now.todo
            PROVE  /\ linked[Of[b]] = {b} /\ Of[b] \in now.done
                   /\ rows'[Of[b]].path = b /\ rows'[Of[b]].extras \subseteq seeds
        <5>1. CASE b = s
          BY <1>2, <2>4, <2>5, <3>1, <3>4, <3>6, <4>1, <5>1
        <5>2. CASE b # s
          <6>1. /\ linked[Of[b]] = {b} /\ Of[b] \in was.done
                /\ rows[Of[b]].path = b /\ rows[Of[b]].extras \subseteq seeds
            BY <1>1, <2>7, <3>2, <5>2 DEF Through
          <6>2. Of[b] \in Game \ {g}
            BY <4>1, <5>2, <6>1 DEF Library, Payload
          <6> QED BY <3>1, <3>4, <6>1, <6>2
        <5> QED BY <5>1, <5>2
      <4>3. \A x \in (seeds \cap Extra) \ now.todo : FALSE
        BY <1>1, <2>7, <3>2, <3>5, <3>6, <4>1 DEF Through
      <4> QED BY <1>3, <2>7, <3>5, <4>2, <4>3 DEF Through
    <3>7. CASE s \notin Base
      <4>1. was.todo \cap Base = {} /\ s \in Extra
        BY <1>1, <1>3, <3>7 DEF Next1, Payload
      <4>2. ASSUME NEW b \in (seeds \cap Base) \ now.todo
            PROVE  /\ linked[Of[b]] = {b} /\ Of[b] \in now.done
                   /\ rows'[Of[b]].path = b /\ rows'[Of[b]].extras \subseteq seeds
        <5>1. /\ linked[Of[b]] = {b} /\ Of[b] \in was.done
              /\ rows[Of[b]].path = b /\ rows[Of[b]].extras \subseteq seeds
          BY <1>1, <3>2, <4>1 DEF Through
        <5>2. Of[b] \in Game
          BY DEF Library, Payload
        <5>3. rows'[Of[b]].path = b /\ rows'[Of[b]].extras \subseteq seeds
          BY <2>4, <2>5, <3>2, <3>4, <3>7, <5>1, <5>2
        <5> QED BY <3>1, <5>1, <5>3
      <4>3. ASSUME NEW x \in (seeds \cap Extra) \ now.todo
            PROVE  x \in rows'[Of[x]].extras
        <5>1. CASE x = s
          BY <1>2, <2>5, <3>4, <3>7, <5>1
        <5>2. CASE x # s
          <6>1. x \in rows[Of[x]].extras /\ x \in seeds /\ Of[x] \in Game
            BY <1>1, <2>7, <3>2, <5>2 DEF Through, Library, Payload
          <6> QED BY <2>5, <3>2, <3>4, <6>1
        <5> QED BY <5>1, <5>2
      <4> QED BY <1>3, <2>7, <3>5, <4>1, <4>2, <4>3 DEF Through
    <3> QED BY <3>6, <3>7
  <2>11. SweepIsTrue' /\ RunSettles'
    BY <1>3 DEF IInv, SweepIsTrue, RunSettles
  <2>12. runs'[r].at # "tree" /\ runs'[r].at # "sweep" /\ runs[r].at # "idle"
    BY <1>1, <1>3, <2>7
  <2>13. runs'[r].alone =>
           runs[r].alone /\ (runs'[r].clean => runs[r].clean /\ (runs[r].rows = rows => runs'[r].rows = rows'))
    BY <1>1, <2>7
  <2>14. seeds' = seeds
    BY <1>3
  <2> QED BY <2>6, <2>8, <2>9, <2>10, <2>11, <2>12, <2>13, <2>14, StepOfOne
<1> QED BY <1>5, <1>6

LEMMA TorrentsStep ==
  ASSUME Library, IInv, NEW r \in Runner, Torrents(r)
  PROVE  IInv'
<1>1. PICK was \in Run : was = runs[r]
  BY TypedRun DEF IInv
<1>2. was.at = "link" /\ was.todo = {} /\ UNCHANGED <<seeds, linked, manifest, rows, reported, stale>>
  BY <1>1 DEF Torrents
<1>3. SweepIsTrue' /\ RunSettles'
  BY <1>2 DEF IInv, SweepIsTrue, RunSettles
<1>4. CASE r \notin Full
  BY <1>1, <1>2, <1>3, <1>4, OverStep DEF Torrents, Goes
<1>5. CASE r \in Full
  <2> DEFINE new == [was EXCEPT !.at = "tree", !.entries = manifest]
  <2>1. manifest \subseteq Game /\ runs \in [Runner -> Run]
    BY DEF IInv, TypeOK
  <2>2. /\ new \in Run /\ new.at = "tree" /\ new.todo = was.todo /\ new.rows = was.rows
        /\ new.lacked = was.lacked /\ new.alone = was.alone /\ new.unchanged = was.unchanged
        /\ new.fresh = was.fresh /\ new.clean = was.clean /\ new.done = was.done
    BY <2>1 DEF Run
  <2>3. runs' = [runs EXCEPT ![r] = new]
    BY <1>1, <1>5 DEF Torrents, Goes
  <2> HIDE DEF new
  <2>4. runs'[r] = new /\ runs' \in [Runner -> Run] /\ \A q \in Runner \ {r} : runs'[q] = runs[q]
    BY <2>1, <2>2, <2>3
  <2>5. TypeOK'
    BY <1>1, <1>2, <2>2, <2>4, TypedRun DEF IInv, TypeOK, Attached
  <2>6. LinksStand /\ \A q \in Runner \ {r} : Beside(q) /\ runs'[q].alone = runs[q].alone
    BY <1>2, <2>4 DEF LinksStand, Beside
  <2>7. InHand(r)'
    BY <2>2, <2>4 DEF InHand
  <2>8. Confirms(r)'
    <3> SUFFICES ASSUME NEW h \in Game \ was.lacked
                 PROVE  Confirmed(r, h)'
      BY <2>2, <2>4 DEF Confirms
    <3>1. Confirmed(r, h)
      BY <1>1, <1>2 DEF IInv, Confirms
    <3>2. HasBytes(h)'
      BY <1>2, <2>6, <3>1, BytesStay DEF Confirmed
    <3> QED BY <1>1, <1>2, <1>5, <2>2, <2>4, <3>1, <3>2 DEF Confirmed
  <2>9. Settles(r)'
    <3> SUFFICES ASSUME was.alone, was.clean
                 PROVE  Through(r)'
      BY <2>2, <2>4 DEF Settles
    <3>1. Through(r)
      BY <1>1, <1>2, <1>5 DEF IInv, Settles
    <3> QED BY <1>1, <1>2, <2>2, <2>4, <3>1 DEF Through
  <2> QED BY <1>1, <1>2, <1>3, <1>5, <2>2, <2>4, <2>5, <2>6, <2>7, <2>8, <2>9, StepOfOne
<1> QED BY <1>4, <1>5

\* A run goes on over the tree: nothing is published.
LEMMA SkipStep ==
  ASSUME Library, IInv, NEW r \in Runner, NEW was \in Run, was = runs[r], was.at = "tree",
         NEW new \in Run, runs' = [runs EXCEPT ![r] = new],
         new.at = "tree", new.todo = was.todo, new.rows = was.rows, new.lacked = was.lacked, new.alone = was.alone,
         new.unchanged = was.unchanged, new.fresh = was.fresh, new.clean = was.clean, new.done = was.done,
         UNCHANGED <<seeds, linked, manifest, rows, reported, stale>>
  PROVE  IInv'
<1>1. runs'[r] = new /\ runs' \in [Runner -> Run] /\ \A q \in Runner \ {r} : runs'[q] = runs[q]
  BY DEF IInv, TypeOK
<1>2. TypeOK'
  BY <1>1, TypedRun DEF IInv, TypeOK, Attached
<1>3. LinksStand /\ \A q \in Runner \ {r} : Beside(q) /\ runs'[q].alone = runs[q].alone
  BY <1>1 DEF LinksStand, Beside
<1>4. InHand(r)' /\ r \in Full
  BY <1>1 DEF InHand, IInv, SweepsAreFull
<1>5. Confirms(r)'
  <2> SUFFICES ASSUME NEW h \in Game \ was.lacked
               PROVE  Confirmed(r, h)'
    BY <1>1 DEF Confirms
  <2>1. Confirmed(r, h)
    BY DEF IInv, Confirms
  <2>2. HasBytes(h)'
    BY <1>3, <2>1, BytesStay DEF Confirmed
  <2> QED BY <1>1, <2>1, <2>2 DEF Confirmed
<1>6. Settles(r)'
  BY <1>1, <1>4 DEF IInv, Settles, Through
<1>7. SweepIsTrue' /\ RunSettles'
  BY DEF IInv, SweepIsTrue, RunSettles
<1> QED BY <1>1, <1>2, <1>3, <1>4, <1>5, <1>6, <1>7, StepOfOne

LEMMA TreeStep ==
  ASSUME Library, IInv, NEW r \in Runner, NEW g \in Game, Tree(r, g)
  PROVE  IInv'
<1>1. PICK was \in Run : was = runs[r]
  BY TypedRun DEF IInv
<1> DEFINE run == [was EXCEPT !.entries = @ \ {g}]
           new == [path |-> Local, extras |-> Kept(r, g)]
<1>2. was.at = "tree" /\ r \in Full /\ UNCHANGED <<seeds, linked, manifest, reported, stale>>
  BY <1>1 DEF Tree, IInv, SweepsAreFull
<1>3. /\ run \in Run /\ run.at = "tree" /\ run.todo = was.todo /\ run.rows = was.rows
      /\ run.lacked = was.lacked /\ run.alone = was.alone /\ run.done = was.done /\ run.unchanged = was.unchanged
      /\ run.fresh = was.fresh /\ run.clean = was.clean
  BY <1>2 DEF Run
<1>4. CASE g \in was.done
  <2>1. runs' = [runs EXCEPT ![r] = run] /\ rows' = rows
    BY <1>1, <1>4 DEF Tree, Goes
  <2> HIDE DEF run
  <2> QED BY <1>1, <1>2, <1>3, <2>1, SkipStep
<1>5. CASE g \notin was.done
  <2>1. Publishes(r, g, new, run)
    BY <1>1, <1>5 DEF Tree
  <2>2. /\ Kept(r, g) \subseteq Extra \cap seeds /\ \A x \in Kept(r, g) : Of[x] = g
        /\ Kept(r, g) = was.rows[g].extras \cap seeds
    BY <1>1, TypedRun DEF IInv, Kept, Attached, Run, Row
  <2>3. /\ new \in Row /\ \A x \in new.extras : Of[x] = g
        /\ was.rows[g].extras \cap seeds \subseteq new.extras
    BY <2>2 DEF Row
  <2> HIDE DEF run, new
  <2>4. /\ TypeOK' /\ LinksStand
        /\ \A q \in Runner \ {r} : Beside(q) /\ runs'[q].alone = runs[q].alone
        /\ \E now \in Run :
              /\ now = runs'[r] /\ now.at = run.at /\ now.todo = run.todo /\ now.lacked = was.lacked
              /\ now.alone = was.alone
              /\ was.unchanged \subseteq now.unchanged /\ was.fresh \subseteq now.fresh
              /\ now.clean =>
                   /\ was.clean /\ now.done = was.done \cup {g} /\ g \in now.unchanged \cup now.fresh
                   /\ was.rows = rows => rows' = [rows EXCEPT ![g] = new] /\ now.rows = rows'
    BY <1>1, <1>2, <1>3, <2>1, <2>3, Published
  <2>5. PICK now \in Run :
          /\ now = runs'[r] /\ now.at = "tree" /\ now.todo = was.todo /\ now.lacked = was.lacked
          /\ now.alone = was.alone
          /\ was.unchanged \subseteq now.unchanged /\ was.fresh \subseteq now.fresh
          /\ now.clean =>
               /\ was.clean /\ now.done = was.done \cup {g} /\ g \in now.unchanged \cup now.fresh
               /\ was.rows = rows => rows' = [rows EXCEPT ![g] = new] /\ now.rows = rows'
    BY <1>3, <2>4
  <2>6. InHand(r)'
    BY <2>5 DEF InHand
  <2>7. Confirms(r)'
    <3> SUFFICES ASSUME NEW h \in Game \ was.lacked
                 PROVE  Confirmed(r, h)'
      BY <2>5 DEF Confirms
    <3>1. Confirmed(r, h)
      BY <1>1, <1>2 DEF IInv, Confirms
    <3>2. HasBytes(h)'
      BY <1>2, <2>4, <3>1, BytesStay DEF Confirmed
    <3>3. now.clean => h \in now.unchanged \cup now.fresh
      BY <1>1, <1>2, <2>5, <3>1 DEF Confirmed
    <3> QED BY <2>5, <3>2, <3>3 DEF Confirmed
  <2>8. Settles(r)'
    <3> SUFFICES ASSUME was.alone, now.clean
                 PROVE  Through(r)'
      BY <2>5 DEF Settles
    <3>1. was.clean /\ now.done = was.done \cup {g}
      BY <2>5
    <3>2. Through(r) /\ was.rows = rows
      BY <1>1, <1>2, <3>1 DEF IInv, Settles, IsAlone
    <3>3. rows' = [rows EXCEPT ![g] = new] /\ rows \in [Game -> Row]
      BY <2>5, <3>2 DEF IInv, TypeOK
    <3>4. rows'[g] = new /\ \A h \in Game \ {g} : rows'[h] = rows[h]
      BY <3>3
    <3>5. was.todo = {}
      BY <1>1, <1>2, <3>2 DEF Through
    <3>6. ASSUME NEW b \in seeds \cap Base
          PROVE  /\ linked[Of[b]] = {b} /\ Of[b] \in now.done
                 /\ rows'[Of[b]].path = b /\ rows'[Of[b]].extras \subseteq seeds
      <4>1. /\ linked[Of[b]] = {b} /\ Of[b] \in was.done
            /\ rows[Of[b]].path = b /\ rows[Of[b]].extras \subseteq seeds
        BY <1>1, <3>2, <3>5 DEF Through
      <4>2. Of[b] \in Game \ {g}
        BY <1>5, <4>1 DEF Library, Payload
      <4> QED BY <3>1, <3>4, <4>1, <4>2
    <3>7. ASSUME NEW x \in seeds \cap Extra
          PROVE  x \in rows'[Of[x]].extras
      <4>1. x \in rows[Of[x]].extras /\ x \in seeds /\ Of[x] \in Game
        BY <1>1, <3>2, <3>5 DEF Through, Library, Payload
      <4> QED BY <2>3, <3>2, <3>4, <4>1
    <3> QED BY <1>2, <2>5, <3>5, <3>6, <3>7 DEF Through
  <2>9. SweepIsTrue' /\ RunSettles'
    BY <1>2 DEF IInv, SweepIsTrue, RunSettles
  <2>10. /\ runs[r].at # "idle"
         /\ runs'[r].alone =>
              runs[r].alone /\ (runs'[r].clean => runs[r].clean /\ (runs[r].rows = rows => runs'[r].rows = rows'))
    BY <1>1, <1>2, <2>5
  <2> QED BY <1>2, <2>4, <2>6, <2>7, <2>8, <2>9, <2>10, StepOfOne
<1> QED BY <1>4, <1>5

LEMMA TouchStep ==
  ASSUME Library, IInv, NEW r \in Runner, Touch(r)
  PROVE  IInv'
<1>1. PICK was \in Run : was = runs[r]
  BY TypedRun DEF IInv
<1>2. was.at = "tree" /\ r \in Full /\ UNCHANGED <<seeds, linked, manifest, rows, reported, stale>>
  BY <1>1 DEF Touch, IInv, SweepsAreFull
<1>3. CASE runs' = [runs EXCEPT ![r] = [was EXCEPT !.at = "sweep", !.clean = FALSE]]
  <2> DEFINE new == [was EXCEPT !.at = "sweep", !.clean = FALSE]
  <2>1. /\ new \in Run /\ ~new.clean /\ new.at = "sweep" /\ new.rows = was.rows /\ new.lacked = was.lacked
        /\ new.alone = was.alone
    BY DEF Run
  <2>2. runs' = [runs EXCEPT ![r] = new]
    BY <1>3
  <2> HIDE DEF new
  <2> QED BY <1>1, <1>2, <2>1, <2>2, FailedStep
<1>4. CASE \E last \in {[was EXCEPT !.at = "sweep"], [was EXCEPT !.at = "sweep", !.clean = FALSE]} : Touches(r, last)
  <2>1. PICK last : /\ last \in {[was EXCEPT !.at = "sweep"], [was EXCEPT !.at = "sweep", !.clean = FALSE]}
                    /\ Touches(r, last)
    BY <1>4
  <2> DEFINE new == [last EXCEPT !.fresh = @ \cup was.unchanged]
  <2>2. /\ new \in Run /\ new.at = "sweep" /\ new.todo = was.todo /\ new.rows = was.rows
        /\ new.lacked = was.lacked /\ new.alone = was.alone /\ new.done = was.done
        /\ new.fresh = was.fresh \cup was.unchanged
        /\ new.clean => was.clean
    <3>1. CASE last = [was EXCEPT !.at = "sweep"]
      BY <3>1 DEF Run
    <3>2. CASE last = [was EXCEPT !.at = "sweep", !.clean = FALSE]
      BY <3>2 DEF Run
    <3> QED BY <2>1, <3>1, <3>2
  <2>3. runs' = [q \in Runner |-> IF q = r THEN new ELSE [runs[q] EXCEPT !.fresh = @ \cup was.unchanged]]
    BY <1>1, <2>1 DEF Touches
  <2> HIDE DEF new
  <2>4. /\ was.unchanged \in SUBSET Game /\ Attached(new.rows)
        /\ rows' \in [Game -> Row] /\ Attached(rows)'
    BY <1>1, <1>2, <2>2, TypedRun DEF Run, IInv, TypeOK, Attached
  <2>5. /\ TypeOK' /\ runs'[r] = new
        /\ \A q \in Runner \ {r} : Beside(q) /\ runs'[q].alone = runs[q].alone /\ runs'[q].at = runs[q].at
    BY <1>2, <2>2, <2>3, <2>4, SeenByAll
  <2>6. LinksStand
    BY <1>2 DEF LinksStand
  <2>7. InHand(r)'
    BY <2>2, <2>5 DEF InHand
  <2>8. Confirms(r)'
    <3> SUFFICES ASSUME NEW h \in Game \ was.lacked
                 PROVE  Confirmed(r, h)'
      BY <2>2, <2>5 DEF Confirms
    <3>1. Confirmed(r, h)
      BY <1>1, <1>2 DEF IInv, Confirms
    <3>2. HasBytes(h)'
      BY <1>2, <2>6, <3>1, BytesStay DEF Confirmed
    <3>3. new.clean => h \in new.fresh
      BY <1>1, <1>2, <2>2, <3>1 DEF Confirmed
    <3> QED BY <2>2, <2>5, <3>2, <3>3 DEF Confirmed
  <2>9. Settles(r)'
    <3> SUFFICES ASSUME was.alone, was.clean
                 PROVE  Through(r)'
      BY <2>2, <2>5 DEF Settles
    <3>1. Through(r)
      BY <1>1, <1>2 DEF IInv, Settles
    <3> QED BY <1>1, <1>2, <2>2, <2>5, <3>1 DEF Through
  <2>10. SweepIsTrue' /\ RunSettles'
    BY <1>2 DEF IInv, SweepIsTrue, RunSettles
  <2> QED BY <1>1, <1>2, <2>2, <2>5, <2>6, <2>7, <2>8, <2>9, <2>10, StepOfOne
<1> QED BY <1>1, <1>3, <1>4 DEF Touch, Goes

LEMMA SweepStep ==
  ASSUME Library, IInv, NEW r \in Runner, Sweep(r)
  PROVE  IInv'
<1>1. PICK was \in Run : was = runs[r]
  BY TypedRun DEF IInv
<1>2. /\ was.at = "sweep" /\ r \in Full /\ UNCHANGED <<seeds, linked, manifest, rows>>
      /\ runs' = [runs EXCEPT ![r] = Idle]
  BY <1>1 DEF Sweep, Goes, IInv, SweepsAreFull
<1>3. reported = {} /\ stale = {} /\ rows \in [Game -> Row] /\ Attached(rows)
  BY DEF IInv, SweepIsTrue, RunSettles, TypeOK
<1>4. was.clean => (Listed \ was.fresh) \ was.lacked = {}
  <2> SUFFICES ASSUME was.clean, NEW g \in Game, g \notin was.fresh, g \notin was.lacked
               PROVE  FALSE
    BY DEF Listed
  <2>1. Confirmed(r, g)
    BY <1>1, <1>2 DEF IInv, Confirms
  <2> QED BY <1>1, <1>2, <2>1 DEF Confirmed
<1>5. reported' = {}
  BY <1>1, <1>3, <1>4 DEF Sweep
<1>6. was.alone /\ was.clean => {g \in Game : HasBytes(g) /\ Wrong(g)} = {}
  <2> SUFFICES ASSUME was.alone, was.clean, NEW g \in Game, HasBytes(g)
               PROVE  ~Wrong(g)
    OBVIOUS
  <2>1. Through(r) /\ was.todo = {}
    BY <1>1, <1>2 DEF IInv, Settles, Through
  <2>2. PICK b \in seeds \cap Base : Of[b] = g
    BY DEF HasBytes
  <2>3. rows[g].path = b /\ rows[g].extras \subseteq seeds
    BY <1>1, <2>1, <2>2 DEF Through
  <2>4. b # "" /\ b # Local
    BY DEF Library, Payload
  <2>5. rows[g] # NoRow /\ Bytes(g, rows[g].path)
    <3>1. NoRow.path = ""
      BY DEF NoRow
    <3>2. b \in seeds
      BY <2>2
    <3> QED BY <2>3, <2>4, <3>1, <3>2 DEF Bytes
  <2>6. rows[g].extras = {x \in seeds \cap Extra : Of[x] = g}
    <3>1. \A x \in rows[g].extras : x \in Extra /\ Of[x] = g
      BY <1>3 DEF Row, Attached
    <3>2. \A x \in seeds \cap Extra : x \in rows[Of[x]].extras
      BY <1>1, <2>1 DEF Through
    <3> QED BY <2>3, <3>1, <3>2
  <2> QED BY <2>5, <2>6 DEF Wrong
<1>7. stale' = {}
  BY <1>1, <1>3, <1>6 DEF Sweep
<1>8. SweepIsTrue' /\ RunSettles'
  BY <1>5, <1>7 DEF SweepIsTrue, RunSettles
<1> QED BY <1>1, <1>2, <1>8, OverStep

LEMMA KillStep ==
  ASSUME Library, IInv, NEW r \in Runner, Kill(r)
  PROVE  IInv'
<1>1. /\ runs[r].at # "idle" /\ UNCHANGED <<seeds, linked, manifest, rows, reported, stale>>
      /\ runs' = [runs EXCEPT ![r] = Idle]
  BY DEF Kill, Goes
<1>2. SweepIsTrue' /\ RunSettles'
  BY <1>1 DEF IInv, SweepIsTrue, RunSettles
<1> QED BY <1>1, <1>2, OverStep

LEMMA TurnStep ==
  ASSUME Library, IInv, NEW s \in Payload, Turn(s)
  PROVE  IInv'
<1>1. /\ seeds' = IF s \in seeds THEN seeds \ {s} ELSE seeds \cup {s}
      /\ runs' = [r \in Runner |-> [runs[r] EXCEPT !.alone = FALSE, !.lacked = @ \cup {Of[s]}]]
      /\ UNCHANGED <<linked, manifest, rows, reported, stale>>
  BY DEF Turn
<1>2. runs \in [Runner -> Run] /\ Of[s] \in Game /\ seeds \subseteq Payload
  BY DEF IInv, TypeOK, Library
<1>3. ASSUME NEW r \in Runner
      PROVE  /\ runs'[r] \in Run /\ ~runs'[r].alone /\ runs'[r].rows = runs[r].rows /\ runs'[r].at = runs[r].at
             /\ runs'[r].todo = runs[r].todo /\ runs'[r].unchanged = runs[r].unchanged
             /\ runs'[r].fresh = runs[r].fresh /\ runs'[r].clean = runs[r].clean
             /\ runs'[r].lacked = runs[r].lacked \cup {Of[s]}
  <2>1. PICK was \in Run : was = runs[r]
    BY <1>2
  <2>2. runs'[r] = [was EXCEPT !.alone = FALSE, !.lacked = @ \cup {Of[s]}]
    BY <1>1, <2>1
  <2>3. was.lacked \cup {Of[s]} \in SUBSET Game
    BY <1>2 DEF Run
  <2>4. /\ runs'[r] \in Run /\ ~runs'[r].alone /\ runs'[r].rows = was.rows /\ runs'[r].at = was.at
        /\ runs'[r].todo = was.todo /\ runs'[r].unchanged = was.unchanged
        /\ runs'[r].fresh = was.fresh /\ runs'[r].clean = was.clean
        /\ runs'[r].lacked = was.lacked \cup {Of[s]}
    BY <2>2, <2>3 DEF Run
  <2> QED BY <2>1, <2>4
<1>4. TypeOK'
  <2>1. runs' \in [Runner -> Run]
    BY <1>1, <1>3
  <2>2. \A r \in Runner : Attached(runs[r].rows)'
    BY <1>3, TypedRun DEF IInv, Attached
  <2>3. seeds' \subseteq Payload
    BY <1>1, <1>2
  <2> QED BY <1>1, <2>1, <2>2, <2>3 DEF IInv, TypeOK, Attached
<1>5. ASSUME NEW r \in Runner
      PROVE  InHand(r)' /\ Confirms(r)' /\ IsAlone(r)' /\ Settles(r)'
  <2>1. InHand(r)'
    BY <1>1, <1>3 DEF IInv, InHand, Next1
  <2>2. Confirms(r)'
    <3> SUFFICES ASSUME runs[r].at # "idle", NEW h \in Game \ runs[r].lacked, h # Of[s]
                 PROVE  Confirmed(r, h)'
      BY <1>3 DEF Confirms
    <3>1. Confirmed(r, h)
      BY DEF IInv, Confirms
    <3>2. HasBytes(h)'
      BY <1>1, <3>1 DEF Confirmed, HasBytes
    <3> QED BY <1>1, <1>3, <3>1, <3>2 DEF Confirmed
  <2>3. IsAlone(r)' /\ Settles(r)'
    BY <1>3 DEF IsAlone, Settles
  <2> QED BY <2>1, <2>2, <2>3
<1>6. SweepsAreFull'
  BY <1>3 DEF IInv, SweepsAreFull
<1> QED BY <1>1, <1>4, <1>5, <1>6 DEF IInv, SweepIsTrue, RunSettles

LEMMA NextStep ==
  ASSUME Library, IInv, [Next]_vars
  PROVE  IInv'
<1>1. ASSUME NEW r \in Runner, Begin(r) \/ Plan(r) \/ Torrents(r) \/ Touch(r) \/ Sweep(r) \/ Kill(r)
      PROVE  IInv'
  BY <1>1, BeginStep, PlanStep, TorrentsStep, TouchStep, SweepStep, KillStep
<1>2. ASSUME NEW r \in Runner, NEW s \in Payload, Link(r, s) \/ Publish(r, s)
      PROVE  IInv'
  BY <1>2, LinkStep, PublishStep
<1>3. ASSUME NEW r \in Runner, NEW g \in Game, Tree(r, g)
      PROVE  IInv'
  BY <1>3, TreeStep
<1>4. ASSUME NEW s \in Payload, Turn(s)
      PROVE  IInv'
  BY <1>4, TurnStep
<1>5. CASE UNCHANGED vars
  <2>1. UNCHANGED <<seeds, linked, manifest, rows, runs, reported, stale>>
    BY <1>5 DEF vars
  <2>2. TypeOK' /\ SweepsAreFull'
    BY <2>1 DEF IInv, TypeOK, Attached, SweepsAreFull
  <2>3. \A r \in Runner : InHand(r)'
    BY <2>1 DEF IInv, InHand, Next1
  <2>4. \A r \in Runner : Confirms(r)'
    BY <2>1 DEF IInv, Confirms, Confirmed, HasBytes
  <2>5. \A r \in Runner : IsAlone(r)' /\ Settles(r)'
    BY <2>1 DEF IInv, IsAlone, Settles, Through
  <2> QED BY <2>1, <2>2, <2>3, <2>4, <2>5 DEF IInv, SweepIsTrue, RunSettles
<1> QED BY <1>1, <1>2, <1>3, <1>4, <1>5 DEF Next

-----------------------------------------------------------------------------
(* The results. *)

\* However many runs there are, wherever they are killed and whatever is refused or lost:
\* no sweep reports a game whose bytes seeded all along, and a run that nothing disturbed
\* leaves each game that seeds with its row and its updates (run.py, publish.py).
THEOREM RunsStand ==
  ASSUME Library
  PROVE  Spec => [](SweepIsTrue /\ RunSettles)
<1>1. Init => IInv
  BY InitIInv
<1>2. IInv /\ [Next]_vars => IInv'
  BY NextStep
<1>3. IInv => SweepIsTrue /\ RunSettles
  BY DEF IInv
<1> QED BY <1>1, <1>2, <1>3, PTL DEF Spec

=============================================================================
