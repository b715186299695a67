------------------------------- MODULE Warmer -------------------------------
(***************************************************************************)
(* The runs that fill the service's art cache (client/steam/warm.py, with  *)
(* artwork.py's two sources): a run reads the catalog and what the service *)
(* knows, once; then, slowly, asks both sources for one game at a time and *)
(* writes a picture, or the record that nobody has one, which every client *)
(* takes for good.  Upstreams fail at any call; a run is stopped anywhere, *)
(* and runs from several machines overlap.  The service's side of a write  *)
(* is module ArtCache.                                                     *)
(***************************************************************************)
EXTENDS Naturals, FiniteSets

CONSTANTS Game,
          Run,         \* the runs there may be, each once
          Refresh,     \* those with --refresh
          GIVE_UP_AFTER

\* What SteamGridDB's search, and libretro's list of names, came to: what note() has.
Note == [sgdb : {"match", "no match", "http 503", "http 429", "refused"},
         libretro : {"match", "no match", "unlisted", "unreachable"}]

VARIABLES upstream,  \* per game, the sources that have a picture of it
          art,       \* the service's answer per game: "unknown", "picture", "miss"
          runs,      \* per run: its memory
          why,       \* history: per game, whether the writer of its miss had heard both sources
          lost       \* history: pictures a run took away that it was not to look at

vars == <<upstream, art, runs, why, lost>>

Fresh == [at |-> "new", todo |-> {}, asked |-> {}, game |-> {}, body |-> "none", consecutive |-> 0,
          heard |-> "nothing", left |-> {}, stood |-> {}]
Stopped == [Fresh EXCEPT !.at = "stopped"]

Init == /\ upstream \in [Game -> SUBSET {"sgdb", "libretro"}]
        /\ art = [g \in Game |-> "unknown"]
        /\ runs = [r \in Run |-> Fresh]
        /\ why = [g \in Game |-> "nothing"] /\ lost = {}

Goes(r, run) == runs' = [runs EXCEPT ![r] = run]

\* known: one request, at the start.
Known == {g \in Game : art[g] # "unknown"}

\* catalog, known; --platform and --limit leave any part of what is to do.
Begin(r) ==
  /\ runs[r].at = "new"
  /\ \E todo \in SUBSET (IF r \in Refresh THEN Game ELSE Game \ Known) :
       Goes(r, [Fresh EXCEPT !.at = "ask", !.todo = todo, !.asked = todo,
                             !.stood = {g \in Game : art[g] = "picture"}])
  /\ UNCHANGED <<upstream, art, why, lost>>

\* Whether "no picture" was an answer.  A 503 is a service without a key, which
\* is let through; any status that is not listed is, too.
clean_no(notes) == notes.sgdb # "http 429" /\ notes.libretro # "unreachable"

\* What a source may say: a search that was answered found what is there.  A
\* picture that then could not be had is passed over, and no note says so.
Notes(g) == {n \in Note :
               /\ n.sgdb = "no match" => "sgdb" \notin upstream[g]
               /\ n.libretro \in {"no match", "unlisted"} => "libretro" \notin upstream[g]}
Had(g, n) == SUBSET {s \in upstream[g] : n[s] = "match"}
Heard(n) == IF n.sgdb \in {"http 429", "refused"} \/ n.libretro = "unreachable" THEN "nothing"
            ELSE IF n.sgdb = "http 503" THEN "libretro" ELSE "both"

\* The next failure in a row, which may be the one to stop at.
Fails(r, g) ==
  LET run == [runs[r] EXCEPT !.todo = @ \ {g}, !.left = @ \cup {g}, !.game = {}, !.heard = "nothing", !.consecutive = @ + 1] IN
  Goes(r, IF run.consecutive >= GIVE_UP_AFTER THEN Stopped ELSE [run EXCEPT !.at = "ask"])

\* resolve: the portrait, then the wide one, of each source in turn.
Resolve(r, g) ==
  /\ runs[r].at = "ask" /\ g \in runs[r].todo
  /\ \/ \E n \in Notes(g) : \E had \in Had(g, n) :
          CASE had # {} -> Goes(r, [runs[r] EXCEPT !.at = "store", !.game = {g}, !.body = "picture"])
            [] had = {} /\ n.sgdb = "refused" -> Goes(r, Stopped)
            [] had = {} /\ n.sgdb # "refused" /\ clean_no(n) ->
                 Goes(r, [runs[r] EXCEPT !.at = "store", !.game = {g}, !.body = "miss", !.heard = Heard(n)])
            [] OTHER -> Fails(r, g)
     \/ Fails(r, g)  \* an exception of a source
  /\ UNCHANGED <<upstream, art, why, lost>>

\* store: written, or refused, or told to slow down three times; a connection
\* that breaks ends the run, with the write served or not.
Store(r, g) ==
  LET run == runs[r]
      written == /\ art' = [art EXCEPT ![g] = run.body]
                 /\ why' = IF run.body = "miss" THEN [why EXCEPT ![g] = run.heard] ELSE why
                 /\ lost' = IF art[g] = "picture" /\ run.body = "miss" /\ g \in run.stood /\ r \notin Refresh
                            THEN lost \cup {g} ELSE lost IN
  /\ run.at = "store" /\ run.game = {g}
  /\ \/ written /\ Goes(r, [run EXCEPT !.at = "ask", !.todo = @ \ {g}, !.game = {}, !.heard = "nothing", !.consecutive = 0])
     \/ written /\ Goes(r, Stopped)
     \/ Fails(r, g) /\ UNCHANGED <<art, why, lost>>
     \/ Goes(r, Stopped) /\ UNCHANGED <<art, why, lost>>
  /\ UNCHANGED upstream

End(r) == /\ runs[r].at = "ask" /\ runs[r].todo = {}
          /\ Goes(r, [Fresh EXCEPT !.at = "done", !.asked = runs[r].asked, !.left = runs[r].left])
          /\ UNCHANGED <<upstream, art, why, lost>>

\* Interrupted: what was written stays.
Interrupt(r) == /\ runs[r].at \in {"ask", "store"}
                /\ Goes(r, Stopped)
                /\ UNCHANGED <<upstream, art, why, lost>>

Next == \E r \in Run : \/ Begin(r) \/ End(r) \/ Interrupt(r)
                       \/ \E g \in Game : Resolve(r, g) \/ Store(r, g)

Spec == Init /\ [][Next]_vars

-----------------------------------------------------------------------------
\* A run never takes a picture away that the service had as it began, unless it
\* was to look again; one that got to its end left no game without an answer but
\* those it put off; it never asks on after too many failures in a row; and a
\* search that was throttled, refused or unanswered never became a miss, whichever
\* run wrote it (warm.py known, warm, clean_no).
WarmIsResumed ==
  /\ lost = {}
  /\ \A r \in Run : /\ runs[r].at = "done" => \A g \in runs[r].asked \ runs[r].left : art[g] # "unknown"
                    /\ runs[r].at \in {"ask", "store"} => runs[r].consecutive < GIVE_UP_AFTER
  /\ \A g \in Game : art[g] = "miss" => why[g] # "nothing"

\* "It is only written when every source actually looked and actually found
\* nothing" (warm.py clean_no): a miss whose searches were all answered is of a
\* game nobody has a picture of.  The code breaks this: a picture's own request
\* that fails is passed over as one that is not there (artwork.py fetch).
MissIsAnAnswer ==
  \A g \in Game : art[g] = "miss" /\ why[g] = "both" => upstream[g] = {}
=============================================================================
