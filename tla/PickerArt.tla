------------------------------ MODULE PickerArt ------------------------------
(***************************************************************************)
(* The pictures on the picker's tiles (gotg_ui/art.py, fetch.py, decode.py *)
(* and surface_for in app.py): the frame loop asks for a picture on every  *)
(* frame and never waits for it; loader threads ask the service and write  *)
(* what it says beside the name and rename it; one decoder thread reads    *)
(* what is there; a launch may end between any two of their steps.         *)
(***************************************************************************)
EXTENDS Naturals, Sequences, SequencesExt

CONSTANTS Game,
          Worker,       \* the loader's threads
          MaxLaunches   \* bound on how often the picker is started

None == "none"
Stored == {None, "picture", "broken"}  \* broken: an image by its magic alone

VARIABLES pictures,     \* ArtStore: per game, [file, part, miss],
          \* miss a file from "before" this launch or from "now"
          queue,    \* Loader.queue
          seen,     \* Loader._seen
          worker,   \* per loader thread: [at, game, body]
          ready,    \* Loader.ready
          decode,   \* Decoder: [todo, asked, ready]
          art,      \* app.py's art: per game "unknown", a "picture" or the "title"
          launches,
          requests  \* history: per game, what the service was asked in this launch

vars == <<pictures, queue, seen, worker, ready, decode, art, launches, requests>>

Empty == [file |-> None, part |-> None, miss |-> None]
Resting == [at |-> "get", game |-> None, body |-> None]

\* What a launch starts with, whatever is on the disk.
Fresh == /\ queue = <<>> /\ seen = {} /\ ready = <<>>
         /\ worker = [w \in Worker |-> Resting]
         /\ decode = [todo |-> <<>>, asked |-> {}, ready |-> [g \in {} |-> None]]
         /\ art = [g \in Game |-> "unknown"]
         /\ requests = [g \in Game |-> 0]

Init == pictures = [g \in Game |-> Empty] /\ launches = 1 /\ Fresh

(* art.py *)

forgotten == Empty

\* put: forget first, the bytes beside the name, the rename last.
Forget(w) ==
  LET v == worker[w] IN
  /\ v.at = "put"
  /\ pictures' = [pictures EXCEPT ![v.game] = forgotten]
  /\ worker' = [worker EXCEPT ![w].at = "write"]
  /\ UNCHANGED <<queue, seen, ready, decode, art, launches, requests>>

\* A slip of Write: straight onto the name.
WriteInPlace(w) ==
  LET v == worker[w] IN
  /\ v.at \in {"write", "fill"}
  /\ pictures' = [pictures EXCEPT ![v.game].file = IF v.at = "write" THEN "half" ELSE v.body, ![v.game].part = v.body]
  /\ worker' = [worker EXCEPT ![w].at = IF v.at = "write" THEN "fill" ELSE "rename"]
  /\ UNCHANGED <<queue, seen, ready, decode, art, launches, requests>>

Write(w) ==
  LET v == worker[w] IN
  /\ v.at \in {"write", "fill"}
  /\ pictures' = [pictures EXCEPT ![v.game].part = IF v.at = "write" THEN "half" ELSE v.body]
  /\ worker' = [worker EXCEPT ![w].at = IF v.at = "write" THEN "fill" ELSE "rename"]
  /\ UNCHANGED <<queue, seen, ready, decode, art, launches, requests>>

Rename(w) ==
  LET v == worker[w] IN
  /\ v.at = "rename"
  /\ pictures' = [pictures EXCEPT ![v.game].file = pictures[v.game].part, ![v.game].part = None]
  /\ ready' = Append(ready, v.game)
  /\ worker' = [worker EXCEPT ![w] = Resting]
  /\ UNCHANGED <<queue, seen, decode, art, launches, requests>>

(* fetch.py *)

Take(w) ==
  /\ worker[w].at = "get" /\ queue # <<>>
  /\ queue' = Tail(queue)
  /\ worker' = [worker EXCEPT ![w] = [at |-> "ask", game |-> Head(queue), body |-> None]]
  /\ UNCHANGED <<pictures, seen, ready, decode, art, launches, requests>>

\* service_art: a picture, the fleet's no, which is written down, or nobody's
\* answer: unreachable, not looked at, or not an image, and nothing is.
Ask(w) ==
  LET v == worker[w] IN
  /\ v.at = "ask"
  /\ requests' = [requests EXCEPT ![v.game] = @ + 1]
  /\ \/ \E body \in Stored \ {None} :
          /\ worker' = [worker EXCEPT ![w].at = "put", ![w].body = body]
          /\ UNCHANGED pictures
     \/ /\ \/ pictures' = [pictures EXCEPT ![v.game].miss = "now"]
           \/ UNCHANGED pictures
        /\ worker' = [worker EXCEPT ![w] = Resting]
  /\ UNCHANGED <<queue, seen, ready, decode, art, launches>>

\* want's last part: one request per game and launch, none at all when this
\* launch has been told there is none.
Wanted(g) ==
  /\ g \notin seen /\ pictures[g].miss # "now"
  /\ seen' = seen \cup {g}
  /\ queue' = Append(queue, g)
  /\ UNCHANGED <<pictures, worker, ready, decode, art, launches, requests>>

(* decode.py *)

Decode ==
  /\ decode.todo # <<>>
  /\ LET g == Head(decode.todo) IN
     decode' = [decode EXCEPT !.todo = Tail(@),
                  !.ready = [k \in DOMAIN @ \cup {g} |->
                    IF k # g THEN @[k] ELSE IF pictures[g].file = "picture" THEN "picture" ELSE "title"]]
  /\ UNCHANGED <<pictures, queue, seen, worker, ready, art, launches, requests>>

(* surface_for, for a tile on screen *)

Cached(g) ==
  /\ pictures[g].file # None
  /\ IF g \in DOMAIN decode.ready
     THEN LET picture == decode.ready[g] IN
          /\ decode' = [decode EXCEPT !.asked = @ \ {g}, !.ready = [k \in DOMAIN @ \ {g} |-> @[k]]]
          /\ art' = [art EXCEPT ![g] = picture]
          /\ pictures' = IF picture = "title" THEN [pictures EXCEPT ![g] = forgotten] ELSE pictures
     ELSE /\ g \notin decode.asked
          /\ decode' = [decode EXCEPT !.asked = @ \cup {g}, !.todo = Append(@, g)]
          /\ UNCHANGED <<art, pictures>>
  /\ UNCHANGED <<queue, seen, worker, ready, launches, requests>>

surface_for(g) == art[g] = "unknown" /\ (Cached(g) \/ (pictures[g].file = None /\ Wanted(g)))

\* The frame hears what arrived: drawn anew from the cache.
Done ==
  /\ ready # <<>>
  /\ art' = [g \in Game |-> IF Contains(ready, g) THEN "unknown" ELSE art[g]]
  /\ ready' = <<>>
  /\ UNCHANGED <<pictures, queue, seen, worker, decode, launches, requests>>

\* The threads are daemons: the picker ends in the middle of theirs.
Relaunch ==
  /\ launches < MaxLaunches
  /\ launches' = launches + 1
  /\ pictures' = [g \in Game |-> [pictures[g] EXCEPT !.miss = IF @ = None THEN None ELSE "before"]]
  /\ queue' = <<>> /\ seen' = {} /\ ready' = <<>>
  /\ worker' = [w \in Worker |-> Resting]
  /\ decode' = [todo |-> <<>>, asked |-> {}, ready |-> [g \in {} |-> None]]
  /\ art' = [g \in Game |-> "unknown"]
  /\ requests' = [g \in Game |-> 0]

Next == \/ \E g \in Game : surface_for(g)
        \/ \E w \in Worker : Take(w) \/ Ask(w) \/ Forget(w) \/ Write(w) \/ Rename(w)
        \/ Decode \/ Done \/ Relaunch

Spec == Init /\ [][Next]_vars

\* A picture interrupted in mid-download is never under its name, so nothing
\* that reads as cached is half of one; a file that would not decode is gone
\* once its tile says so, for the next launch to ask again; what is drawn is
\* what is kept; and a tile drawn sixty times a second, by a frame that races
\* the threads, is one request (art.py put, fetch.py want, app.py surface_for).
PicturesAreWhole ==
  \A g \in Game :
    /\ pictures[g].file \in Stored
    /\ art[g] = "picture" => pictures[g].file = "picture"
    /\ art[g] = "title" => pictures[g].file # "broken"
    /\ requests[g] <= 1
=============================================================================
