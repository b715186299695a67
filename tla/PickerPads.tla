----------------------------- MODULE PickerPads -----------------------------
(***************************************************************************)
(* Which controllers move the picker, and for how long (gotg_ui/pads.py,   *)
(* clones.py, nav.py, intents.py, and the loop's handling of pads in       *)
(* app.py).  SDL's queue is read once a frame; danstick replaces a raw pad *)
(* by a clone, an instance id is used again, and a held direction comes    *)
(* back as presses the loop posts to itself.                               *)
(***************************************************************************)
EXTENDS Integers, Sequences, SequencesExt, FiniteSets

CONSTANTS Id,        \* SDL's instance ids
          AnyPad,    \* GOTG_ANY_PAD
          MaxQueue   \* bound on SDL's queue

VARIABLES dev,    \* the pad behind each id: [is, down, stick], as it is now
          events,  \* SDL's queue, each with whose it is
          pads,   \* Pads and Owners: what was opened under each id
          nav,    \* Nav: the sticks as last read, and the directions held
          drove   \* history: who drove the last press that was taken

vars == <<dev, events, pads, nav, drove>>

Dir == {"right", "down"}
Level == 0..2  \* a stick let go, past EXIT, past ENTER
Centre == [x |-> 0, y |-> 0]
Unplugged == [is |-> "none", down |-> {}, stick |-> Centre]
Source == Id \X {"pad", "stick"}

Event(type, i, dir) == [type |-> type, id |-> i, dir |-> dir, by |-> dev[i].is, stick |-> dev[i].stick]

Init == /\ dev = [i \in Id |-> Unplugged] /\ events = <<>>
        /\ pads = [i \in Id |-> "none"]
        /\ nav = [sticks |-> [i \in Id |-> Centre], held |-> [s \in Source |-> "none"]]
        /\ drove = "nobody"

(* SDL, and the people holding the pads *)

Posts(es) == Len(events) + Len(es) <= MaxQueue /\ events' = events \o es

\* An id is used again, but not before what it last said has been read.
Plug(i) ==
  /\ dev[i] = Unplugged /\ \A k \in DOMAIN events : events[k].id # i
  /\ \E is \in {"raw", "clone"} :
       /\ dev' = [dev EXCEPT ![i].is = is]
       /\ Posts(<<[Event("added", i, "none") EXCEPT !.by = is]>>)
  /\ UNCHANGED <<pads, nav, drove>>

Unplug(i) ==
  /\ dev[i] # Unplugged /\ dev' = [dev EXCEPT ![i] = Unplugged]
  /\ Posts(<<Event("removed", i, "none")>>)
  /\ UNCHANGED <<pads, nav, drove>>

Press(i) ==
  /\ dev[i].is # "none"
  /\ \E d \in Dir :
       /\ dev' = [dev EXCEPT ![i].down = IF d \in @ THEN @ \ {d} ELSE @ \cup {d}]
       /\ Posts(<<Event(IF d \in dev[i].down THEN "up" ELSE "down", i, d)>>)
  /\ UNCHANGED <<pads, nav, drove>>

Push(i) ==
  /\ dev[i].is # "none"
  /\ \E axis \in {"x", "y"}, level \in Level :
       /\ level # dev[i].stick[axis]
       /\ dev' = [dev EXCEPT ![i].stick[axis] = level]
       /\ Posts(<<[Event("stick", i, "none") EXCEPT !.stick[axis] = level]>>)
  /\ UNCHANGED <<pads, nav, drove>>

(* clones.py: the clone or nothing *)

may_drive(i) == AnyPad \/ pads[i] = "clone"

(* nav.py *)

Axis(d) == IF d = "right" THEN "x" ELSE "y"

pushed(stick) ==
  IF stick.x < 2 /\ stick.y < 2 THEN "none" ELSE IF stick.x >= stick.y THEN "right" ELSE "down"

still_pushed(stick, d) == stick[Axis(d)] >= 1

Holds(i, source, d) == [nav EXCEPT !.held[<<i, source>>] = d]

releaseOther(i, d) == IF nav.held[<<i, "pad">>] \in {d, "none"} THEN nav ELSE Holds(i, "pad", "none")

release(i, d) == IF nav.held[<<i, "pad">>] = d THEN Holds(i, "pad", "none") ELSE nav

forget(i) ==
  [sticks |-> [nav.sticks EXCEPT ![i] = Centre],
   held |-> [s \in Source |-> IF s[1] = i THEN "none" ELSE nav.held[s]]]

\* A reading of the stick: what is held, and the step to take now.
steered(i, stick) ==
  LET held == nav.held[<<i, "stick">>]
      way == pushed(stick)
      read == [nav EXCEPT !.sticks[i] = stick]
  IN IF held # "none" /\ way \in {"none", held}
     THEN [nav |-> [read EXCEPT !.held[<<i, "stick">>] = IF still_pushed(stick, held) THEN held ELSE "none"],
           step |-> "none"]
     ELSE [nav |-> [read EXCEPT !.held[<<i, "stick">>] = way], step |-> way]

(* the loop *)

Repeat(i, d) == [type |-> "repeat", id |-> i, dir |-> d, by |-> pads[i], stick |-> Centre]

\* A frame begins: what is held and due is posted as presses.
Due ==
  /\ \E s \in Source :
       /\ nav.held[s] # "none"
       /\ Posts(<<Repeat(s[1], nav.held[s])>>)
  /\ UNCHANGED <<dev, pads, nav, drove>>

Takes(e) == drove' = IF may_drive(e.id) THEN e.by ELSE drove

removeHandle(i) == pads' = pads /\ nav' = forget(i)

remove(i) == pads' = [pads EXCEPT ![i] = "none"] /\ nav' = forget(i)

\* A pad can go between being announced and being opened.
add(e) ==
  /\ UNCHANGED nav
  /\ IF dev[e.id].is = "none" THEN UNCHANGED pads ELSE pads' = [pads EXCEPT ![e.id] = dev[e.id].is]

Handle ==
  /\ events # <<>> /\ UNCHANGED dev
  /\ LET e == Head(events)
         rest == Tail(events)
     IN CASE e.type = "added" -> add(e) /\ events' = rest /\ UNCHANGED drove
          [] e.type = "removed" -> remove(e.id) /\ events' = rest /\ UNCHANGED drove
          [] e.type = "down" ->
               /\ nav' = (IF may_drive(e.id) THEN Holds(e.id, "pad", e.dir) ELSE nav)
               /\ Takes(e) /\ events' = rest /\ UNCHANGED pads
          [] e.type = "up" ->
               /\ nav' = (IF may_drive(e.id) THEN release(e.id, e.dir) ELSE nav)
               /\ events' = rest /\ UNCHANGED <<pads, drove>>
          [] e.type = "repeat" -> Takes(e) /\ events' = rest /\ UNCHANGED <<pads, nav>>
          [] e.type = "stick" ->
               LET said == steered(e.id, e.stick)
               IN /\ nav' = (IF may_drive(e.id) THEN said.nav ELSE nav)
                  /\ events' = (IF may_drive(e.id) /\ said.step # "none"
                               THEN Append(rest, Repeat(e.id, said.step)) ELSE rest)
                  /\ UNCHANGED <<pads, drove>>

Next == Due \/ Handle \/ \E i \in Id : Plug(i) \/ Unplug(i) \/ Press(i) \/ Push(i)

Spec == Init /\ [][Next]_vars

\* Nothing moves the cursor but a pad danstick published: not the raw pad it
\* replaced, nor the raw pad that now has a clone's instance id, nor what was
\* held on a pad that is gone (clones.py Owners, nav.py forget).
OnlyClonesDrive == ~AnyPad => drove \in {"nobody", "clone"}

\* A direction that repeats is a direction somebody holds, or one whose release,
\* or whose pad's departure, is still to be read (nav.py, app.py _steered).
HeldIsPressed ==
  \A i \in Id, d \in Dir :
    LET toldSo(types) == \E k \in DOMAIN events : events[k].id = i /\ events[k].type \in types
    IN /\ nav.held[<<i, "pad">>] = d => d \in dev[i].down \/ toldSo({"up", "removed"})
       /\ nav.held[<<i, "stick">>] = d => still_pushed(dev[i].stick, d) \/ toldSo({"stick", "removed"})
=============================================================================
