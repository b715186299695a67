----------------------------- MODULE PickerParts ------------------------------
(***************************************************************************)
(* The picker's parts together: its loop (Picker, whose state is this      *)
(* module's own), and beside it the parts of the program that share none   *)
(* of its state.  A behavior is of one of them, which part names, from     *)
(* that part's initial states and by its own steps; what each promises is  *)
(* stated of all behaviors.                                                *)
(***************************************************************************)
EXTENDS Picker, Sequences

CONSTANTS Tile,                                \* the games of PickerBehind and PickerArt
          Remembered, MaxJobs, MaxSyncs,       \* PickerBehind
          Games, Shape, Word, KeyRows, Installable, MaxFaults,  \* PickerShelf
          Id, AnyPad, MaxQueue,                \* PickerPads
          Player, Keyboard, MaxInbox, MaxDeaths,  \* PickerSeats
          Worker, MaxLaunches,                 \* PickerArt
          MaxGames, MaxLoads,                  \* KillSwitch
          EventName, Device, MaxPlugs              \* PickerHush

\* What the kernel lists of the devices: those that share an id, or off Bluetooth a
\* port, with a joystick are of one controller, and a controller's keyboards, but for
\* Valve's own, share one of the two.
ASSUME DeviceAssumption ==
  \A d, j \in Device : d.kbd /\ ~d.js /\ j.js =>
    LET same_uniq == d.uniq = j.uniq /\ d.uniq # ""
        same_port == ~d.bluetooth /\ ~j.bluetooth /\ d.phys = j.phys /\ d.phys # ""
    IN /\ same_uniq \/ same_port => d.of = j.of
       /\ d.of = j.of => d.valve \/ same_uniq \/ same_port

\* The shapes the library is drawn in have tiles, the list one to a line; the on-screen
\* keyboard's rows have keys, and its last the four with names.
ASSUME ShelfAssumption ==
  /\ Len(Games) \in Nat /\ DOMAIN Games = 1..Len(Games)
  /\ \A view \in {"grid", "rows"} : Shape[view][1] \in Nat \ {0} /\ Shape[view][2] \in Nat \ {0}
  /\ Shape["rows"][1] = 1
  /\ Word \in Nat
  /\ KeyRows \in Seq(Nat \ {0}) /\ Len(KeyRows) >= 2 /\ KeyRows[Len(KeyRows)] = 4

VARIABLES part,
          behind, disk,                        \* PickerBehind
          b, installed, screen, file,          \* PickerShelf
          dev, events, pads, nav, drove,       \* PickerPads
          daemon, wire, link, watch,           \* PickerSeats
          nodes, steam, hush, list, running, settled,  \* PickerHush
          pictures, queue, seen, worker, ready, decode, art, launches, requests,  \* PickerArt
          launch, procs, termed, wrapper, session, switch, told, loads  \* KillSwitch

Behind == INSTANCE PickerBehind WITH Game <- Tile

Shelf == INSTANCE PickerShelf

Pads == INSTANCE PickerPads

Seats == INSTANCE PickerSeats

Art == INSTANCE PickerArt WITH Game <- Tile

Stop == INSTANCE KillSwitch

Hush == INSTANCE PickerHush WITH Event <- EventName

behindVars == <<behind, disk>>
shelfVars == <<b, installed, screen, file>>
padsVars == <<dev, events, pads, nav, drove>>
seatsVars == <<daemon, wire, link, watch>>
hushVars == <<nodes, steam, hush, list, running, settled>>
artVars == <<pictures, queue, seen, worker, ready, decode, art, launches, requests>>
stopVars == <<launch, procs, termed, wrapper, session, switch, told, loads>>

\* The state of a part that is not the behavior's.
Off(v) == v = "off"

PartsInit ==
  /\ Init
  /\ part \in {"loop", "behind", "shelf", "pads", "seats", "hush", "art", "stop"}
  /\ IF part = "behind" THEN Behind!Init
     ELSE Off(behind) /\ Off(disk)
  /\ IF part = "shelf" THEN Shelf!Init
     ELSE Off(b) /\ Off(installed) /\ Off(screen) /\ Off(file)
  /\ IF part = "pads" THEN Pads!Init
     ELSE Off(dev) /\ Off(events) /\ Off(pads) /\ Off(nav) /\ Off(drove)
  /\ IF part = "seats" THEN Seats!Init
     ELSE Off(daemon) /\ Off(wire) /\ Off(link) /\ Off(watch)
  /\ IF part = "hush" THEN Hush!Init
     ELSE Off(nodes) /\ Off(steam) /\ Off(hush) /\ Off(list) /\ Off(running) /\ Off(settled)
  /\ IF part = "art" THEN Art!Init
     ELSE Off(pictures) /\ Off(queue) /\ Off(seen) /\ Off(worker)
          /\ Off(ready) /\ Off(decode) /\ Off(art) /\ Off(launches) /\ Off(requests)
  /\ IF part = "stop" THEN Stop!Init
     ELSE Off(launch) /\ Off(procs) /\ Off(termed) /\ Off(wrapper)
          /\ Off(session) /\ Off(switch) /\ Off(told) /\ Off(loads)

PartsNext ==
  /\ part' = part
  /\ IF part = "loop" THEN Next ELSE UNCHANGED vars
  /\ IF part = "behind" THEN Behind!Next ELSE UNCHANGED behindVars
  /\ IF part = "shelf" THEN Shelf!Next ELSE UNCHANGED shelfVars
  /\ IF part = "pads" THEN Pads!Next ELSE UNCHANGED padsVars
  /\ IF part = "seats" THEN Seats!Next ELSE UNCHANGED seatsVars
  /\ IF part = "hush" THEN Hush!Next ELSE UNCHANGED hushVars
  /\ IF part = "art" THEN Art!Next ELSE UNCHANGED artVars
  /\ IF part = "stop" THEN Stop!Next ELSE UNCHANGED stopVars

PartsVars == <<part, vars, behindVars, shelfVars, padsVars, seatsVars, hushVars, artVars, stopVars>>

PartsSpec == PartsInit /\ [][PartsNext]_PartsVars

\* Nothing that ended behind the grid leaves a tile, a list of variants or a
\* version as it was: once all is quiet the picker shows what is on the disk.
BehindCatchesUp == part = "behind" => Behind!BehindCatchesUp

\* The cursor is on a game of the page that is shown, whatever narrowed it; and
\* a picker that is closed at any moment opens on the shelf it was left on.
ShelfStands == part = "shelf" => Shelf!CursorStands /\ Shelf!ReopensAsLeft

\* A direction moves the cursor to a neighbour or turns one page; and the picker
\* updates itself, or restarts into another, only with no install going.
StepsStand == [][/\ part = "shelf" => Shelf!Steps
                 /\ part = "loop" => OneWriter]_<<vars, shelfVars>>

\* Who may drive the picker: a pad that nobody seated never does, and a direction
\* that repeats is held; who is shown as seated is who the daemon has seated; and
\* the keyboards that are held are the controllers'.
DriversAreTrue == /\ part = "pads" => Pads!OnlyClonesDrive /\ Pads!HeldIsPressed
                  /\ part = "seats" => Seats!ToldIsTrue
                  /\ part = "hush" => Hush!HushIsTrue

\* A picture on a tile is whole, and asked for once in a launch.
PicturesAreWhole == part = "art" => Art!PicturesAreWhole

\* The menu's two ways to end a game: a stop leaves nothing of the launch, and a
\* save that was picked is put back under no game.
GamesEndWhole == part = "stop" => Stop!StopIsWhole /\ Stop!PutBackAtRest
=============================================================================
