----------------------------- MODULE PickerHush ------------------------------
(***************************************************************************)
(* The grabs that keep a controller's own keyboard and mouse from moving   *)
(* the cursor (gotg_ui/hush.py).  The kernel lists its nodes by an event   *)
(* name, which it gives to the next device when one is unplugged; the      *)
(* picker reads the list at its start, at each device SDL announces, and   *)
(* lets everything go as it leaves.                                        *)
(***************************************************************************)
EXTENDS Naturals, FiniteSets

CONSTANTS Event,    \* names of event nodes
          Device,   \* what may be plugged in: [js, kbd, valve, bluetooth, uniq, phys, of]
          MaxPlugs  \* bound on the devices that come

VARIABLES nodes,    \* the kernel's list: per name, [is, serial] of what is behind it
          steam,    \* the serials that somebody else grabbed
          hush,     \* Hush: [held, refused], per name the serial its descriptor is of
          list,     \* what refresh has read and not yet opened
          running,
          settled   \* history: nothing came or went since refresh read the list

vars == <<nodes, steam, hush, list, running, settled>>

Nothing == [is |-> [js |-> FALSE, kbd |-> FALSE], serial |-> 0]
NoList == <<>>
Listed(l) == {e \in Event : l[e] # Nothing}
Plugged == {nodes[e].serial : e \in Listed(nodes)}

Init == /\ nodes = [e \in Event |-> Nothing] /\ steam = {}
        /\ hush = [held |-> [e \in Event |-> 0], refused |-> {}]
        /\ list = NoList
        /\ running = TRUE /\ settled = FALSE

(* hush.py *)

Keyboards(l) == {e \in Listed(l) : l[e].is.kbd /\ ~l[e].is.js}
Joysticks(l) == {l[e].is : e \in {x \in Listed(l) : l[x].is.js}}
Uniqs(l) == {j.uniq : j \in Joysticks(l)} \ {""}
Physes(l) == {j.phys : j \in {x \in Joysticks(l) : ~x.bluetooth}} \ {""}

\* Valve's, or a joystick's: by its own id, or by the port they share, which over
\* Bluetooth is the radio's and says nothing.
a_controllers(l) ==
  {e \in Keyboards(l) : l[e].is.valve \/ l[e].is.uniq \in Uniqs(l)
                        \/ (~l[e].is.bluetooth /\ l[e].is.phys \in Physes(l))}

Read == /\ running /\ list = NoList
        /\ list' = nodes /\ settled' = TRUE
        /\ UNCHANGED <<nodes, steam, hush, running>>

\* A name held already is not looked at again, whatever is behind it by now, and
\* one that was refused is not tried again.
refresh ==
  LET wanted == a_controllers(list)
      tried == {e \in wanted : hush.held[e] = 0 /\ e \notin hush.refused}
      got == {e \in tried : nodes[e] # Nothing /\ nodes[e].serial \notin steam}
  IN /\ running /\ list # NoList /\ list' = NoList
     /\ hush' = [held |-> [e \in Event |-> IF e \notin wanted THEN 0
                                           ELSE IF e \in got THEN nodes[e].serial ELSE hush.held[e]],
                 refused |-> hush.refused \cup (tried \ got)]
     /\ UNCHANGED <<nodes, steam, running, settled>>

\* The picker leaves, between two refreshes.
release == /\ running /\ list = NoList /\ running' = FALSE
           /\ hush' = [hush EXCEPT !.held = [e \in Event |-> 0]]
           /\ UNCHANGED <<nodes, steam, list, settled>>

(* the kernel, which gives a name again, and Steam *)

Plug ==
  /\ \E e \in Event, d \in Device, n \in 1..MaxPlugs :
       /\ nodes[e] = Nothing
       /\ n \notin Plugged \cup steam \cup {hush.held[x] : x \in Event}
       /\ nodes' = [nodes EXCEPT ![e] = [is |-> d, serial |-> n]]
  /\ settled' = FALSE /\ UNCHANGED <<steam, hush, list, running>>

Unplug ==
  /\ \E e \in Listed(nodes) : /\ nodes' = [nodes EXCEPT ![e] = Nothing]
                              /\ steam' = steam \ {nodes[e].serial}
  /\ settled' = FALSE /\ UNCHANGED <<hush, list, running>>

\* One grab at a time: what the picker holds, Steam is refused.
Grab ==
  /\ \E n \in Plugged \ {hush.held[e] : e \in Event} : steam' = steam \cup {n}
  /\ UNCHANGED <<nodes, hush, list, running, settled>>

Next == Read \/ refresh \/ release \/ Plug \/ Unplug \/ Grab

Spec == Init /\ [][Next]_vars

\* What a device truly is part of: a controller is Valve's, or has a joystick.
OfController(e) == nodes[e].is.valve \/ \E j \in Joysticks(nodes) : j.of = nodes[e].is.of

\* The descriptor held under the name is of a device that is gone.
Stale(e) == hush.held[e] \notin {0, nodes[e].serial}

\* Once refresh has read a list that is still so, the keyboards of controllers are
\* held, but for those refused by name and those that came under a name still held
\* for another ("if event in self.held": they move the cursor), and no other is
\* (a phone's media keys on the pad's radio, a keyboard that came under a name
\* between the list and the open); what is left of a device that is gone holds
\* nobody else, and a picker that left holds none (hush.py refresh, release).
HushIsTrue ==
  /\ \A e \in Event : Stale(e) => hush.held[e] \notin Plugged
  /\ ~running => \A e \in Event : hush.held[e] = 0
  /\ running /\ settled /\ list = NoList =>
       \A e \in Event : /\ hush.held[e] # 0 => e \in Keyboards(nodes) /\ OfController(e)
                        /\ e \in Keyboards(nodes) /\ OfController(e)
                             => hush.held[e] = nodes[e].serial \/ e \in hush.refused \/ Stale(e)
=============================================================================
