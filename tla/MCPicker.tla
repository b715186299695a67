------------------------------ MODULE MCPicker -------------------------------
(***************************************************************************)
(* The picker's parts on small instances.                                  *)
(***************************************************************************)
EXTENDS PickerParts, TLC

CONSTANTS g1, g2

MCTile == {g1, g2}
PickerSymmetry == Permutations(MCTile)

MCVariants == ("g" :> {"plain", "mod"}) @@ ("h" :> {"plain"})
MCOwnSaves == {<<"g", "mod">>}

Entry(p, r, h) == [platform |-> p, region |-> r, hits |-> h]

MCGames == <<Entry("p", "usa", 1), Entry("p", "world", 0), Entry("q", "usa", 1),
             Entry("p", "usa", 0), Entry("q", "world", 1)>>
MCShape == [grid |-> <<2, 2>>, rows |-> <<1, 3>>]
MCKeyRows == <<2, 4>>

\* A Bluetooth pad, itself a keyboard, and its keyboard, a phone on the same
\* radio, a Steam Controller, and a wired pad and its keyboard.
Node(js, kbd, valve, bluetooth, uniq, phys, of) ==
  [js |-> js, kbd |-> kbd, valve |-> valve, bluetooth |-> bluetooth, uniq |-> uniq, phys |-> phys, of |-> of]

MCDevice == {Node(TRUE, TRUE, FALSE, TRUE, "a", "radio", "pad"), Node(FALSE, TRUE, FALSE, TRUE, "a", "radio", "pad"),
             Node(FALSE, TRUE, FALSE, TRUE, "b", "radio", "phone"), Node(FALSE, TRUE, TRUE, FALSE, "", "", "lizard"),
             Node(TRUE, FALSE, FALSE, FALSE, "", "port", "wired"), Node(FALSE, TRUE, FALSE, FALSE, "", "port", "wired")}
=============================================================================
