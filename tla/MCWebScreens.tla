---------------------------- MODULE MCWebScreens ----------------------------
(* WebScreens and ScreenControls for TLC: every kind of screen with a few      *)
(* clicks, and every kind of row with the controls of the screens that show    *)
(* it. The two have no state in common, so each is explored while the other    *)
(* stands still: no row is open, or a screen without handlers.                 *)
EXTENDS WebScreens, ScreenControls

MCInit == Init /\ \/ row = NoRow /\ seen = NoRow /\ behind = 0
                  \/ screen = Calendar /\ ControlsInit

MCNext == \/ row = NoRow /\ Next /\ UNCHANGED controls
          \/ row # NoRow /\ ControlsNext /\ UNCHANGED vars

MCSpec == MCInit /\ [][MCNext]_<<vars, controls>>
=============================================================================
