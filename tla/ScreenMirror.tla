---------------------------- MODULE ScreenMirror ----------------------------
(***************************************************************************)
(* What a remote desktop graphics stream promises, whatever the transport: *)
(* a remote screen is mirrored by the host.  The screen is a picture, one  *)
(* version number per region; a generation (the graphics epoch) is one     *)
(* canvas.  Within a generation the screen only moves to newer versions,   *)
(* and the mirror follows it: it never shows a version the screen has not  *)
(* reached, never goes back to an older one, and once it has a picture of  *)
(* a generation it never returns to an earlier generation nor goes blank.  *)
(***************************************************************************)
EXTENDS Integers

CONSTANT Regions

VARIABLES screen,   \* the picture the server has painted
          gen,      \* the generation of the canvas
          mirror    \* what the host shows: [epoch, framed, px]

vars == <<screen, gen, mirror>>

Pictures == [Regions -> Nat]
Blank    == [r \in Regions |-> 0]
Mirrors  == [epoch: Nat, framed: BOOLEAN, px: Pictures]

Newer(p, q) == \A r \in Regions : p[r] <= q[r]

Init ==
    /\ screen = Blank
    /\ gen = 0
    /\ mirror = [epoch |-> 0, framed |-> FALSE, px |-> Blank]

\* The server paints: no region goes back to an older version.
Paint ==
    /\ screen' \in Pictures
    /\ Newer(screen, screen')
    /\ UNCHANGED <<gen, mirror>>

\* The server retires the canvas.
Restart ==
    /\ gen' = gen + 1
    /\ UNCHANGED <<screen, mirror>>

\* The server supplies the new canvas, which the host cannot have seen yet.
Replace ==
    /\ ~ (mirror.framed /\ mirror.epoch = gen)
    /\ screen' = Blank
    /\ UNCHANGED <<gen, mirror>>

\* The host shows something newer.
Show ==
    /\ mirror' \in Mirrors
    /\ mirror'.epoch \in mirror.epoch .. gen
    /\ (mirror.framed /\ mirror'.epoch = mirror.epoch) =>
          mirror'.framed /\ Newer(mirror.px, mirror'.px)
    /\ (mirror'.framed /\ mirror'.epoch = gen) => Newer(mirror'.px, screen)
    /\ UNCHANGED <<screen, gen>>

Next == Paint \/ Restart \/ Replace \/ Show

Spec == Init /\ [][Next]_vars
=============================================================================
