------------------------------ MODULE MCDrivers -----------------------------
(***************************************************************************)
(* Instances of the drivers for TLC.  A behaviour is one driver's, named   *)
(* by unit; the others rest in their first state.  Keyboard and Console    *)
(* are driven twice: processes that print while a line end is typed, and a *)
(* keyboard on its own.                                                    *)
(***************************************************************************)
EXTENDS MCTimer, Keyboard, Nic, Pci

VARIABLE unit

\* A line, two lines, and a tab with a glyph behind it.
Lines == {<<"a", "nl">>, <<"a", "nl", "b", "nl">>, <<"tab", "d">>}

\* The letter A, Shift and Caps Lock; the pad's Enter and Slash, and the Up arrow.
Keys == {<<30, 2>>, <<42, 2>>, <<58, 2>>, <<28, 3>>, <<53, 3>>, <<72, 3>>}

\* Devices with one function and with several, the wanted one, and bridges to bus 1 with
\* either programming interface: two devices of two functions, and one on bus 1.
Device(w, b, p, h) == [wanted |-> w, bridge |-> b, prog_if |-> p, secondary |-> 1, header |-> h]
Kinds == {Device(FALSE, FALSE, 0, 0), Device(FALSE, FALSE, 0, 128), Device(TRUE, FALSE, 0, 0),
          Device(FALSE, TRUE, 0, 1), Device(FALSE, TRUE, 1, 1)}
Slots == {<<0, 0, 0>>, <<0, 0, 1>>, <<0, 1, 0>>, <<0, 1, 1>>, <<1, 0, 0>>}
SmallMachines == UNION {[S -> Kinds] : S \in SUBSET Slots}

NoMachine == machine = [a \in {} |-> a] /\ host = 0 /\ stack = <<>> /\ state = "done" /\ found = dev_zero

DriversInit ==
  /\ Init /\ KeyboardInit /\ NicInit
  /\ \/ unit = "pci" /\ PciInit
     \/ unit \in {"timer", "tty", "keyboard", "nic"} /\ NoMachine

ttyVars == <<consoleVars, keyboardVars>>

DriversNext ==
  /\ \/ unit = "timer" /\ Next /\ UNCHANGED <<ttyVars, nicVars, pciVars>>
     \/ /\ unit = "tty" /\ KeyboardNext /\ presses' <= 1 /\ down' \subseteq {<<KEY_ENTER, 3>>}
        /\ UNCHANGED <<vars, nicVars, pciVars>>
     \/ unit = "keyboard" /\ KeyboardNext /\ prints' = 0 /\ UNCHANGED <<vars, nicVars, pciVars>>
     \/ unit = "nic" /\ NicNext /\ UNCHANGED <<vars, ttyVars, pciVars>>
     \/ unit = "pci" /\ PciNext /\ UNCHANGED <<vars, ttyVars, nicVars>>
  /\ UNCHANGED unit

DriversSpec == DriversInit /\ [][DriversNext]_<<unit, vars, ttyVars, nicVars, pciVars>>

\* Behaviours are cut where writes to the console have overlapped, and at the network
\* path's excuses: nothing is claimed from there on.
Claimed == ~typed.spoiled /\ ~excused
=============================================================================
