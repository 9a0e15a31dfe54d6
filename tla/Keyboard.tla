------------------------------ MODULE Keyboard ------------------------------
(***************************************************************************)
(* The keyboard driver, drivers/keyboard.c, above the console it echoes    *)
(* to, and the keyboard it reads: keys are pressed, repeat and are         *)
(* released, their scan codes (set 1) wait in the controller, and each     *)
(* interrupt takes one byte.  The handler runs with interrupts off, in the *)
(* middle of whatever a process is printing.                               *)
(*                                                                         *)
(* A key is <<make code, ext>>: ext is 3 for a key whose codes follow the  *)
(* prefix 0xE0, else 2, the index of its state in the source's keymap.  A  *)
(* character is <<make code, column>>, the place of its glyph in keymap.   *)
(***************************************************************************)
EXTENDS Console

CONSTANTS Hands,        \* the keys that may be pressed
          MaxPresses    \* bound on presses and repeats

VARIABLES keymap,           \* columns 2 and 3: the keys seen pressed
          capslock_state, numlock_state, scrlock_state,
          extcode_state,
          port,             \* the scan codes waiting in the controller
          down,             \* the keys that are down (hardware)
          caps,             \* whether capitals are locked, by the presses (history)
          due,              \* the characters typed and not yet echoed (history)
          presses
driverVars == <<keymap, capslock_state, numlock_state, scrlock_state, extcode_state>>
handVars == <<down, caps, presses>>
keyboardVars == <<driverVars, port, handVars, due>>

KEY_TAB == 15
KEY_ENTER == 28
KEY_SHIFT_L == 42
KEY_SLASH == 53
KEY_SHIFT_R == 54
KEY_STAR == 55
KEY_CAPSLOCK == 58
KEY_NUMLOCK == 69
KEY_SCRLOCK == 70
KEY_PAD_POINT == 83
KEY_PRINT_SCREEN == 95
CODE_PRINT_SCREEN_DOWN == 183
Prefix == 224
INV == <<>>

(***************************************************************************)
(* Columns 0 and 1 of keymap, by kind of key: letters and symbols have two *)
(* glyphs, some keys the same one twice, the number pad one and nothing    *)
(* with shift (its point has DEL), and every other key none.               *)
(***************************************************************************)
Letters == (16 .. 25) \cup (30 .. 38) \cup (44 .. 50)
Symbols == (2 .. 13) \cup {26, 27, 39, 40, 41, 43, 51, 52, KEY_SLASH, KEY_PAD_POINT}
Alike   == {1, 14, KEY_TAB, KEY_ENTER, KEY_STAR, 57, 74, 78}
Pad     == (71 .. 82) \ {74, 78}

Face(code, column) ==
  CASE code \in Letters \cup Symbols -> <<code, column>>
    [] code \in Alike -> <<code, 0>>
    [] code \in Pad /\ column = 0 -> <<code, 0>>
    [] OTHER -> INV

\* Mutant: only the right shift key counts.
shift_state_Right == <<KEY_SHIFT_R, 2>> \in keymap

shift_state == <<KEY_SHIFT_L, 2>> \in keymap \/ <<KEY_SHIFT_R, 2>> \in keymap

(* The character written: a control character moves the cursor.            *)
Written(ch) == CASE ch[1] = KEY_ENTER -> "nl" [] ch[1] = KEY_TAB -> "tab" [] OTHER -> "key"
----------------------------------------------------------------------------
(***************************************************************************)
(* The keyboard (external).  Print Screen sends a shift of its own.        *)
(***************************************************************************)
PrintScreen == <<KEY_STAR, 3>>
Extended == {KEY_ENTER, 29, KEY_SLASH, KEY_STAR, 56, 71, 72, 73, 75, 77} \cup (79 .. 83) \cup (91 .. 93)

ASSUME KeyboardAssumption ==
  Hands \subseteq ((1 .. 88) \X {2}) \cup (Extended \X {3}) /\ MaxPresses \in Nat

Ext(k) == IF k[2] = 3 THEN <<Prefix>> ELSE <<>>
MakeCodes(k) == (IF k = PrintScreen THEN <<Prefix, KEY_SHIFT_L>> ELSE <<>>) \o Ext(k) \o <<k[1]>>
BreakCodes(k) == Ext(k) \o <<k[1] + 128>>
                 \o (IF k = PrintScreen THEN <<Prefix, KEY_SHIFT_L + 128>> ELSE <<>>)

(***************************************************************************)
(* What a press types on a US keyboard with these locks: of the keys with  *)
(* a prefix only the pad's slash (typed as the plain one, keyboard.c:332), *)
(* its enter and Delete type a character.                                  *)
(***************************************************************************)
Types(k, held, lock) ==
  LET shift == <<KEY_SHIFT_L, 2>> \in held \/ <<KEY_SHIFT_R, 2>> \in held
      upper == IF k[1] \in Letters THEN shift # lock ELSE shift
  IN CASE k[2] = 2 \/ k[1] = KEY_SLASH -> Face(k[1], IF upper THEN 1 ELSE 0)
       [] k = <<KEY_ENTER, 3>> -> <<KEY_ENTER, 0>>
       [] k = <<KEY_PAD_POINT, 3>> -> <<KEY_PAD_POINT, 1>>
       [] OTHER -> INV

\* A key goes down, or repeats while it is held.
Press(k) ==
  /\ presses < MaxPresses
  /\ presses' = presses + 1
  /\ down' = down \cup {k}
  /\ caps' = (caps # (k[1] = KEY_CAPSLOCK))
  /\ port' = port \o MakeCodes(k)
  /\ due' = due \o LET ch == Types(k, down', caps') IN IF ch = INV THEN <<>> ELSE <<ch>>
  /\ UNCHANGED <<driverVars, consoleVars>>

Release(k) ==
  /\ k \in down
  /\ down' = down \ {k}
  /\ port' = port \o BreakCodes(k)
  /\ UNCHANGED <<driverVars, caps, presses, due, consoleVars>>
----------------------------------------------------------------------------
KeyboardInit ==
  /\ ConsoleInit
  /\ keymap = {} /\ extcode_state = FALSE
  /\ capslock_state = FALSE /\ numlock_state = FALSE /\ scrlock_state = FALSE
  /\ port = <<>> /\ down = {} /\ caps = FALSE /\ due = <<>> /\ presses = 0

(***************************************************************************)
(* keyboard_cb: one scan code.  scancode is a byte, so the source's        *)
(* scancode |= 0xe000 changes nothing, and makecode, its low seven bits,   *)
(* is never CODE_PRINT_SCREEN_DOWN.                                        *)
(***************************************************************************)
keyboard_cb ==
  LET scancode == Head(port)
      ext   == IF extcode_state THEN 3 ELSE 2
      low   == scancode % 128
      makecode == IF low = CODE_PRINT_SCREEN_DOWN THEN KEY_PRINT_SCREEN ELSE low
      shift == (capslock_state' /\ makecode \in Letters) # shift_state'
      column == IF (ext = 3 /\ makecode # KEY_SLASH) \/ shift THEN 1 ELSE 0
      ch    == Face(makecode, column)
      Locks(n, c, s) == /\ numlock_state' = (numlock_state # n)
                        /\ capslock_state' = (capslock_state # c)
                        /\ scrlock_state' = (scrlock_state # s)
      NoEcho == UNCHANGED <<due, consoleVars>>
  IN /\ port # <<>>
     /\ port' = Tail(port)
     /\ extcode_state' = (scancode = Prefix)
     /\ \/ /\ scancode = Prefix \/ makecode > KEY_PRINT_SCREEN
           /\ UNCHANGED keymap /\ Locks(FALSE, FALSE, FALSE) /\ NoEcho
        \/ /\ scancode # Prefix /\ makecode <= KEY_PRINT_SCREEN /\ scancode >= 128
           /\ keymap' = keymap \ {<<makecode, ext>>}
           /\ Locks(FALSE, FALSE, FALSE) /\ NoEcho
        \/ /\ scancode <= KEY_PRINT_SCREEN
           /\ keymap' = keymap \cup {<<makecode, ext>>}
           /\ Locks(makecode = KEY_NUMLOCK, makecode = KEY_CAPSLOCK, makecode = KEY_SCRLOCK)
           /\ \/ ch = INV /\ NoEcho
              \/ /\ ch # INV
                 /\ Echo(Written(ch))
                 /\ due' = IF due # <<>> /\ Head(due) = ch THEN Tail(due) ELSE due
     /\ UNCHANGED handVars

KeyboardNext ==
  \/ keyboard_cb
  \/ \E k \in Hands : Press(k) \/ Release(k)
  \/ Prints /\ UNCHANGED keyboardVars

KeyboardSpec == KeyboardInit /\ [][KeyboardNext]_<<consoleVars, keyboardVars>>
----------------------------------------------------------------------------
(***************************************************************************)
(* The driver follows the hands: once it has taken every scan code, every  *)
(* character typed has been echoed, in order and in the case the keys held *)
(* and the locks gave it when it was typed, and the keys it takes to be    *)
(* down are those that are, however late the bytes were read and whatever  *)
(* was pressed in between (keyboard.c:246-345).                            *)
(***************************************************************************)
DriverFollowsHands ==
  port = <<>> => /\ due = <<>>
                 /\ keymap = down /\ capslock_state = caps
                 /\ ~extcode_state
============================================================================
