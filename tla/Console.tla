------------------------------ MODULE Console ------------------------------
(***************************************************************************)
(* The text console: framebuffer.c, and the way printf (lib/string.c) uses *)
(* it.  printf scrolls once, then writes its characters; it runs with      *)
(* interrupts enabled, so another process may run, and print, between any  *)
(* two of its steps.  The steps are those that lose something when they    *)
(* interleave: fb_write_char computes the position, stores the cell and    *)
(* advances the column, and then handles the end of the line; scroll reads *)
(* the row and then moves the lines.  The moves and stores themselves are  *)
(* single steps.                                                           *)
(*                                                                         *)
(* A character is "nl" (newline or carriage return), "tab" or a glyph.     *)
(* Formatting is in module Strings: a text here is what printf expands to. *)
(***************************************************************************)
EXTENDS Integers, Sequences, FiniteSets

CONSTANTS FB_WIDTH, FB_HEIGHT,
          Processes,     \* the processes that call printf
          Texts,         \* the texts they print
          VideoRows,     \* rows of video memory; the first FB_HEIGHT are shown
          MaxPrints      \* bound on the number of calls of printf

ASSUME ConsoleAssumption ==
  /\ {FB_WIDTH, FB_HEIGHT, VideoRows} \subseteq Nat \ {0} /\ MaxPrints \in Nat
  /\ IsFiniteSet(Processes) /\ Texts \subseteq Seq(STRING) \ {<<>>}

VARIABLES fb,       \* [x, y, cell]: fb_pos_x, fb_pos_y and the video memory
          ctx,      \* ctx[p]: where p is in printf, and its locals
          prints,   \* calls of printf so far
          typed     \* what was written, for the properties: see Typed
consoleVars == <<fb, ctx, prints, typed>>

Blank == " "
Cells == 0 .. FB_WIDTH * VideoRows - 1
Pos(f) == f.x + f.y * FB_WIDTH

(***************************************************************************)
(* The effect of fb_write_char, in the parts it is interrupted between.    *)
(***************************************************************************)
Wrapped(f) == IF f.x = FB_WIDTH THEN [f EXCEPT !.x = 0, !.y = @ + 1] ELSE f

Moved(f, c) == IF c = "nl" THEN [f EXCEPT !.x = 0, !.y = @ + 1]
                           ELSE [f EXCEPT !.x = @ + 4]

Stored(f, pos, c) == [f EXCEPT !.cell[pos] = c, !.x = @ + 1]

fb_write_char(f, c) ==
  Wrapped(IF c \in {"nl", "tab"} THEN Moved(f, c) ELSE Stored(f, Pos(f), c))

\* Mutant: the last row is not cleared.
Scrolled_NoClear(f, size) ==
  [f EXCEPT !.y = @ - 1,
            !.cell = [i \in Cells |-> IF i < size * FB_WIDTH THEN f.cell[i + FB_WIDTH]
                                                             ELSE f.cell[i]]]

\* Mutant: the cursor stays where it was.
Scrolled_Stay(f, size) ==
  [f EXCEPT !.cell = [i \in Cells |->
                        CASE i < size * FB_WIDTH -> f.cell[i + FB_WIDTH]
                          [] i >= size * FB_WIDTH /\ i < (size + 1) * FB_WIDTH -> Blank
                          [] OTHER -> f.cell[i]]]

(***************************************************************************)
(* scroll: rows 1..size are copied to rows 0..size-1, row size is blanked  *)
(* and the cursor goes up.  size is the row scroll read.                   *)
(***************************************************************************)
Scrolled(f, size) ==
  [f EXCEPT !.y = @ - 1,
            !.cell = [i \in Cells |->
                        CASE i < size * FB_WIDTH -> f.cell[i + FB_WIDTH]
                          [] i >= size * FB_WIDTH /\ i < (size + 1) * FB_WIDTH -> Blank
                          [] OTHER -> f.cell[i]]]
----------------------------------------------------------------------------
(***************************************************************************)
(* History.  typed.line is what a terminal without a bottom would show,    *)
(* typed.top the number of lines that have scrolled off, typed.drift how   *)
(* often the cursor was moved down without a scroll to make up for it, and *)
(* typed.spoiled whether two writes have overlapped or a tab has crossed   *)
(* the right edge, a case the comment at framebuffer.c:102 leaves out.     *)
(***************************************************************************)
Typed(t, c) ==
  LET last == t.line[Len(t.line)]
      now  == CASE c = "nl" -> last [] c = "tab" -> last \o <<Blank, Blank, Blank, Blank>>
                [] OTHER -> Append(last, c)
      line == [t.line EXCEPT ![Len(t.line)] = now]
  IN [t EXCEPT !.line = IF c = "nl" \/ Len(now) = FB_WIDTH THEN Append(line, <<>>) ELSE line,
               !.spoiled = @ \/ Len(now) > FB_WIDTH]

\* The cursor goes down n rows (0 or 1) in p's printf; the first is made up for by its scroll.
Down(t, p, n) == [t EXCEPT !.drift = IF n = 1 /\ ctx[p].down THEN @ + 1 ELSE @]

Inside(p) == ctx[p].pc \in {"scroll", "store", "wrap"}
Spoils(p) == \E q \in Processes \ {p} : Inside(q)
Overlap(t, p) == [t EXCEPT !.spoiled = @ \/ Spoils(p)]

NoText == [pc |-> "idle", text |-> <<>>, pos |-> 0, down |-> FALSE]

ConsoleInit ==
  /\ fb = [x |-> 0, y |-> 0, cell |-> [i \in Cells |-> Blank]]
  /\ ctx = [p \in Processes |-> NoText]
  /\ prints = 0
  /\ typed = [line |-> <<<<>>>>, top |-> 0, drift |-> 0, spoiled |-> FALSE]

(***************************************************************************)
(* printf is called: scroll reads the row, and returns at once on a row    *)
(* that is shown.                                                          *)
(***************************************************************************)
printf(p, text) ==
  /\ ctx[p].pc = "idle" /\ prints < MaxPrints
  /\ prints' = prints + 1
  /\ ctx' = [ctx EXCEPT ![p] = [pc |-> IF fb.y < FB_HEIGHT THEN "text" ELSE "scroll",
                                text |-> text, pos |-> fb.y, down |-> FALSE]]
  /\ typed' = [Overlap(typed, p) EXCEPT
                 !.drift = IF \E q \in Processes \ {p} : ctx[q].pc # "idle" THEN @ + 1 ELSE @]
  /\ UNCHANGED fb

scroll(p) ==
  /\ ctx[p].pc = "scroll" /\ ctx[p].pos < VideoRows - 1
  /\ fb' = Scrolled(fb, ctx[p].pos)
  /\ ctx' = [ctx EXCEPT ![p].pc = "text"]
  /\ typed' = [Overlap(typed, p) EXCEPT !.top = @ + 1]
  /\ UNCHANGED prints

(***************************************************************************)
(* The next character of the text: a newline or a tab moves the cursor, a  *)
(* glyph's position is computed first.                                     *)
(***************************************************************************)
NextChar(p) ==
  LET c == Head(ctx[p].text)
  IN /\ ctx[p].pc = "text"
     /\ typed' = Down(Overlap(Typed(typed, c), p), p, IF c = "nl" THEN 1 ELSE 0)
     /\ IF c \in {"nl", "tab"}
        THEN /\ fb' = Moved(fb, c)
             /\ ctx' = [ctx EXCEPT ![p].pc = "wrap", ![p].down = @ \/ c = "nl"]
        ELSE /\ Pos(fb) \in Cells
             /\ ctx' = [ctx EXCEPT ![p].pc = "store", ![p].pos = Pos(fb)]
             /\ UNCHANGED fb
     /\ UNCHANGED prints

StoreGlyph(p) ==
  /\ ctx[p].pc = "store"
  /\ fb' = Stored(fb, ctx[p].pos, Head(ctx[p].text))
  /\ ctx' = [ctx EXCEPT ![p].pc = "wrap"]
  /\ typed' = Overlap(typed, p)
  /\ UNCHANGED prints

(***************************************************************************)
(* The end of fb_write_char; printf returns after the last character.      *)
(***************************************************************************)
Wrap(p) ==
  LET n    == Wrapped(fb).y - fb.y
      rest == Tail(ctx[p].text)
  IN /\ ctx[p].pc = "wrap"
     /\ fb' = Wrapped(fb)
     /\ ctx' = [ctx EXCEPT ![p] = IF rest = <<>> THEN NoText
                                  ELSE [pc |-> "text", text |-> rest, pos |-> 0,
                                        down |-> ctx[p].down \/ n = 1]]
     /\ typed' = Down(Overlap(typed, p), p, n)
     /\ UNCHANGED prints

(***************************************************************************)
(* An interrupt handler writes a character: it runs to its end, whatever   *)
(* the process it interrupted was doing, and nothing scrolls.              *)
(***************************************************************************)
Echo(c) ==
  /\ c \in {"nl", "tab"} \/ Pos(fb) \in Cells
  /\ fb' = fb_write_char(fb, c)
  /\ typed' = [Typed(typed, c) EXCEPT !.spoiled = @ \/ (\E p \in Processes : Inside(p)),
                                      !.drift = @ + (fb'.y - fb.y)]
  /\ UNCHANGED <<ctx, prints>>

Prints == \E p \in Processes :
           \/ \E text \in Texts : printf(p, text)
           \/ scroll(p) \/ NextChar(p) \/ StoreGlyph(p) \/ Wrap(p)
----------------------------------------------------------------------------
(* No character is between its first and its last step.                    *)
Settled == \A p \in Processes : ~Inside(p)

(***************************************************************************)
(* The screen is the tail of what was written: as long as no two writes    *)
(* overlapped, row r of the video memory is line top + r of an endless     *)
(* terminal, whatever was printed by whom, through every scroll, wrap and  *)
(* echo, and every row below the cursor's is blank (framebuffer.c:92-149). *)
(***************************************************************************)
ScreenIsTail ==
  Settled /\ ~typed.spoiled =>
    /\ typed.top + fb.y + 1 = Len(typed.line)
    /\ \A i \in Cells :
         LET n == typed.top + (i \div FB_WIDTH) + 1
             k == (i % FB_WIDTH) + 1
         IN fb.cell[i] = IF n <= Len(typed.line) /\ k <= Len(typed.line[n])
                         THEN typed.line[n][k] ELSE Blank

(***************************************************************************)
(* The cursor leaves the screen only by one row for each of: a second line *)
(* end in one printf, a line end echoed by an interrupt, a printf begun    *)
(* while another is under way (scroll moves up one line a call,            *)
(* string.c:118, framebuffer.c:139-149); one that ends its line leaves the *)
(* cursor on the first hidden row, and the next call brings it back.       *)
(***************************************************************************)
CursorStaysNear == ~typed.spoiled => fb.y <= FB_HEIGHT + typed.drift
============================================================================
