------------------------------- MODULE MCTimer ------------------------------
(* Instances of Timer for TLC.                                              *)
EXTENDS Timer

CONSTANTS schedule, print_jiffies, blink

\* The two callbacks kmain and process_init register (30 and 300 ticks, scaled), a third
\* one, and one whose period rounds down to no tick.
ShippedOffset == [c \in Callback |-> IF c = schedule THEN 2 ELSE 4]
MixedOffset == [c \in Callback |-> CASE c = schedule -> 3 [] c = print_jiffies -> 2 [] OTHER -> 0]
=============================================================================
