-------------------------------- MODULE Timer -------------------------------
(***************************************************************************)
(* The timer, drivers/timer.c: the list of callbacks, filled by            *)
(* register_timer_callback with interrupts enabled, and timer_handler,     *)
(* which runs with interrupts off on every tick of the PIT.                *)
(*                                                                         *)
(* A callback may not return: schedule leaves for the next process.        *)
(***************************************************************************)
EXTENDS Integers, Sequences, FiniteSets

CONSTANTS
  Callback,      \* what is registered, in any order
  Offset,        \* of each callback: sec * frequency_g
  NoReturn,      \* the callbacks that leave the handler for good
  JiffyMod,      \* jiffies is a uint32_t: 2^32
  NoNode

ASSUME TimerAssumption ==
  /\ Offset \in [Callback -> Nat] /\ NoReturn \subseteq Callback
  /\ JiffyMod \in Nat \ {0} /\ \A c \in Callback : Offset[c] < JiffyMod
  /\ NoNode \notin Callback

VARIABLES
  jiffies,
  list,          \* the callbacks from head on
  node,          \* the node that is filled and not yet published, with its next
  since,         \* ticks since a callback was registered or called (history)
  panicked

vars == <<jiffies, list, node, since, panicked>>

Init ==
  /\ jiffies = 0 /\ list = <<>> /\ node = <<NoNode, <<>>>>
  /\ since = [c \in Callback |-> 0]
  /\ panicked = FALSE

Registered == {list[i] : i \in 1 .. Len(list)}

\* Mutant: head is stored although no node is ready.
RegisterPublish_NoNode ==
  /\ ~panicked
  /\ list' = <<node[1]>> \o node[2]
  /\ node' = <<NoNode, <<>>>>
  /\ UNCHANGED <<jiffies, since, panicked>>

\* Mutant: the node is published before its next is set.
RegisterPublish_NoNext ==
  /\ ~panicked /\ node[1] # NoNode
  /\ list' = <<node[1]>>
  /\ since' = [since EXCEPT ![node[1]] = 0]
  /\ node' = <<NoNode, <<>>>>
  /\ UNCHANGED <<jiffies, panicked>>

\* register_timer_callback up to the store to head.
RegisterFill(c) ==
  /\ ~panicked /\ node[1] = NoNode /\ c \notin Registered
  /\ node' = <<c, list>>
  /\ UNCHANGED <<jiffies, list, since, panicked>>

RegisterPublish ==
  /\ ~panicked /\ node[1] # NoNode
  /\ list' = <<node[1]>> \o node[2]
  /\ since' = [since EXCEPT ![node[1]] = 0]
  /\ node' = <<NoNode, <<>>>>
  /\ UNCHANGED <<jiffies, panicked>>

\* Mutant: the time of the previous tick is tested.
Due_Late(i, now) == Offset[list[i]] # 0 /\ (now - 1) % Offset[list[i]] = 0 /\ now # 1

\* How many nodes the loop visits: it ends one node early, except on a list of one.
LoopLength == IF Len(list) <= 1 THEN Len(list) ELSE Len(list) - 1

Due(i, now) == Offset[list[i]] # 0 /\ now % Offset[list[i]] = 0

\* The first node that ends the loop: its callback does not return, or its offset is 0 and
\* the division by it traps.
Ends(i, now) == Offset[list[i]] = 0 \/ (Due(i, now) /\ list[i] \in NoReturn)

Reached(now) == {i \in 1 .. LoopLength : \A k \in 1 .. i - 1 : ~Ends(k, now)}

Called(now) == {list[i] : i \in {k \in Reached(now) : Due(k, now)}}

\* jiffies is incremented, then the callbacks are called.
timer_handler ==
  LET now == (jiffies + 1) % JiffyMod
  IN  /\ ~panicked
      /\ jiffies' = now
      /\ since' = [c \in Callback |->
           IF c \notin Registered \/ c \in Called(now) THEN 0
           ELSE IF since[c] > Offset[c] THEN since[c] ELSE since[c] + 1]
      /\ panicked' = (\E i \in Reached(now) : Offset[list[i]] = 0)
      /\ UNCHANGED <<list, node>>

Next == timer_handler \/ RegisterPublish \/ \E c \in Callback : RegisterFill(c)

Spec == Init /\ [][Next]_vars

\* The PIT repeats (mode 3) and every code path returns to code with interrupts enabled; a
\* registration that has begun runs on.
FairSpec == Spec /\ WF_vars(timer_handler) /\ WF_vars(RegisterPublish)

-----------------------------------------------------------------------------
(* Properties.                                                              *)

\* The type of every variable.
TypeOK ==
  /\ jiffies \in 0 .. JiffyMod - 1
  /\ list \in Seq(Callback)
  /\ node[1] \in Callback \cup {NoNode} /\ node[2] \in Seq(Callback)
  /\ since \in [Callback -> Nat] /\ panicked \in BOOLEAN

\* A callback the loop can reach: not the last of several, and behind none that does not
\* return or traps.
Reachable(i) ==
  /\ i \in 1 .. LoopLength
  /\ \A k \in 1 .. i - 1 : list[k] \notin NoReturn /\ Offset[list[k]] # 0

\* Such a callback never waits longer than its period, also when the counter wraps at a
\* value that is no multiple of the period, and whatever is registered meanwhile.
NeverLate ==
  \A i \in 1 .. Len(list) : Reachable(i) /\ Offset[list[i]] # 0 => since[list[i]] <= Offset[list[i]]

\* A callback that was registered stays in the list, whenever ticks come.
NeverForgotten == [][\A i \in 1 .. Len(list) : \E k \in 1 .. Len(list') : list'[k] = list[i]]_vars

\* Once a callback is registered, it is called again and again (or the kernel stops): kmain
\* registers print_jiffies to print the time every three seconds (kernel.c:49-53, 172).
EveryCallbackRuns ==
  \A c \in Callback : c \in Registered ~> (panicked \/ (since[c] = 0 /\ c \in Registered))
=============================================================================
