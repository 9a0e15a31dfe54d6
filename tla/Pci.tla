-------------------------------- MODULE Pci --------------------------------
(***************************************************************************)
(* pci_get_device (drivers/pci.c): the search of the PCI buses for a       *)
(* function with the wanted identifiers.  The recursion of pci_scan_bus,   *)
(* pci_scan_device and pci_scan_function is a stack of frames, each the    *)
(* function its loops have come to; a step does what one call of           *)
(* pci_scan_function does before, or after, the bus behind a bridge.       *)
(*                                                                         *)
(* The machine (external) is a set of functions, by <<bus, device,         *)
(* function>>: whether it is the wanted one, whether it is a bridge, its   *)
(* programming interface, the bus behind it and its header type.           *)
(***************************************************************************)
EXTENDS Integers, Sequences

CONSTANTS Machines,
          DEVICE_PER_BUS, FUNCTION_PER_DEVICE,
          FunctionNums,    \* function_num is a bit field: it holds this many values
          StackLimit       \* frames the kernel's stack has room for

ASSUME PciAssumption ==
  /\ {DEVICE_PER_BUS, FunctionNums, StackLimit} \subseteq Nat \ {0}
  /\ FUNCTION_PER_DEVICE \in Nat /\ FunctionNums <= FUNCTION_PER_DEVICE
  /\ \A m \in Machines :
       /\ DOMAIN m \subseteq Nat \X (0 .. DEVICE_PER_BUS - 1) \X (0 .. FunctionNums - 1)
       /\ \A a \in DOMAIN m : m[a].prog_if \in Nat

VARIABLES machine, host,   \* the bus pci_get_device scans
          stack, state,    \* state: "scan", "done" or "overflow"
          found            \* what pci_get_device returns
pciVars == <<machine, host, stack, state, found>>

dev_zero == <<0, 0, 0>>

\* pci_read, of a function that is not there: every bit is set.
Here(a) == a \in DOMAIN machine
Wanted(a) == Here(a) /\ machine[a].wanted
IsBridge(a) == Here(a) /\ machine[a].bridge
pci_reach_end(a) == Here(a) /\ machine[a].header = 0

\* get_secondary_bus reads the byte at 0x09, the programming interface (pci.h: the bus
\* behind a bridge is at 0x19).
get_secondary_bus(a) == machine[a].prog_if

Frame(bus, dev, fn) == [bus |-> bus, dev |-> dev, fn |-> fn, part |-> "bridge"]
Top == stack[Len(stack)]
Function(f) == <<f.bus, f.dev, f.fn % FunctionNums>>

PciInit ==
  /\ machine \in Machines
  /\ host = 0 /\ stack = <<Frame(0, 0, 0)>> /\ state = "scan" /\ found = dev_zero

(***************************************************************************)
(* A frame returns t.  pci_scan_function drops what the scan behind a      *)
(* bridge returns; pci_get_device goes on with the next host controller,   *)
(* function host + 1 of device 0, unless it is not there.                  *)
(***************************************************************************)
Return(t) ==
  IF Len(stack) > 1
  THEN /\ stack' = SubSeq(stack, 1, Len(stack) - 1)
       /\ UNCHANGED <<machine, host, state, found>>
  ELSE LET next == host + 1
           more == next < FUNCTION_PER_DEVICE /\ Here(<<0, 0, next % FunctionNums>>)
       IN /\ host' = IF t = dev_zero /\ more THEN next ELSE host
          /\ stack' = IF t = dev_zero /\ more THEN <<Frame(next, 0, 0)>> ELSE <<>>
          /\ state' = IF t = dev_zero /\ more THEN "scan" ELSE "done"
          /\ found' = t
          /\ UNCHANGED machine

Goto(f) == stack' = [stack EXCEPT ![Len(stack)] = f] /\ UNCHANGED <<machine, host, state, found>>

\* Mutant: the last device of a bus is not scanned.
NextDevice_Early ==
  IF Top.dev + 2 < DEVICE_PER_BUS
  THEN Goto(Frame(Top.bus, Top.dev + 1, 0))
  ELSE Return(dev_zero)

NextDevice ==
  IF Top.dev + 1 < DEVICE_PER_BUS
  THEN Goto(Frame(Top.bus, Top.dev + 1, 0))
  ELSE Return(dev_zero)

\* The loop over the functions asks for function 0 each time whether it is there.
NextFunction ==
  IF (Top.fn = 0 /\ pci_reach_end(Function(Top))) \/ Top.fn + 1 >= FUNCTION_PER_DEVICE
  THEN NextDevice
  ELSE Goto(Frame(Top.bus, Top.dev, Top.fn + 1))
----------------------------------------------------------------------------
NoDevice ==
  /\ state = "scan" /\ Top.part = "bridge" /\ Top.fn = 0 /\ ~Here(Function(Top))
  /\ NextDevice

\* pci_scan_function up to the test of the type.
ScanBridge ==
  LET marked == [stack EXCEPT ![Len(stack)].part = "match"]
  IN /\ state = "scan" /\ Top.part = "bridge"
     /\ Top.fn # 0 \/ Here(Function(Top))
     /\ \/ ~IsBridge(Function(Top)) /\ Goto([Top EXCEPT !.part = "match"])
        \/ /\ IsBridge(Function(Top)) /\ Len(stack) < StackLimit
           /\ stack' = Append(marked, Frame(get_secondary_bus(Function(Top)), 0, 0))
           /\ UNCHANGED <<machine, host, state, found>>
        \/ /\ IsBridge(Function(Top)) /\ Len(stack) = StackLimit
           /\ state' = "overflow"
           /\ UNCHANGED <<machine, host, stack, found>>

\* The rest of pci_scan_function: a match is returned through every caller, unless its bits,
\* bus, device and function, are all zero.
ScanMatch ==
  /\ state = "scan" /\ Top.part = "match"
  /\ \/ Wanted(Function(Top)) /\ Function(Top) # dev_zero /\ Return(Function(Top))
     \/ (~Wanted(Function(Top)) \/ Function(Top) = dev_zero) /\ NextFunction

PciNext == NoDevice \/ ScanBridge \/ ScanMatch

PciSpec == PciInit /\ [][PciNext]_pciVars
----------------------------------------------------------------------------
Before(a, b) == \/ a[1] < b[1]
                \/ a[1] = b[1] /\ a[2] < b[2]
                \/ a[1] = b[1] /\ a[2] = b[2] /\ a[3] < b[3]

\* The buses of the host controllers: functions of device 0 of bus 0, up to the first gap.
HostBuses == {n \in 0 .. FUNCTION_PER_DEVICE - 1 :
                \A k \in 1 .. n : Here(<<0, 0, k % FunctionNums>>)}

\* The wanted functions the search is to find there: of a device with a function 0, which
\* has several if its header says so.
OnHostBus ==
  {a \in DOMAIN machine : /\ machine[a].wanted /\ a # dev_zero /\ a[1] \in HostBuses
                          /\ Here(<<a[1], a[2], 0>>)
                          /\ a[3] # 0 => ~pci_reach_end(<<a[1], a[2], 0>>)}

(***************************************************************************)
(* A search that ends has found a wanted function if there is one on the   *)
(* buses of the host controllers, the first one there if it is there, and  *)
(* never a function that is not wanted, however the scans behind bridges   *)
(* nest (pci.c:81-164).  What is behind a bridge is left open: pci.c:72-76 *)
(* and 86 say that the search goes on there, and the code drops what a     *)
(* scan there returns (pci.c:88).                                          *)
(***************************************************************************)
FindsOnHostBus ==
  state = "done" =>
    /\ found # dev_zero => Wanted(found)
    /\ OnHostBus # {} => found # dev_zero
    /\ \A a \in OnHostBus : found[1] \in HostBuses => a = found \/ Before(found, a)

(***************************************************************************)
(* The comment at pci.c:86, "If it's a PCI Bridge device, get the bus it's *)
(* connected to and keep searching": a frame above another scans the bus   *)
(* behind a bridge.                                                        *)
(***************************************************************************)
SearchesBehindBridge ==
  \A i \in 2 .. Len(stack) : stack[i].bus = machine[Function(stack[i - 1])].secondary
============================================================================
