---------------------------- MODULE DriverProofs ----------------------------
(***************************************************************************)
(* The drivers, proved for every size of their tables and rings, every     *)
(* number of processes and every machine: the PCI search, the network      *)
(* path, the console, the keyboard and the timer.                          *)
(***************************************************************************)
EXTENDS Timer, Keyboard, Nic, Pci, FiniteSetTheorems, SequenceTheorems, NatLemmas

-----------------------------------------------------------------------------
(***************************************************************************)
(* The PCI search.  Only the frame at the bottom of the stack decides what *)
(* is found: the scans behind bridges return into pci_scan_function, which *)
(* drops their result.                                                     *)
(***************************************************************************)

Frames == [bus : Nat, dev : Nat, fn : Nat, part : {"bridge", "match"}]

\* The functions to be found lie at or after function f of device d of bus h.
Ahead(h, d, f) ==
  \A a \in OnHostBus : a[1] > h \/ (a[1] = h /\ (a[2] > d \/ (a[2] = d /\ a[3] >= f)))

\* The bottom frame scans the host's bus, and has passed nothing that is to be found.
BottomInv(f) ==
  /\ f.bus = host /\ f.dev < DEVICE_PER_BUS /\ f.fn < FUNCTION_PER_DEVICE
  /\ f.fn # 0 \/ f.part = "match" => Here(<<host, f.dev, 0>>)
  /\ f.fn # 0 => ~pci_reach_end(<<host, f.dev, 0>>)
  /\ Ahead(host, f.dev, f.fn)

StackInv == stack \in Seq(Frames) /\ stack # <<>> /\ found = dev_zero /\ host \in HostBuses

\* What the code finds: the first function on the host controllers' buses, or nothing.
FoundFirst ==
  IF OnHostBus = {} THEN found = dev_zero
  ELSE found \in OnHostBus /\ \A a \in OnHostBus : a = found \/ Before(found, a)

\* The inductive invariant.
PciInv ==
  /\ machine \in Machines
  /\ state = "scan" => StackInv /\ BottomInv(stack[1])
  /\ state = "done" => FoundFirst

\* The sizes.
LEMMA PciConstants ==
  /\ DEVICE_PER_BUS \in Nat \ {0} /\ FunctionNums \in Nat \ {0} /\ FUNCTION_PER_DEVICE \in Nat
  /\ FunctionNums <= FUNCTION_PER_DEVICE /\ 0 % FunctionNums = 0
  BY PciAssumption

\* The functions a machine has, by their three numbers.
LEMMA MachineType ==
  ASSUME machine \in Machines
  PROVE  /\ \A a \in DOMAIN machine :
              /\ a[1] \in Nat /\ a[2] \in Nat /\ a[2] < DEVICE_PER_BUS /\ a[3] \in Nat
              /\ a[3] < FunctionNums /\ a = <<a[1], a[2], a[3]>> /\ machine[a].prog_if \in Nat
         /\ OnHostBus \subseteq DOMAIN machine /\ HostBuses \subseteq Nat
  BY PciAssumption DEF OnHostBus, HostBuses

\* The stack has a bottom and a top.
LEMMA StackType ==
  ASSUME StackInv
  PROVE  /\ Len(stack) \in Nat \ {0} /\ stack[1] \in Frames /\ Top \in Frames
         /\ Len(stack) = 1 => Top = stack[1]
         /\ Len(stack) > 1 \/ Len(stack) = 1
  BY DEF StackInv, Top

\* Whether a function is there, and what is to be found, depends on the machine alone.
LEMMA SameMachine ==
  ASSUME UNCHANGED machine
  PROVE  /\ OnHostBus' = OnHostBus /\ HostBuses' = HostBuses
         /\ \A a : Here(a)' = Here(a) /\ pci_reach_end(a)' = pci_reach_end(a)
         /\ \A h, d, f : Ahead(h, d, f)' = Ahead(h, d, f)
  BY DEF OnHostBus, HostBuses, Here, pci_reach_end, Ahead

\* A step above the bottom of the stack.
LEMMA AboveBottom ==
  ASSUME PciInv, state = "scan", UNCHANGED <<machine, host, state, found>>,
         stack' \in Seq(Frames), stack' # <<>>, stack'[1] = stack[1]
  PROVE  PciInv'
  BY SameMachine DEF PciInv, StackInv, BottomInv

\* The loops go on in the top frame.
LEMMA GotoInv ==
  ASSUME PciInv, state = "scan", NEW f \in Frames, Goto(f), Len(stack) = 1 => BottomInv(f)
  PROVE  PciInv'
  <1>1. stack \in Seq(Frames) /\ Len(stack) \in Nat \ {0} /\ StackInv /\ machine \in Machines
    BY StackType DEF PciInv, StackInv
  <1>2. /\ stack' \in Seq(Frames) /\ Len(stack') = Len(stack)
        /\ stack'[1] = IF Len(stack) = 1 THEN f ELSE stack[1]
        /\ UNCHANGED <<machine, host, state, found>>
    BY <1>1 DEF Goto
  <1>3. stack' # <<>>
    BY <1>1, <1>2
  <1>4. CASE Len(stack) = 1
    <2>1. BottomInv(f)'
      BY <1>2, <1>4, SameMachine DEF BottomInv
    <2> QED BY <1>1, <1>2, <1>3, <1>4, <2>1, SameMachine DEF PciInv, StackInv
  <1>5. CASE Len(stack) # 1
    BY <1>2, <1>3, <1>5, AboveBottom
  <1> QED BY <1>4, <1>5

\* A bus has been scanned: nothing that is to be found lies on it or on an earlier one.
LEMMA ReturnZeroInv ==
  ASSUME PciInv, state = "scan", Return(dev_zero), Len(stack) = 1 => Ahead(host + 1, 0, 0)
  PROVE  PciInv'
  <1>1. stack \in Seq(Frames) /\ Len(stack) \in Nat \ {0} /\ StackInv /\ machine \in Machines
    BY StackType DEF PciInv, StackInv
  <1>2. CASE Len(stack) > 1
    <2>1. /\ stack' = SubSeq(stack, 1, Len(stack) - 1)
          /\ UNCHANGED <<machine, host, state, found>>
      BY <1>2 DEF Return
    <2>2. stack' \in Seq(Frames) /\ Len(stack') = Len(stack) - 1 /\ stack'[1] = stack[1]
      BY <1>1, <1>2, <2>1
    <2>3. stack' # <<>>
      BY <1>1, <1>2, <2>2
    <2> QED BY <2>1, <2>2, <2>3, AboveBottom
  <1>3. CASE Len(stack) = 1
    <2> PICK next : next = host + 1
      OBVIOUS
    <2> DEFINE more == next < FUNCTION_PER_DEVICE /\ Here(<<0, 0, next % FunctionNums>>)
    <2>1. host \in Nat /\ host \in HostBuses /\ Ahead(next, 0, 0)
      BY <1>1, <1>3, MachineType DEF StackInv
    <2>2. machine' = machine /\ found' = dev_zero
      BY <1>3 DEF Return
    <2>3. next \in HostBuses <=> more
      <3> DEFINE K(k) == Here(<<0, 0, k % FunctionNums>>)
      <3>1. HostBuses = {n \in 0 .. FUNCTION_PER_DEVICE - 1 : \A k \in 1 .. n : K(k)}
        BY DEF HostBuses
      <3>2. more <=> next < FUNCTION_PER_DEVICE /\ K(next)
        OBVIOUS
      <3> HIDE DEF K, more
      <3> QED BY <2>1, <3>1, <3>2, PciConstants
    <2>4. CASE more
      <3>1. host' = next /\ stack' = <<Frame(next, 0, 0)>> /\ state' = "scan"
        BY <1>3, <2>4 DEF Return
      <3>2. Frame(next, 0, 0) \in Frames
        BY <2>1 DEF Frame, Frames
      <3>3. stack' \in Seq(Frames) /\ stack' # <<>> /\ stack'[1] = Frame(next, 0, 0)
        BY <3>1, <3>2
      <3>4. BottomInv(Frame(next, 0, 0))'
        BY <2>1, <2>2, <2>4, <3>1, SameMachine, PciConstants DEF BottomInv, Frame
      <3> QED BY <1>1, <2>2, <2>3, <2>4, <3>1, <3>3, <3>4, SameMachine DEF PciInv, StackInv
    <2>5. CASE ~more
      <3>1. state' = "done"
        BY <1>3, <2>5 DEF Return
      <3>2. ASSUME NEW a \in OnHostBus PROVE FALSE
        <4>1. a[1] \in HostBuses /\ a[1] \in Nat /\ a[1] >= next
          <5>1. a[1] \in Nat
            BY <1>1, MachineType
          <5>2. a[1] > next \/ a[1] = next
            BY <2>1 DEF Ahead
          <5> QED BY <2>1, <5>1, <5>2 DEF OnHostBus
        <4>2. next \in HostBuses
          <5> DEFINE K(k) == Here(<<0, 0, k % FunctionNums>>)
          <5>1. HostBuses = {n \in 0 .. FUNCTION_PER_DEVICE - 1 : \A k \in 1 .. n : K(k)}
            BY DEF HostBuses
          <5> HIDE DEF K
          <5> QED BY <2>1, <4>1, <5>1, PciConstants
        <4> QED BY <2>3, <2>5, <4>2
      <3>3. OnHostBus' = {}
        BY <2>2, <3>2, SameMachine
      <3> QED BY <1>1, <2>2, <3>1, <3>3 DEF PciInv, FoundFirst, dev_zero
    <2> QED BY <2>4, <2>5
  <1> QED BY <1>1, <1>2, <1>3

\* A device has been scanned, or is not there.
LEMMA NextDeviceInv ==
  ASSUME PciInv, state = "scan", NextDevice, Len(stack) = 1 => Ahead(host, Top.dev + 1, 0)
  PROVE  PciInv'
  <1>1. StackInv /\ machine \in Machines /\ Top \in Frames /\ (Len(stack) = 1 => Top = stack[1])
    BY StackType DEF PciInv
  <1> DEFINE f == Frame(Top.bus, Top.dev + 1, 0)
  <1>2. CASE Top.dev + 1 < DEVICE_PER_BUS
    <2>1. f \in Frames /\ f.bus = Top.bus /\ f.dev = Top.dev + 1 /\ f.fn = 0 /\ f.part = "bridge"
      BY <1>1 DEF Frame, Frames
    <2>2. Goto(f)
      BY <1>2 DEF NextDevice
    <2>3. Len(stack) = 1 => BottomInv(f)
      BY <1>1, <1>2, <2>1, PciAssumption DEF PciInv, BottomInv
    <2> HIDE DEF f
    <2> QED BY <2>1, <2>2, <2>3, GotoInv
  <1>3. CASE ~(Top.dev + 1 < DEVICE_PER_BUS)
    <2>1. Return(dev_zero)
      BY <1>3 DEF NextDevice
    <2>2. ASSUME Len(stack) = 1 PROVE Ahead(host + 1, 0, 0)
      <3>1. host \in Nat /\ Top.dev \in Nat
        BY <1>1, MachineType DEF StackInv, Frames
      <3> SUFFICES ASSUME NEW a \in OnHostBus
                   PROVE  a[1] > host + 1 \/ (a[1] = host + 1 /\ (a[2] > 0 \/ (a[2] = 0 /\ a[3] >= 0)))
        BY DEF Ahead
      <3>2. a[1] \in Nat /\ a[2] \in Nat /\ a[3] \in Nat /\ a[2] < DEVICE_PER_BUS
        BY <1>1, MachineType
      <3>3. a[1] > host \/ (a[1] = host /\ (a[2] > Top.dev + 1 \/ a[2] = Top.dev + 1))
        BY <2>2 DEF Ahead
      <3> QED BY <1>3, <3>1, <3>2, <3>3, PciConstants
    <2> QED BY <2>1, <2>2, ReturnZeroInv
  <1> QED BY <1>2, <1>3

\* pci_scan_device on a device that is not there.
LEMMA NoDeviceInv == ASSUME PciInv, NoDevice PROVE PciInv'
  <1>1. StackInv /\ machine \in Machines /\ Top \in Frames /\ (Len(stack) = 1 => Top = stack[1])
    BY StackType DEF PciInv, NoDevice
  <1>2. ASSUME Len(stack) = 1 PROVE Ahead(host, Top.dev + 1, 0)
    <2>1. /\ Top.bus = host /\ Top.fn = 0 /\ Top.dev \in Nat /\ Ahead(host, Top.dev, 0)
          /\ ~Here(<<host, Top.dev, 0>>)
      <3>1. 0 % FunctionNums = 0
        BY PciAssumption
      <3> QED BY <1>1, <1>2, <3>1 DEF PciInv, BottomInv, NoDevice, Function, Frames
    <2> SUFFICES ASSUME NEW a \in OnHostBus
                 PROVE  a[1] > host \/ (a[1] = host /\ (a[2] > Top.dev + 1 \/ (a[2] = Top.dev + 1 /\ a[3] >= 0)))
      BY DEF Ahead
    <2>2. a[1] \in Nat /\ a[2] \in Nat /\ a[3] \in Nat /\ Here(<<a[1], a[2], 0>>)
      BY <1>1, MachineType DEF OnHostBus
    <2>3. a[1] > host \/ (a[1] = host /\ a[2] > Top.dev) \/ (a[1] = host /\ a[2] = Top.dev)
      BY <2>1 DEF Ahead
    <2>4. ~(a[1] = host /\ a[2] = Top.dev)
      BY <2>1, <2>2
    <2> QED BY <2>1, <2>2, <2>3, <2>4
  <1> QED BY <1>2, NextDeviceInv DEF NoDevice

\* A function that is not to be returned has been looked at.
LEMMA NextFunctionInv ==
  ASSUME PciInv, state = "scan", Top.part = "match", NextFunction,
         ~Wanted(Function(Top)) \/ Function(Top) = dev_zero
  PROVE  PciInv'
  <1>1. StackInv /\ machine \in Machines /\ Top \in Frames /\ (Len(stack) = 1 => Top = stack[1])
    BY StackType DEF PciInv
  <1>2. Top.dev \in Nat /\ Top.fn \in Nat /\ host \in Nat
    BY <1>1, MachineType DEF Frames, StackInv
  <1>3. ASSUME Len(stack) = 1, NEW a \in OnHostBus, a[1] = host, a[2] = Top.dev
        PROVE  a[3] > Top.fn
    <2>1. Top.bus = host /\ Ahead(host, Top.dev, Top.fn)
      BY <1>1, <1>3 DEF PciInv, BottomInv
    <2>2. a[3] \in Nat /\ a[3] < FunctionNums /\ a = <<host, Top.dev, a[3]>>
      BY <1>1, <1>3, MachineType
    <2>3. a[3] >= Top.fn
      BY <1>2, <1>3, <2>1, <2>2 DEF Ahead
    <2>4. ASSUME a[3] = Top.fn PROVE FALSE
      <3>1. Top.fn % FunctionNums = Top.fn
        BY <1>2, <2>2, <2>4, ModBelow, PciAssumption
      <3>2. Function(Top) = a
        BY <2>1, <2>2, <2>4, <3>1 DEF Function
      <3> QED BY <3>2 DEF OnHostBus, Wanted, Here
    <2> QED BY <1>2, <2>2, <2>3, <2>4
  <1> DEFINE f == Frame(Top.bus, Top.dev, Top.fn + 1)
             last == (Top.fn = 0 /\ pci_reach_end(Function(Top))) \/ Top.fn + 1 >= FUNCTION_PER_DEVICE
  <1>4. CASE last
    <2>1. NextDevice
      BY <1>4 DEF NextFunction
    <2>2. ASSUME Len(stack) = 1 PROVE Ahead(host, Top.dev + 1, 0)
      <3> SUFFICES ASSUME NEW a \in OnHostBus
                   PROVE  a[1] > host \/ (a[1] = host /\ (a[2] > Top.dev + 1 \/ (a[2] = Top.dev + 1 /\ a[3] >= 0)))
        BY DEF Ahead
      <3>1. /\ a[1] \in Nat /\ a[2] \in Nat /\ a[3] \in Nat /\ a[3] < FunctionNums
            /\ (a[3] # 0 => ~pci_reach_end(<<a[1], a[2], 0>>))
        BY <1>1, MachineType DEF OnHostBus
      <3>2. a[1] > host \/ (a[1] = host /\ a[2] > Top.dev) \/ (a[1] = host /\ a[2] = Top.dev)
        BY <1>1, <2>2 DEF PciInv, BottomInv, Ahead
      <3>3. ASSUME a[1] = host, a[2] = Top.dev PROVE FALSE
        <4>1. a[3] > Top.fn
          BY <1>3, <2>2, <3>3
        <4>2. CASE Top.fn = 0 /\ pci_reach_end(Function(Top))
          <5>1. 0 % FunctionNums = 0
            BY PciAssumption
          <5>2. Function(Top) = <<host, Top.dev, 0>>
            BY <1>1, <2>2, <4>2, <5>1 DEF PciInv, BottomInv, Function
          <5> QED BY <3>1, <3>3, <4>1, <4>2, <5>2
        <4>3. CASE Top.fn + 1 >= FUNCTION_PER_DEVICE
          BY <1>2, <3>1, <4>1, <4>3, PciAssumption
        <4> QED BY <1>4, <4>2, <4>3
      <3> QED BY <1>2, <3>1, <3>2, <3>3
    <2> QED BY <2>1, <2>2, NextDeviceInv
  <1>5. CASE ~last
    <2>1. Goto(f)
      BY <1>5 DEF NextFunction
    <2>2. f \in Frames /\ f.bus = Top.bus /\ f.dev = Top.dev /\ f.fn = Top.fn + 1
      BY <1>1 DEF Frame, Frames
    <2>3. ASSUME Len(stack) = 1 PROVE BottomInv(f)
      <3>1. /\ Top.bus = host /\ Top.dev < DEVICE_PER_BUS /\ Here(<<host, Top.dev, 0>>)
            /\ Ahead(host, Top.dev, Top.fn) /\ (Top.fn # 0 => ~pci_reach_end(<<host, Top.dev, 0>>))
        BY <1>1, <2>3 DEF PciInv, BottomInv
      <3>2. ~pci_reach_end(<<host, Top.dev, 0>>)
        <4>1. CASE Top.fn = 0
          <5>1. 0 % FunctionNums = 0
            BY PciAssumption
          <5> QED BY <1>5, <3>1, <4>1, <5>1 DEF Function
        <4> QED BY <3>1, <4>1
      <3>3. Ahead(host, Top.dev, Top.fn + 1)
        <4> SUFFICES ASSUME NEW a \in OnHostBus
                     PROVE  a[1] > host \/ (a[1] = host /\ (a[2] > Top.dev \/ (a[2] = Top.dev /\ a[3] >= Top.fn + 1)))
          BY DEF Ahead
        <4>1. a[3] \in Nat
          BY <1>1, MachineType
        <4>2. a[1] > host \/ (a[1] = host /\ a[2] > Top.dev) \/ (a[1] = host /\ a[2] = Top.dev)
          BY <3>1 DEF Ahead
        <4>3. a[1] = host /\ a[2] = Top.dev => a[3] > Top.fn
          BY <1>3, <2>3
        <4> QED BY <1>2, <4>1, <4>2, <4>3
      <3> QED BY <1>2, <1>5, <2>2, <3>1, <3>2, <3>3, PciAssumption DEF BottomInv
    <2> HIDE DEF f
    <2> QED BY <2>1, <2>2, <2>3, GotoInv
  <1> QED BY <1>4, <1>5

\* pci_scan_function up to the test of the type: the bus behind a bridge, if its stack has room.
LEMMA ScanBridgeInv == ASSUME PciInv, ScanBridge PROVE PciInv'
  <1>1. /\ state = "scan" /\ StackInv /\ machine \in Machines /\ Top \in Frames
        /\ stack \in Seq(Frames) /\ Len(stack) \in Nat \ {0}
        /\ (Len(stack) = 1 => Top = stack[1])
    BY StackType DEF PciInv, ScanBridge, StackInv
  <1> DEFINE f == [Top EXCEPT !.part = "match"]
  <1>2. f \in Frames /\ f.bus = Top.bus /\ f.dev = Top.dev /\ f.fn = Top.fn
    BY <1>1 DEF Frames
  <1>3. Len(stack) = 1 => BottomInv(f)
    <2>1. ASSUME Len(stack) = 1, Top.fn = 0 PROVE Here(<<host, Top.dev, 0>>)
      <3>1. 0 % FunctionNums = 0
        BY PciAssumption
      <3> QED BY <1>1, <2>1, <3>1 DEF ScanBridge, Function, PciInv, BottomInv
    <2> QED BY <1>1, <1>2, <2>1 DEF PciInv, BottomInv
  <1>4. CASE Goto(f)
    <2> HIDE DEF f
    <2> QED BY <1>1, <1>2, <1>3, <1>4, GotoInv
  <1>5. CASE /\ IsBridge(Function(Top))
             /\ stack' = Append([stack EXCEPT ![Len(stack)].part = "match"],
                                Frame(get_secondary_bus(Function(Top)), 0, 0))
             /\ UNCHANGED <<machine, host, state, found>>
    <2> DEFINE g == Frame(get_secondary_bus(Function(Top)), 0, 0)
               s == [stack EXCEPT ![Len(stack)] = f]
    <2>1. g \in Frames
      <3>1. get_secondary_bus(Function(Top)) \in Nat
        BY <1>1, <1>5, MachineType DEF get_secondary_bus, IsBridge, Here
      <3> QED BY <3>1 DEF Frame, Frames
    <2>2. stack' = Append(s, g)
      BY <1>5 DEF Top
    <2> HIDE DEF f, g
    <2>3. s \in Seq(Frames) /\ Len(s) = Len(stack) /\ s[1] = IF Len(stack) = 1 THEN f ELSE stack[1]
      BY <1>1, <1>2
    <2> HIDE DEF s
    <2>4. stack' \in Seq(Frames) /\ Len(stack') = Len(stack) + 1 /\ stack'[1] = s[1]
      BY <1>1, <2>1, <2>2, <2>3
    <2>5. stack' # <<>>
      BY <1>1, <2>4
    <2>6. PICK b : b = s[1]
      OBVIOUS
    <2>7. BottomInv(b)
      BY <1>1, <1>3, <2>3, <2>6 DEF PciInv
    <2>8. BottomInv(b)'
      BY <1>5, <2>7, SameMachine DEF BottomInv
    <2>9. BottomInv(stack[1])'
      BY <2>4, <2>6, <2>8
    <2> QED BY <1>1, <1>5, <2>4, <2>5, <2>9, SameMachine DEF PciInv, StackInv
  <1>6. CASE state' = "overflow" /\ UNCHANGED machine
    BY <1>1, <1>6 DEF PciInv
  <1> QED BY <1>4, <1>5, <1>6 DEF ScanBridge

\* The rest of pci_scan_function: a match of the bottom frame is what pci_get_device returns.
LEMMA ScanMatchInv == ASSUME PciInv, ScanMatch PROVE PciInv'
  <1>1. /\ state = "scan" /\ StackInv /\ machine \in Machines /\ Top \in Frames
        /\ stack \in Seq(Frames) /\ Len(stack) \in Nat \ {0}
        /\ (Len(stack) = 1 => Top = stack[1]) /\ Top.part = "match"
    BY StackType DEF PciInv, ScanMatch, StackInv
  <1>2. CASE (~Wanted(Function(Top)) \/ Function(Top) = dev_zero) /\ NextFunction
    BY <1>1, <1>2, NextFunctionInv
  <1>3. CASE Wanted(Function(Top)) /\ Function(Top) # dev_zero /\ Return(Function(Top))
    <2> DEFINE t == Function(Top)
    <2>1. CASE Len(stack) > 1
      <3>1. /\ stack' = SubSeq(stack, 1, Len(stack) - 1)
            /\ UNCHANGED <<machine, host, state, found>>
        BY <1>3, <2>1 DEF Return
      <3>2. stack' \in Seq(Frames) /\ Len(stack') = Len(stack) - 1 /\ stack'[1] = stack[1]
        BY <1>1, <2>1, <3>1
      <3>3. stack' # <<>>
        BY <1>1, <2>1, <3>2
      <3> QED BY <1>1, <3>1, <3>2, <3>3, AboveBottom
    <2>2. CASE Len(stack) = 1
      <3>1. machine' = machine /\ found' = t /\ state' = "done"
        BY <1>3, <2>2 DEF Return
      <3>2. /\ Top.bus = host /\ Here(<<host, Top.dev, 0>>) /\ Ahead(host, Top.dev, Top.fn)
            /\ (Top.fn # 0 => ~pci_reach_end(<<host, Top.dev, 0>>)) /\ host \in HostBuses
        BY <1>1, <2>2 DEF PciInv, BottomInv, StackInv
      <3>3. /\ t[1] = host /\ t[2] = Top.dev /\ t[3] = Top.fn % FunctionNums
            /\ t \in DOMAIN machine /\ t[3] \in Nat /\ Top.fn \in Nat /\ Top.dev \in Nat
            /\ (Top.fn = 0 => t[3] = 0) /\ t[3] <= Top.fn /\ host \in Nat
        <4>1. t[1] = host /\ t[2] = Top.dev /\ t[3] = Top.fn % FunctionNums
          BY <3>2 DEF Function
        <4>2. Top.fn \in Nat /\ Top.dev \in Nat /\ host \in Nat
          BY <1>1, <3>2, MachineType DEF Frames
        <4>3. Top.fn % FunctionNums \in Nat /\ Top.fn % FunctionNums <= Top.fn
          BY <4>2, ModLeq, PciConstants
        <4> QED BY <1>3, <4>1, <4>2, <4>3 DEF Wanted, Here
      <3>4. t \in OnHostBus
        BY <1>3, <3>2, <3>3 DEF OnHostBus, Wanted
      <3>5. t[3] = Top.fn
        <4>1. t[3] >= Top.fn
          BY <3>2, <3>3, <3>4 DEF Ahead
        <4> QED BY <3>3, <4>1
      <3>6. ASSUME NEW a \in OnHostBus PROVE a = t \/ Before(t, a)
        <4>1. /\ a[1] \in Nat /\ a[2] \in Nat /\ a[3] \in Nat /\ a = <<a[1], a[2], a[3]>>
              /\ t = <<t[1], t[2], t[3]>>
          BY <1>1, <3>3, MachineType
        <4>2. a[1] > host \/ (a[1] = host /\ (a[2] > Top.dev \/ (a[2] = Top.dev /\ a[3] >= Top.fn)))
          BY <3>2 DEF Ahead
        <4> HIDE DEF t
        <4>3. CASE a[1] = host /\ a[2] = Top.dev /\ a[3] = Top.fn
          BY <3>3, <3>5, <4>1, <4>3
        <4> QED BY <3>3, <3>5, <4>1, <4>2, <4>3 DEF Before
      <3> HIDE DEF t
      <3>7. FoundFirst'
        BY <3>1, <3>4, <3>6, SameMachine DEF FoundFirst, Before
      <3> QED BY <1>1, <3>1, <3>7 DEF PciInv
    <2>3. Len(stack) > 1 \/ Len(stack) = 1
      BY <1>1, StackType
    <2> QED BY <2>1, <2>2, <2>3
  <1> QED BY <1>2, <1>3 DEF ScanMatch

\* The search starts on bus 0, with everything ahead of it.
LEMMA PciInitInv == PciInit => PciInv
  <1> SUFFICES ASSUME PciInit PROVE PciInv
    OBVIOUS
  <1>1. machine \in Machines /\ host = 0 /\ stack = <<Frame(0, 0, 0)>> /\ state = "scan" /\ found = dev_zero
    BY DEF PciInit
  <1>2. Frame(0, 0, 0) \in Frames
    BY DEF Frame, Frames
  <1>3. stack \in Seq(Frames) /\ stack # <<>> /\ stack[1] = Frame(0, 0, 0)
    BY <1>1, <1>2
  <1>4. 0 \in HostBuses
    BY PciAssumption DEF HostBuses
  <1>5. Ahead(0, 0, 0)
    <2> SUFFICES ASSUME NEW a \in OnHostBus
                 PROVE  a[1] > 0 \/ (a[1] = 0 /\ (a[2] > 0 \/ (a[2] = 0 /\ a[3] >= 0)))
      BY DEF Ahead
    <2>1. a[1] \in Nat /\ a[2] \in Nat /\ a[3] \in Nat
      BY <1>1, MachineType
    <2> QED BY <2>1
  <1>6. BottomInv(Frame(0, 0, 0))
    BY <1>1, <1>5, PciAssumption DEF BottomInv, Frame
  <1> QED BY <1>1, <1>3, <1>4, <1>6 DEF PciInv, StackInv

\* The bottom frame misses nothing, however the scans behind bridges nest (pci.c:81-164).
THEOREM PciInvariant == PciSpec => []PciInv
  <1>1. PciInv /\ [PciNext]_pciVars => PciInv'
    <2> SUFFICES ASSUME PciInv, [PciNext]_pciVars PROVE PciInv'
      OBVIOUS
    <2>1. CASE UNCHANGED pciVars
      <3>1. UNCHANGED <<machine, host, stack, state, found>>
        BY <2>1 DEF pciVars
      <3>2. FoundFirst' = FoundFirst
        BY <3>1, SameMachine DEF FoundFirst, Before
      <3>3. BottomInv(stack[1])' = BottomInv(stack[1]) /\ StackInv' = StackInv
        BY <3>1, SameMachine DEF BottomInv, StackInv
      <3> QED BY <3>1, <3>2, <3>3 DEF PciInv
    <2> QED BY <2>1, NoDeviceInv, ScanBridgeInv, ScanMatchInv DEF PciNext
  <1> QED BY <1>1, PciInitInv, PTL DEF PciSpec

\* pci_get_device misses no wanted function on the buses of the host controllers, and returns
\* none but a wanted one, the first one there, whatever hides behind bridges (pci.c:81-164).
THEOREM FindsOnHostBusHolds == PciSpec => []FindsOnHostBus
  <1>1. PciInv => FindsOnHostBus
    <2> SUFFICES ASSUME PciInv, state = "done" PROVE FindsOnHostBus
      BY DEF FindsOnHostBus
    <2>1. FoundFirst
      BY DEF PciInv
    <2>2. CASE OnHostBus = {}
      BY <2>1, <2>2 DEF FoundFirst, FindsOnHostBus
    <2>3. CASE OnHostBus # {}
      <3>1. found \in OnHostBus /\ \A a \in OnHostBus : a = found \/ Before(found, a)
        BY <2>1, <2>3 DEF FoundFirst
      <3>2. found # dev_zero /\ Wanted(found)
        BY <3>1 DEF OnHostBus, Wanted, Here
      <3> QED BY <3>1, <3>2 DEF FindsOnHostBus
    <2> QED BY <2>2, <2>3
  <1> QED BY <1>1, PciInvariant, PTL
-----------------------------------------------------------------------------
(***************************************************************************)
(* The console.  As long as no two writes have overlapped, at most one     *)
(* process is in the middle of one, and what is left of it brings the      *)
(* screen in step with the endless terminal (Fits).  Overlapping or not,   *)
(* the row of the cursor makes room for the line end of every printf under *)
(* way (Owing).                                                            *)
(***************************************************************************)

Chars == STRING \cup {"nl", "tab", "key", Blank}
FbType == [x : Nat, y : Int, cell : [Cells -> Chars]]
CtxType == [pc : {"idle", "text", "scroll", "store", "wrap"}, text : Seq(STRING), pos : Int,
            down : BOOLEAN]
TypedType == [line : Seq(Seq(Chars)), top : Nat, drift : Nat, spoiled : BOOLEAN]

LEMMA ConsoleSizes == FB_WIDTH \in Nat \ {0} /\ FB_HEIGHT \in Nat \ {0} /\ VideoRows \in Nat \ {0}
  BY ConsoleAssumption

\* What the parts of fb_write_char and scroll do to the cursor and the cells.
LEMMA WrappedIs ==
  ASSUME NEW f \in FbType
  PROVE  /\ Wrapped(f) \in FbType /\ Wrapped(f).cell = f.cell
         /\ Wrapped(f).x = (IF f.x = FB_WIDTH THEN 0 ELSE f.x)
         /\ Wrapped(f).y = (IF f.x = FB_WIDTH THEN f.y + 1 ELSE f.y)
  <1>1. Wrapped(f) = [x |-> IF f.x = FB_WIDTH THEN 0 ELSE f.x,
                      y |-> IF f.x = FB_WIDTH THEN f.y + 1 ELSE f.y, cell |-> f.cell]
    BY DEF Wrapped, FbType
  <1>2. f.x \in Nat /\ f.y \in Int /\ f.cell \in [Cells -> Chars]
    BY DEF FbType
  <1> QED BY <1>1, <1>2 DEF FbType

LEMMA MovedIs ==
  ASSUME NEW f \in FbType, NEW c
  PROVE  /\ Moved(f, c) \in FbType /\ Moved(f, c).cell = f.cell
         /\ Moved(f, c).x = (IF c = "nl" THEN 0 ELSE f.x + 4)
         /\ Moved(f, c).y = (IF c = "nl" THEN f.y + 1 ELSE f.y)
  <1>1. Moved(f, c) = [x |-> IF c = "nl" THEN 0 ELSE f.x + 4,
                       y |-> IF c = "nl" THEN f.y + 1 ELSE f.y, cell |-> f.cell]
    BY DEF Moved, FbType
  <1>2. f.x \in Nat /\ f.y \in Int /\ f.cell \in [Cells -> Chars]
    BY DEF FbType
  <1> QED BY <1>1, <1>2 DEF FbType

LEMMA StoredIs ==
  ASSUME NEW f \in FbType, NEW pos \in Cells, NEW c \in Chars
  PROVE  /\ Stored(f, pos, c) \in FbType
         /\ Stored(f, pos, c).cell = [f.cell EXCEPT ![pos] = c]
         /\ Stored(f, pos, c).x = f.x + 1 /\ Stored(f, pos, c).y = f.y
  <1>1. Stored(f, pos, c) = [x |-> f.x + 1, y |-> f.y, cell |-> [f.cell EXCEPT ![pos] = c]]
    <2> DEFINE cell == [f.cell EXCEPT ![pos] = c]
    <2>1. Stored(f, pos, c) = [f EXCEPT !.cell = cell, !.x = @ + 1]
      BY DEF Stored
    <2> HIDE DEF cell
    <2>2. Stored(f, pos, c) = [x |-> f.x + 1, y |-> f.y, cell |-> cell]
      BY <2>1 DEF FbType
    <2> QED BY <2>2 DEF cell
  <1>2. f.x \in Nat /\ f.y \in Int /\ f.cell \in [Cells -> Chars]
    BY DEF FbType
  <1> QED BY <1>1, <1>2 DEF FbType

LEMMA ScrolledIs ==
  ASSUME NEW f \in FbType, NEW size \in Int, size < VideoRows - 1
  PROVE  /\ Scrolled(f, size) \in FbType
         /\ Scrolled(f, size).x = f.x /\ Scrolled(f, size).y = f.y - 1
         /\ \A i \in Cells :
              /\ i < size * FB_WIDTH => Scrolled(f, size).cell[i] = f.cell[i + FB_WIDTH]
              /\ i >= size * FB_WIDTH /\ i < (size + 1) * FB_WIDTH
                   => Scrolled(f, size).cell[i] = Blank
              /\ i >= size * FB_WIDTH /\ ~(i < (size + 1) * FB_WIDTH)
                   => Scrolled(f, size).cell[i] = f.cell[i]
  <1> DEFINE V(i) == CASE i < size * FB_WIDTH -> f.cell[i + FB_WIDTH]
                          [] i >= size * FB_WIDTH /\ i < (size + 1) * FB_WIDTH -> Blank
                          [] OTHER -> f.cell[i]
             cell == [i \in Cells |-> V(i)]
  <1>1. f.x \in Nat /\ f.y \in Int /\ f.cell \in [Cells -> Chars]
    BY DEF FbType
  <1>2. Scrolled(f, size) = [x |-> f.x, y |-> f.y - 1, cell |-> cell]
    <2>1. Scrolled(f, size) = [f EXCEPT !.y = @ - 1, !.cell = cell]
      BY DEF Scrolled
    <2> HIDE DEF cell
    <2> QED BY <2>1 DEF FbType
  <1>3. ASSUME NEW i \in Cells PROVE V(i) \in Chars
    <2>1. i < size * FB_WIDTH => i + FB_WIDTH \in Cells
      <3>1. i \in Nat /\ size * FB_WIDTH \in Int /\ FB_WIDTH * VideoRows \in Int
        BY ConsoleSizes DEF Cells
      <3>2. size * FB_WIDTH + FB_WIDTH <= FB_WIDTH * VideoRows
        <4>1. (size + 1) * FB_WIDTH <= VideoRows * FB_WIDTH
          BY ConsoleSizes
        <4> QED BY <4>1, ConsoleSizes
      <3> QED BY <3>1, <3>2, ConsoleSizes DEF Cells
    <2>2. Blank \in Chars
      BY DEF Chars
    <2> QED BY <1>1, <2>1, <2>2
  <1>4. cell \in [Cells -> Chars] /\ \A i \in Cells : cell[i] = V(i)
    <2> HIDE DEF V
    <2> QED BY <1>3
  <1>6. ASSUME NEW i \in Cells
        PROVE  /\ i < size * FB_WIDTH => V(i) = f.cell[i + FB_WIDTH]
               /\ i >= size * FB_WIDTH /\ i < (size + 1) * FB_WIDTH => V(i) = Blank
               /\ i >= size * FB_WIDTH /\ ~(i < (size + 1) * FB_WIDTH) => V(i) = f.cell[i]
    <2>1. i \in Int /\ size * FB_WIDTH \in Int /\ (size + 1) * FB_WIDTH \in Int
      BY ConsoleSizes DEF Cells
    <2> QED BY <2>1
  <1> HIDE DEF cell, V
  <1>5. Scrolled(f, size) \in FbType /\ Scrolled(f, size).x = f.x /\ Scrolled(f, size).y = f.y - 1
        /\ Scrolled(f, size).cell = cell
    BY <1>1, <1>2, <1>4 DEF FbType
  <1> QED BY <1>4, <1>5, <1>6

\* The line a character goes to, after it.
Now(last, c) == CASE c = "nl" -> last [] c = "tab" -> last \o <<Blank, Blank, Blank, Blank>>
                  [] OTHER -> Append(last, c)

LEMMA NowIs ==
  ASSUME NEW last \in Seq(Chars), NEW c \in Chars
  PROVE  /\ Now(last, c) \in Seq(Chars)
         /\ Len(Now(last, c)) = (CASE c = "nl" -> Len(last) [] c = "tab" -> Len(last) + 4
                                   [] OTHER -> Len(last) + 1)
         /\ \A k \in 1 .. Len(last) : Now(last, c)[k] = last[k]
         /\ c = "tab" => \A k \in Len(last) + 1 .. Len(last) + 4 : Now(last, c)[k] = Blank
         /\ c \notin {"nl", "tab"} => Now(last, c)[Len(last) + 1] = c
  <1>1. CASE c = "nl"
    BY <1>1 DEF Now
  <1>2. CASE c = "tab"
    <2>1. Blank \in Chars
      BY DEF Chars
    <2> DEFINE b == <<Blank, Blank, Blank, Blank>>
    <2>2. b \in Seq(Chars) /\ Len(b) = 4 /\ \A k \in 1 .. 4 : b[k] = Blank
      BY <2>1
    <2>3. Now(last, c) = last \o b
      BY <1>2 DEF Now
    <2> HIDE DEF b
    <2>4. /\ last \o b \in Seq(Chars) /\ Len(last \o b) = Len(last) + 4
          /\ \A k \in 1 .. Len(last) : (last \o b)[k] = last[k]
          /\ \A k \in Len(last) + 1 .. Len(last) + 4 : (last \o b)[k] = b[k - Len(last)]
      <3>1. /\ last \o b \in Seq(Chars) /\ Len(last \o b) = Len(last) + Len(b)
            /\ \A k \in 1 .. Len(last) + Len(b) :
                 (last \o b)[k] = IF k <= Len(last) THEN last[k] ELSE b[k - Len(last)]
        BY <2>2, ConcatProperties
      <3> QED BY <2>2, <3>1
    <2>5. \A k \in Len(last) + 1 .. Len(last) + 4 : k - Len(last) \in 1 .. 4
      OBVIOUS
    <2> QED BY <1>2, <2>2, <2>3, <2>4, <2>5
  <1>3. CASE c \notin {"nl", "tab"}
    BY <1>3 DEF Now
  <1> QED BY <1>1, <1>2, <1>3

\* What a character does to the endless terminal.
LEMMA TypedIs ==
  ASSUME NEW t \in TypedType, t.line # <<>>, NEW c \in Chars
  PROVE  LET u    == Typed(t, c)
             n    == Len(t.line)
             now  == Now(t.line[n], c)
             ends == c = "nl" \/ Len(now) = FB_WIDTH
         IN /\ u \in TypedType /\ u.line # <<>> /\ u.top = t.top /\ u.drift = t.drift
            /\ u.spoiled = (t.spoiled \/ Len(now) > FB_WIDTH)
            /\ n \in Nat \ {0} /\ t.line[n] \in Seq(Chars) /\ now \in Seq(Chars)
            /\ Len(u.line) = (IF ends THEN n + 1 ELSE n)
            /\ \A m \in 1 .. n - 1 : u.line[m] = t.line[m]
            /\ u.line[n] = now /\ (ends => u.line[n + 1] = <<>>)
  <1> DEFINE u    == Typed(t, c)
             n    == Len(t.line)
             now  == Now(t.line[n], c)
             ends == c = "nl" \/ Len(now) = FB_WIDTH
             line == [t.line EXCEPT ![n] = now]
             new  == IF ends THEN Append(line, <<>>) ELSE line
  <1>1. t.line \in Seq(Seq(Chars)) /\ t.top \in Nat /\ t.drift \in Nat /\ t.spoiled \in BOOLEAN
    BY DEF TypedType
  <1>2. n \in Nat \ {0} /\ t.line[n] \in Seq(Chars)
    BY <1>1
  <1>3. now \in Seq(Chars) /\ Len(now) \in Nat
    BY <1>2, NowIs
  <1>4. u = [t EXCEPT !.line = new, !.spoiled = @ \/ Len(now) > FB_WIDTH]
    BY DEF Typed, Now
  <1> HIDE DEF now, u
  <1>5. line \in Seq(Seq(Chars)) /\ Len(line) = n /\ line[n] = now /\ \A m \in 1 .. n - 1 : line[m] = t.line[m]
    BY <1>1, <1>2, <1>3
  <1>6. <<>> \in Seq(Chars)
    OBVIOUS
  <1> HIDE DEF line, n
  <1>7. /\ new \in Seq(Seq(Chars)) /\ Len(new) = (IF ends THEN n + 1 ELSE n)
        /\ \A m \in 1 .. n - 1 : new[m] = t.line[m]
        /\ new[n] = now /\ (ends => new[n + 1] = <<>>)
    <2>1. CASE ends
      <3>1. new = Append(line, <<>>)
        BY <2>1
      <3>2. /\ new \in Seq(Seq(Chars)) /\ Len(new) = Len(line) + 1 /\ new[Len(line) + 1] = <<>>
            /\ \A m \in 1 .. Len(line) : new[m] = line[m]
        BY <3>1, <1>5, <1>6, AppendProperties
      <3> HIDE DEF new, ends
      <3>3. \A m \in 1 .. n : new[m] = line[m]
        BY <3>2, <1>5
      <3>4. new[n] = now /\ \A m \in 1 .. n - 1 : new[m] = t.line[m]
        BY <3>3, <1>2, <1>5
      <3> QED BY <2>1, <3>2, <3>4, <1>5
    <2>2. CASE ~ends
      BY <1>2, <1>5, <2>2
    <2> QED BY <2>1, <2>2
  <1> HIDE DEF new, ends
  <1>8. u = [line |-> new, top |-> t.top, drift |-> t.drift, spoiled |-> (t.spoiled \/ Len(now) > FB_WIDTH)]
    BY <1>4 DEF TypedType
  <1>9. (t.spoiled \/ Len(now) > FB_WIDTH) \in BOOLEAN
    BY <1>1
  <1>10. u \in TypedType
    BY <1>1, <1>7, <1>8, <1>9 DEF TypedType
  <1>11. u.line = new /\ u.top = t.top /\ u.drift = t.drift /\ u.spoiled = (t.spoiled \/ Len(now) > FB_WIDTH)
    BY <1>8
  <1>12. new # <<>>
    BY <1>2, <1>7
  <1> QED BY <1>2, <1>3, <1>7, <1>10, <1>11, <1>12 DEF u, n, now, ends

\* What an endless terminal shows at a cell of the screen.
Glyph(t, i) ==
  LET n == t.top + (i \div FB_WIDTH) + 1
      k == (i % FB_WIDTH) + 1
  IN IF n <= Len(t.line) /\ k <= Len(t.line[n]) THEN t.line[n][k] ELSE Blank

\* The screen is the tail of what was written, and the cursor at its end.
Shown(f, t) ==
  /\ t.top + f.y + 1 = Len(t.line)
  /\ f.x = Len(t.line[Len(t.line)]) /\ f.x < FB_WIDTH
  /\ \A i \in Cells : f.cell[i] = Glyph(t, i)

\* The row and the column of a cell, and the cell of a position.
LEMMA RowAndColumn ==
  ASSUME NEW i \in Cells
  PROVE  /\ i \in Nat /\ i \div FB_WIDTH \in Nat /\ i % FB_WIDTH \in 0 .. FB_WIDTH - 1
         /\ i = (i \div FB_WIDTH) * FB_WIDTH + (i % FB_WIDTH)
  <1>1. i \in Nat
    BY ConsoleSizes DEF Cells
  <1> QED BY <1>1, DivMod, ConsoleSizes

LEMMA CellOfPos ==
  ASSUME NEW f \in FbType, f.x < FB_WIDTH, Pos(f) \in Cells, NEW i \in Cells
  PROVE  i = Pos(f) <=> (i \div FB_WIDTH = f.y /\ i % FB_WIDTH = f.x)
  <1>1. f.x \in Nat /\ f.y \in Int /\ Pos(f) = f.y * FB_WIDTH + f.x /\ Pos(f) \in Nat
    BY ConsoleSizes DEF FbType, Pos, Cells
  <1>2. f.y \in Nat
    <2>1. ASSUME f.y <= 0 - 1 PROVE FALSE
      <3>1. f.y * FB_WIDTH <= (0 - 1) * FB_WIDTH
        BY <1>1, <2>1, ConsoleSizes
      <3> QED BY <1>1, <3>1, ConsoleSizes
    <2> QED BY <1>1, <2>1
  <1>3. Pos(f) \div FB_WIDTH = f.y /\ Pos(f) % FB_WIDTH = f.x
    <2>1. f.x \in 0 .. FB_WIDTH - 1
      BY <1>1, ConsoleSizes
    <2>2. (f.y * FB_WIDTH + f.x) % FB_WIDTH = f.x /\ (f.y * FB_WIDTH + f.x) \div FB_WIDTH = f.y
      BY <1>2, <2>1, DivModUnique, ConsoleSizes
    <2> QED BY <1>1, <2>2
  <1>4. i = (i \div FB_WIDTH) * FB_WIDTH + (i % FB_WIDTH)
    BY RowAndColumn
  <1> QED BY <1>1, <1>3, <1>4

\* fb_write_char keeps the screen in step with the endless terminal.
LEMMA WriteShown ==
  ASSUME NEW f \in FbType, NEW t \in TypedType, t.line # <<>>, NEW c \in Chars,
         Shown(f, t), ~Typed(t, c).spoiled, c \in {"nl", "tab"} \/ Pos(f) \in Cells
  PROVE  Shown(fb_write_char(f, c), Typed(t, c))
  <1> DEFINE g    == fb_write_char(f, c)
             u    == Typed(t, c)
             n    == Len(t.line)
             last == t.line[n]
             now  == Now(last, c)
             ends == c = "nl" \/ Len(now) = FB_WIDTH
  <1>1. /\ u.top = t.top /\ u.line # <<>>
        /\ n \in Nat \ {0} /\ last \in Seq(Chars) /\ now \in Seq(Chars)
        /\ Len(u.line) = (IF ends THEN n + 1 ELSE n)
        /\ \A m \in 1 .. n - 1 : u.line[m] = t.line[m]
        /\ u.line[n] = now /\ (ends => u.line[n + 1] = <<>>)
    BY TypedIs
  <1>2. ~(Len(now) > FB_WIDTH)
    BY TypedIs
  <1>3. /\ Len(now) = (CASE c = "nl" -> Len(last) [] c = "tab" -> Len(last) + 4
                                   [] OTHER -> Len(last) + 1)
        /\ \A k \in 1 .. Len(last) : now[k] = last[k]
        /\ c = "tab" => \A k \in Len(last) + 1 .. Len(last) + 4 : now[k] = Blank
        /\ c \notin {"nl", "tab"} => now[Len(last) + 1] = c
    BY <1>1, NowIs
  <1>4. /\ f.x \in Nat /\ f.y \in Int /\ f.cell \in [Cells -> Chars] /\ t.top \in Nat
        /\ t.top + f.y + 1 = n /\ f.x = Len(last) /\ f.x < FB_WIDTH
        /\ \A i \in Cells : f.cell[i] = Glyph(t, i)
    BY DEF Shown, FbType, TypedType
  <1>5. /\ g.y = (IF ends THEN f.y + 1 ELSE f.y) /\ g.x = (IF ends THEN 0 ELSE Len(now))
        /\ g.cell = (IF c \in {"nl", "tab"} THEN f.cell ELSE [f.cell EXCEPT ![Pos(f)] = c])
    <2> HIDE DEF now, last
    <2>1. CASE c = "nl"
      <3>1. g = Wrapped(Moved(f, c))
        BY <2>1 DEF fb_write_char
      <3>2. Moved(f, c) \in FbType /\ Moved(f, c).cell = f.cell /\ Moved(f, c).x = 0 /\ Moved(f, c).y = f.y + 1
        BY <2>1, MovedIs
      <3>3. g.cell = f.cell /\ g.x = 0 /\ g.y = f.y + 1
        BY <3>1, <3>2, WrappedIs, ConsoleSizes
      <3> QED BY <2>1, <3>3
    <2>2. CASE c = "tab"
      <3>1. g = Wrapped(Moved(f, c))
        BY <2>2 DEF fb_write_char
      <3>2. /\ Moved(f, c) \in FbType /\ Moved(f, c).cell = f.cell /\ Moved(f, c).x = f.x + 4
            /\ Moved(f, c).y = f.y
        BY <2>2, MovedIs
      <3>3. Len(now) = f.x + 4
        BY <1>3, <1>4, <2>2
      <3>4. /\ g.cell = f.cell /\ g.x = (IF f.x + 4 = FB_WIDTH THEN 0 ELSE f.x + 4)
            /\ g.y = (IF f.x + 4 = FB_WIDTH THEN f.y + 1 ELSE f.y)
        BY <3>1, <3>2, WrappedIs
      <3> QED BY <2>2, <3>3, <3>4
    <2>3. CASE c \notin {"nl", "tab"}
      <3> DEFINE h == Stored(f, Pos(f), c)
      <3>1. g = Wrapped(h)
        BY <2>3 DEF fb_write_char
      <3>2. h \in FbType /\ h.cell = [f.cell EXCEPT ![Pos(f)] = c] /\ h.x = f.x + 1 /\ h.y = f.y
        BY <2>3, StoredIs
      <3> HIDE DEF h, g
      <3>3. Len(now) = f.x + 1
        BY <1>3, <1>4, <2>3
      <3>4. /\ g.cell = [f.cell EXCEPT ![Pos(f)] = c]
            /\ g.x = (IF f.x + 1 = FB_WIDTH THEN 0 ELSE f.x + 1)
            /\ g.y = (IF f.x + 1 = FB_WIDTH THEN f.y + 1 ELSE f.y)
        BY <3>1, <3>2, WrappedIs
      <3> QED BY <2>3, <3>3, <3>4
    <2> QED BY <2>1, <2>2, <2>3
  <1> HIDE DEF g, u, now, last, n, ends
  <1>6. u.top + g.y + 1 = Len(u.line) /\ g.x = Len(u.line[Len(u.line)]) /\ g.x < FB_WIDTH
    <2>1. CASE ends
      <3>1. u.line[Len(u.line)] = <<>>
        BY <1>1, <2>1
      <3> QED BY <1>1, <1>4, <1>5, <2>1, <3>1, ConsoleSizes
    <2>2. CASE ~ends
      <3>1. Len(now) \in Nat /\ Len(now) # FB_WIDTH
        BY <1>1, <2>2 DEF ends
      <3> QED BY <1>1, <1>2, <1>4, <1>5, <2>2, <3>1, ConsoleSizes
    <2> QED BY <2>1, <2>2
  <1>7. /\ f.x \in Nat /\ f.y \in Int /\ t.top \in Nat /\ n \in Nat \ {0} /\ t.top + f.y + 1 = n
        /\ Len(last) \in Nat /\ f.x = Len(last)
    BY <1>1, <1>4
  <1>8. ASSUME NEW i \in Cells PROVE g.cell[i] = Glyph(u, i)
    <2> DEFINE row == i \div FB_WIDTH
               col == i % FB_WIDTH
               m   == t.top + row + 1
               k   == col + 1
    <2>1. row \in Nat /\ col \in Nat
      BY RowAndColumn, ConsoleSizes
    <2>2. f.cell[i] = IF m <= n /\ k <= Len(t.line[m]) THEN t.line[m][k] ELSE Blank
      BY <1>4 DEF Glyph, n
    <2>3. Glyph(u, i) = IF m <= Len(u.line) /\ k <= Len(u.line[m]) THEN u.line[m][k] ELSE Blank
      BY <1>1 DEF Glyph
    <2>4. g.cell[i] = IF c \notin {"nl", "tab"} /\ row = f.y /\ col = f.x THEN c ELSE f.cell[i]
      <3>1. CASE c \in {"nl", "tab"}
        BY <1>5, <3>1
      <3>2. CASE c \notin {"nl", "tab"}
        <4>1. i = Pos(f) <=> (row = f.y /\ col = f.x)
          BY <1>4, <3>2, CellOfPos
        <4>2. g.cell[i] = IF i = Pos(f) THEN c ELSE f.cell[i]
          BY <1>4, <1>5, <3>2
        <4> QED BY <3>2, <4>1, <4>2
      <3> QED BY <3>1, <3>2
    <2> HIDE DEF row, col
    <2>5. m \in Nat /\ (row = f.y <=> m = n) /\ k \in Nat \ {0}
      BY <1>7, <2>1
    <2> HIDE DEF m, k
    <2>6. CASE m < n
      <3>1. m \in 1 .. n - 1 /\ m <= n /\ m # n
        <4>1. m >= 1
          BY <1>7, <2>1 DEF m
        <4> QED BY <1>7, <2>5, <2>6, <4>1
      <3>2. u.line[m] = t.line[m] /\ m <= Len(u.line) /\ row # f.y
        BY <1>1, <2>5, <3>1
      <3> QED BY <2>2, <2>3, <2>4, <3>1, <3>2
    <2>7. CASE m > n
      <3>1. f.cell[i] = Blank /\ row # f.y
        BY <1>1, <2>2, <2>5, <2>7
      <3>2. m <= Len(u.line) => u.line[m] = <<>>
        BY <1>1, <2>5, <2>7
      <3>3. Len(<<>>) = 0
        OBVIOUS
      <3>4. Glyph(u, i) = Blank
        BY <2>3, <2>5, <3>2, <3>3
      <3> QED BY <2>4, <3>1, <3>4
    <2>8. CASE m = n
      <3>1. u.line[m] = now /\ m <= Len(u.line) /\ row = f.y /\ t.line[m] = last
        BY <1>1, <2>5, <2>8 DEF last
      <3>2. Glyph(u, i) = IF k <= Len(now) THEN now[k] ELSE Blank
        BY <2>3, <3>1
      <3>3. f.cell[i] = IF k <= Len(last) THEN last[k] ELSE Blank
        BY <2>2, <2>8, <3>1, <1>1
      <3>4. Len(last) \in Nat /\ (col = f.x <=> k = Len(last) + 1)
        BY <1>7, <2>1 DEF k
      <3>5. CASE c = "nl"
        BY <1>3, <2>4, <2>5, <3>2, <3>3, <3>4, <3>5
      <3>6. CASE c = "tab"
        BY <1>3, <2>4, <2>5, <3>2, <3>3, <3>4, <3>6
      <3>7. CASE c \notin {"nl", "tab"}
        <4>1. Len(now) = Len(last) + 1 /\ now[Len(last) + 1] = c
          BY <1>3, <3>7
        <4>2. g.cell[i] = IF k = Len(last) + 1 THEN c ELSE f.cell[i]
          BY <2>4, <3>1, <3>4, <3>7
        <4> QED BY <1>3, <2>5, <3>2, <3>3, <3>4, <4>1, <4>2
      <3> QED BY <3>5, <3>6, <3>7
    <2> QED BY <1>1, <2>5, <2>6, <2>7, <2>8
  <1> QED BY <1>6, <1>8 DEF Shown, g, u

\* A scroll moves the screen one line down the endless terminal.
LEMMA ScrollShown ==
  ASSUME NEW f \in FbType, NEW t \in TypedType, NEW u \in TypedType, f.y \in Nat, f.y < VideoRows - 1,
         Shown(f, t), u.line = t.line, u.top = t.top + 1
  PROVE  Shown(Scrolled(f, f.y), u)
  <1> DEFINE g == Scrolled(f, f.y)
             n == Len(t.line)
  <1>1. f.x \in Nat /\ f.y \in Nat /\ t.top \in Nat /\ f.y * FB_WIDTH \in Nat
    BY ConsoleSizes DEF FbType, TypedType
  <1>2. /\ g.x = f.x /\ g.y = f.y - 1
        /\ \A i \in Cells :
             /\ i < f.y * FB_WIDTH => g.cell[i] = f.cell[i + FB_WIDTH]
             /\ i >= f.y * FB_WIDTH /\ i < (f.y + 1) * FB_WIDTH => g.cell[i] = Blank
             /\ i >= f.y * FB_WIDTH /\ ~(i < (f.y + 1) * FB_WIDTH) => g.cell[i] = f.cell[i]
    BY ScrolledIs
  <1>3. t.top + f.y + 1 = n /\ f.x = Len(t.line[n]) /\ f.x < FB_WIDTH /\ \A i \in Cells : f.cell[i] = Glyph(t, i)
    BY DEF Shown
  <1>6. /\ \A r \in Nat : r >= f.y => ~(t.top + 1 + r + 1 <= n)
        /\ \A r \in Nat : r >= f.y + 1 => ~(t.top + r + 1 <= n)
    <2> HIDE DEF n
    <2> QED BY <1>1, <1>3
  <1> HIDE DEF g
  <1>4. u.top + g.y + 1 = Len(u.line) /\ g.x = Len(u.line[Len(u.line)]) /\ g.x < FB_WIDTH
    BY <1>1, <1>2, <1>3
  <1>5. ASSUME NEW i \in Cells PROVE g.cell[i] = Glyph(u, i)
    <2> DEFINE row == i \div FB_WIDTH
               col == i % FB_WIDTH
    <2>1. i \in Nat /\ row \in Nat /\ col \in 0 .. FB_WIDTH - 1 /\ i = row * FB_WIDTH + col
      BY RowAndColumn
    <2>2. Glyph(u, i) = IF t.top + 1 + row + 1 <= n /\ col + 1 <= Len(t.line[t.top + 1 + row + 1])
                        THEN t.line[t.top + 1 + row + 1][col + 1] ELSE Blank
      BY DEF Glyph
    <2>3. Glyph(t, i) = IF t.top + row + 1 <= n /\ col + 1 <= Len(t.line[t.top + row + 1])
                        THEN t.line[t.top + row + 1][col + 1] ELSE Blank
      BY DEF Glyph
    <2>4. CASE i < f.y * FB_WIDTH
      <3> DEFINE j == i + FB_WIDTH
      <3>1. j \in Cells
        <4>1. (f.y + 1) * FB_WIDTH <= VideoRows * FB_WIDTH
          BY <1>1, ConsoleSizes
        <4>2. f.y * FB_WIDTH + FB_WIDTH <= FB_WIDTH * VideoRows
          BY <1>1, <4>1, ConsoleSizes
        <4>3. FB_WIDTH * VideoRows \in Nat
          BY ConsoleSizes
        <4> QED BY <1>1, <2>1, <2>4, <4>2, <4>3, ConsoleSizes DEF Cells
      <3>2. j \div FB_WIDTH = row + 1 /\ j % FB_WIDTH = col
        <4>1. j = (row + 1) * FB_WIDTH + col
          BY <2>1, ConsoleSizes
        <4> HIDE DEF j, row, col
        <4>2. row + 1 \in Nat
          BY <2>1
        <4> QED BY <2>1, <4>1, <4>2, DivModUnique, ConsoleSizes
      <3> HIDE DEF j
      <3>3. Glyph(t, j) = IF t.top + (row + 1) + 1 <= n /\ col + 1 <= Len(t.line[t.top + (row + 1) + 1])
                          THEN t.line[t.top + (row + 1) + 1][col + 1] ELSE Blank
        BY <3>2 DEF Glyph
      <3>4. t.top + (row + 1) + 1 = t.top + 1 + row + 1
        BY <1>1, <2>1
      <3>5. g.cell[i] = Glyph(t, j)
        <4>1. g.cell[i] = f.cell[j]
          BY <1>2, <2>4 DEF j
        <4> QED BY <1>3, <3>1, <4>1
      <3> QED BY <2>2, <3>3, <3>4, <3>5
    <2>5. CASE ~(i < f.y * FB_WIDTH)
      <3>1. row >= f.y
        <4>1. ASSUME row + 1 <= f.y PROVE FALSE
          <5>1. (row + 1) * FB_WIDTH <= f.y * FB_WIDTH
            BY <1>1, <2>1, <4>1, ConsoleSizes
          <5>2. row * FB_WIDTH + FB_WIDTH <= f.y * FB_WIDTH
            BY <1>1, <2>1, <5>1, ConsoleSizes
          <5> HIDE DEF row, col
          <5>3. row * FB_WIDTH \in Nat
            BY <2>1, ConsoleSizes
          <5> QED BY <1>1, <2>1, <2>5, <5>2, <5>3, ConsoleSizes
        <4> QED BY <1>1, <2>1, <4>1
      <3>2. Glyph(u, i) = Blank
        BY <1>6, <2>1, <2>2, <3>1
      <3>5. i >= f.y * FB_WIDTH
        BY <1>1, <2>1, <2>5
      <3>3. CASE i < (f.y + 1) * FB_WIDTH
        BY <1>2, <3>2, <3>3, <3>5
      <3>4. CASE ~(i < (f.y + 1) * FB_WIDTH)
        <4>1. row >= f.y + 1
          <5>1. ASSUME row + 1 <= f.y + 1 PROVE FALSE
            <6>1. (row + 1) * FB_WIDTH <= (f.y + 1) * FB_WIDTH
              BY <1>1, <2>1, <5>1, ConsoleSizes
            <6>2. row * FB_WIDTH + FB_WIDTH <= (f.y + 1) * FB_WIDTH
              BY <1>1, <2>1, <6>1, ConsoleSizes
            <6> HIDE DEF row, col
            <6>3. row * FB_WIDTH \in Nat /\ (f.y + 1) * FB_WIDTH \in Nat
              BY <1>1, <2>1, ConsoleSizes
            <6> QED BY <2>1, <3>4, <6>2, <6>3, ConsoleSizes
          <5> QED BY <1>1, <2>1, <5>1
        <4>2. Glyph(t, i) = Blank
          BY <1>6, <2>1, <2>3, <4>1
        <4>3. g.cell[i] = f.cell[i]
          BY <1>2, <3>4, <3>5
        <4> QED BY <1>3, <3>2, <4>2, <4>3
      <3> QED BY <3>3, <3>4
    <2> QED BY <2>4, <2>5
  <1> QED BY <1>4, <1>5 DEF Shown, g

\* The processes whose printf has made room for a line end that is still to come.
Owes(me) == me.pc \notin {"idle", "scroll"} /\ ~me.down
Owing == {p \in Processes : Owes(ctx[p])}

ConsoleType ==
  /\ fb \in FbType /\ typed \in TypedType /\ typed.line # <<>>
  /\ ctx \in [Processes -> CtxType]
  /\ \A p \in Processes : /\ ctx[p].pc # "idle" => ctx[p].text # <<>>
                          /\ ctx[p].pc = "store" => ctx[p].pos \in Cells

CursorInv == fb.y + Cardinality(Owing) <= FB_HEIGHT + typed.drift

\* What is left of the write a process is in the middle of will bring the screen in step.
Fits(me, f, t) ==
  CASE me.pc = "scroll" -> me.pos = f.y /\ me.pos >= FB_HEIGHT /\ Shown(f, t)
    [] me.pc = "store"  -> Shown(Wrapped(Stored(f, me.pos, Head(me.text))), t)
    [] me.pc = "wrap"   -> Shown(Wrapped(f), t)
    [] OTHER            -> Shown(f, t)

ScreenInv ==
  ~typed.spoiled =>
    /\ \A p, q \in Processes : Inside(p) /\ Inside(q) => p = q
    /\ Settled => Shown(fb, typed)
    /\ \A p \in Processes : Inside(p) => Fits(ctx[p], fb, typed)

\* The inductive invariant.
ConsoleInv == ConsoleType /\ CursorInv /\ ScreenInv

LEMMA SameShown ==
  ASSUME NEW f, NEW t, NEW u, u.line = t.line, u.top = t.top
  PROVE  Shown(f, u) = Shown(f, t)
  BY DEF Shown, Glyph

LEMMA SameFits ==
  ASSUME NEW me, NEW f, NEW t, NEW u, u.line = t.line, u.top = t.top, Fits(me, f, t)
  PROVE  Fits(me, f, u)
  <1>1. \A g : Shown(g, u) = Shown(g, t)
    BY SameShown
  <1> QED BY <1>1 DEF Fits

\* What the marks of the history change.
LEMMA OverlapIs ==
  ASSUME NEW t \in TypedType, NEW p
  PROVE  /\ Overlap(t, p) \in TypedType
         /\ Overlap(t, p).line = t.line /\ Overlap(t, p).top = t.top /\ Overlap(t, p).drift = t.drift
         /\ ~Overlap(t, p).spoiled => ~t.spoiled /\ ~Spoils(p)
  <1> DEFINE s == Spoils(p)
  <1>1. s \in BOOLEAN
    BY DEF Spoils
  <1>2. Overlap(t, p) = [t EXCEPT !.spoiled = @ \/ s]
    BY DEF Overlap
  <1> HIDE DEF s
  <1>3. t.line \in Seq(Seq(Chars)) /\ t.top \in Nat /\ t.drift \in Nat /\ t.spoiled \in BOOLEAN
    BY DEF TypedType
  <1>4. Overlap(t, p) = [line |-> t.line, top |-> t.top, drift |-> t.drift, spoiled |-> (t.spoiled \/ s)]
    BY <1>2 DEF TypedType
  <1>5. (t.spoiled \/ s) \in BOOLEAN
    BY <1>1, <1>3
  <1>6. Overlap(t, p) \in TypedType
    BY <1>3, <1>4, <1>5 DEF TypedType
  <1>7. Overlap(t, p).spoiled = (t.spoiled \/ s)
    BY <1>4
  <1>8. ~Overlap(t, p).spoiled => ~t.spoiled /\ ~s
    BY <1>7
  <1> QED BY <1>4, <1>6, <1>8 DEF s

LEMMA DriftIs ==
  ASSUME NEW t \in TypedType, NEW n \in Nat
  PROVE  LET u == [t EXCEPT !.drift = n]
         IN /\ u \in TypedType /\ u.line = t.line /\ u.top = t.top /\ u.drift = n
            /\ u.spoiled = t.spoiled
  <1> DEFINE u == [t EXCEPT !.drift = n]
  <1>1. u = [line |-> t.line, top |-> t.top, drift |-> n, spoiled |-> t.spoiled]
    BY DEF TypedType
  <1>2. t.line \in Seq(Seq(Chars)) /\ t.top \in Nat /\ t.drift \in Nat /\ t.spoiled \in BOOLEAN
    BY DEF TypedType
  <1> HIDE DEF u
  <1>3. u \in TypedType
    BY <1>1, <1>2 DEF TypedType
  <1>4. u.line = t.line /\ u.top = t.top /\ u.drift = n /\ u.spoiled = t.spoiled
    BY <1>1
  <1> QED BY <1>3, <1>4 DEF u

LEMMA DownIs ==
  ASSUME NEW t \in TypedType, NEW p, NEW n
  PROVE  /\ Down(t, p, n) \in TypedType
         /\ Down(t, p, n).line = t.line /\ Down(t, p, n).top = t.top
         /\ Down(t, p, n).spoiled = t.spoiled
         /\ Down(t, p, n).drift = (IF n = 1 /\ ctx[p].down THEN t.drift + 1 ELSE t.drift)
  <1> DEFINE m == IF n = 1 /\ ctx[p].down THEN t.drift + 1 ELSE t.drift
  <1>1. m \in Nat
    BY DEF TypedType
  <1>2. Down(t, p, n) = [t EXCEPT !.drift = m]
    BY DEF Down
  <1> HIDE DEF m
  <1>3. /\ Down(t, p, n) \in TypedType /\ Down(t, p, n).drift = m
        /\ Down(t, p, n).line = t.line /\ Down(t, p, n).top = t.top
        /\ Down(t, p, n).spoiled = t.spoiled
    BY <1>1, <1>2, DriftIs
  <1> QED BY <1>3 DEF m

\* The processes that owe a line end, before and after a step of p.
LEMMA OwingStep ==
  ASSUME ctx \in [Processes -> CtxType], NEW p \in Processes, NEW r \in CtxType,
         ctx' = [ctx EXCEPT ![p] = r]
  PROVE  /\ Cardinality(Owing) \in Nat /\ Cardinality(Owing') \in Nat
         /\ Cardinality(Owing') = Cardinality(Owing) + (IF Owes(r) THEN 1 ELSE 0)
                                                     - (IF Owes(ctx[p]) THEN 1 ELSE 0)
  <1>1. IsFiniteSet(Processes)
    BY ConsoleAssumption
  <1>2. Owing \subseteq Processes /\ IsFiniteSet(Owing)
    BY <1>1, FS_Subset DEF Owing
  <1>3. Owing' = IF Owes(r) THEN Owing \cup {p} ELSE Owing \ {p}
    BY DEF Owing, Owes
  <1>4. p \in Owing <=> Owes(ctx[p])
    BY DEF Owing
  <1>5. Cardinality(Owing) \in Nat
    BY <1>2, FS_CardinalityType
  <1>6. Cardinality(Owing \cup {p}) = IF p \in Owing THEN Cardinality(Owing) ELSE Cardinality(Owing) + 1
    BY <1>2, FS_AddElement
  <1>7. Cardinality(Owing \ {p}) = IF p \in Owing THEN Cardinality(Owing) - 1 ELSE Cardinality(Owing)
    BY <1>2, FS_RemoveElement
  <1>8. IsFiniteSet(Owing \cup {p}) /\ IsFiniteSet(Owing \ {p})
    BY <1>2, FS_AddElement, FS_RemoveElement
  <1>9. Cardinality(Owing \cup {p}) \in Nat /\ Cardinality(Owing \ {p}) \in Nat
    BY <1>8, FS_CardinalityType
  <1>10. CASE Owes(r)
    BY <1>3, <1>4, <1>5, <1>6, <1>9, <1>10
  <1>11. CASE ~Owes(r)
    BY <1>3, <1>4, <1>5, <1>7, <1>9, <1>11
  <1> QED BY <1>10, <1>11

\* A step of p while no other process is in the middle of a write.
LEMMA ScreenNow ==
  ASSUME ScreenInv, ~typed.spoiled, NEW p \in Processes, ~Spoils(p)
  PROVE  Fits(ctx[p], fb, typed)
  <1>1. CASE Inside(p)
    BY <1>1 DEF ScreenInv
  <1>2. CASE ~Inside(p)
    <2>1. Settled
      BY <1>2 DEF Settled, Spoils
    <2>2. Shown(fb, typed)
      BY <2>1 DEF ScreenInv
    <2>3. ctx[p].pc \notin {"scroll", "store", "wrap"}
      BY <1>2 DEF Inside
    <2> QED BY <2>2, <2>3 DEF Fits
  <1> QED BY <1>1, <1>2

LEMMA ScreenStep ==
  ASSUME ctx \in [Processes -> CtxType], NEW p \in Processes, NEW r \in CtxType,
         ctx' = [ctx EXCEPT ![p] = r],
         ~typed'.spoiled => ~Spoils(p) /\ Fits(r, fb', typed')
  PROVE  ScreenInv'
  <1> SUFFICES ASSUME ~typed'.spoiled
               PROVE  /\ \A i, j \in Processes : Inside(i)' /\ Inside(j)' => i = j
                      /\ Settled' => Shown(fb', typed')
                      /\ \A q \in Processes : Inside(q)' => Fits(ctx'[q], fb', typed')
    BY DEF ScreenInv
  <1>1. ctx'[p] = r /\ \A q \in Processes \ {p} : ctx'[q] = ctx[q]
    OBVIOUS
  <1>2. \A q \in Processes \ {p} : ~Inside(q)'
    <2>1. \A q \in Processes \ {p} : ~Inside(q)
      BY DEF Spoils
    <2> QED BY <1>1, <2>1 DEF Inside
  <1>3. Fits(r, fb', typed')
    OBVIOUS
  <1>4. Settled' => r.pc \notin {"scroll", "store", "wrap"}
    BY <1>1 DEF Settled, Inside
  <1>5. Settled' => Shown(fb', typed')
    BY <1>3, <1>4 DEF Fits
  <1> QED BY <1>1, <1>2, <1>3, <1>5

\* The type of ctx after a step of p.
LEMMA CtxStep ==
  ASSUME ConsoleType, NEW p \in Processes, NEW r \in CtxType, ctx' = [ctx EXCEPT ![p] = r],
         r.pc # "idle" => r.text # <<>>, r.pc = "store" => r.pos \in Cells,
         fb' \in FbType, typed' \in TypedType, typed'.line # <<>>
  PROVE  ConsoleType'
  BY DEF ConsoleType

LEMMA MeType ==
  ASSUME ConsoleType, NEW p \in Processes
  PROVE  /\ ctx[p] \in CtxType /\ ctx[p].text \in Seq(STRING) /\ ctx[p].pos \in Int
         /\ ctx[p].down \in BOOLEAN
         /\ ctx[p].pc # "idle" => /\ ctx[p].text # <<>> /\ Head(ctx[p].text) \in STRING
                                  /\ Head(ctx[p].text) \in Chars
         /\ ctx[p].pc = "store" => ctx[p].pos \in Cells
  <1>1. ctx[p] \in CtxType
    BY DEF ConsoleType
  <1>2. ctx[p].text \in Seq(STRING) /\ ctx[p].pos \in Int /\ ctx[p].down \in BOOLEAN
    BY <1>1 DEF CtxType
  <1>3. ctx[p].pc # "idle" => ctx[p].text # <<>>
    BY DEF ConsoleType
  <1>4. ctx[p].pc # "idle" => Head(ctx[p].text) \in STRING
    BY <1>2, <1>3
  <1> QED BY <1>1, <1>2, <1>3, <1>4 DEF ConsoleType, Chars

LEMMA printfInv ==
  ASSUME ConsoleInv, NEW p \in Processes, NEW text \in Texts, printf(p, text)
  PROVE  ConsoleInv'
  <1> DEFINE r == [pc |-> IF fb.y < FB_HEIGHT THEN "text" ELSE "scroll",
                   text |-> text, pos |-> fb.y, down |-> FALSE]
             busy == \E q \in Processes \ {p} : ctx[q].pc # "idle"
             n == IF busy THEN typed.drift + 1 ELSE typed.drift
  <1>1. /\ ConsoleType /\ fb \in FbType /\ typed \in TypedType /\ typed.line # <<>>
        /\ ctx \in [Processes -> CtxType] /\ fb.y \in Int /\ typed.drift \in Nat
    BY DEF ConsoleInv, ConsoleType, FbType, TypedType
  <1>2. text \in Seq(STRING) /\ text # <<>>
    BY ConsoleAssumption
  <1>3. r \in CtxType /\ r.text # <<>> /\ r.pc # "store" /\ r.pc # "idle" /\ ~r.down
    BY <1>1, <1>2 DEF CtxType
  <1>4. ctx' = [ctx EXCEPT ![p] = r] /\ fb' = fb /\ ctx[p].pc = "idle"
    BY DEF printf
  <1>5. n \in Nat
    BY <1>1
  <1>6. /\ typed' \in TypedType /\ typed'.line = typed.line /\ typed'.top = typed.top /\ typed'.drift = n
        /\ ~typed'.spoiled => ~typed.spoiled /\ ~Spoils(p)
    <2> DEFINE o == Overlap(typed, p)
    <2>1. /\ o \in TypedType /\ o.line = typed.line /\ o.top = typed.top /\ o.drift = typed.drift
          /\ ~o.spoiled => ~typed.spoiled /\ ~Spoils(p)
      BY <1>1, OverlapIs
    <2>2. typed' = [o EXCEPT !.drift = IF busy THEN o.drift + 1 ELSE o.drift]
      BY DEF printf
    <2>3. typed' = [o EXCEPT !.drift = n]
      BY <2>1, <2>2
    <2> HIDE DEF o, n
    <2> QED BY <1>5, <2>1, <2>3, DriftIs
  <1> HIDE DEF n
  <1>7. ConsoleType'
    BY <1>1, <1>3, <1>4, <1>6, CtxStep
  <1>8. CursorInv'
    <2>1. /\ Cardinality(Owing) \in Nat /\ Cardinality(Owing') \in Nat /\ ~Owes(ctx[p])
          /\ Cardinality(Owing') = Cardinality(Owing) + (IF Owes(r) THEN 1 ELSE 0)
                                                      - (IF Owes(ctx[p]) THEN 1 ELSE 0)
      BY <1>1, <1>3, <1>4, OwingStep DEF Owes
    <2>2. fb.y + Cardinality(Owing) <= FB_HEIGHT + typed.drift
      BY DEF ConsoleInv, CursorInv
    <2>3. CASE busy
      <3>1. n = typed.drift + 1
        BY <2>3 DEF n
      <3>2. Cardinality(Owing') <= Cardinality(Owing) + 1
        BY <2>1
      <3> QED BY <1>1, <1>4, <1>6, <2>1, <2>2, <3>1, <3>2, ConsoleSizes DEF CursorInv
    <2>4. CASE ~busy
      <3>1. n = typed.drift
        BY <2>4 DEF n
      <3>2. Owing = {}
        BY <1>4, <2>4 DEF Owing, Owes
      <3>3. Cardinality(Owing) = 0
        BY <3>2, FS_EmptySet
      <3>4. CASE fb.y < FB_HEIGHT
        <4>1. Cardinality(Owing') <= 1
          BY <2>1, <3>3
        <4> QED BY <1>1, <1>4, <1>6, <2>1, <3>1, <3>4, <4>1, ConsoleSizes DEF CursorInv
      <3>5. CASE ~(fb.y < FB_HEIGHT)
        <4>1. ~Owes(r)
          BY <3>5 DEF Owes
        <4>2. Cardinality(Owing') = Cardinality(Owing)
          BY <2>1, <4>1
        <4> QED BY <1>1, <1>4, <1>6, <2>1, <2>2, <3>1, <4>2, ConsoleSizes DEF CursorInv
      <3> QED BY <3>4, <3>5
    <2> QED BY <2>3, <2>4
  <1>9. ScreenInv'
    <2>1. ASSUME ~typed'.spoiled PROVE ~Spoils(p) /\ Fits(r, fb', typed')
      <3>1. ~typed.spoiled /\ ~Spoils(p)
        BY <1>6, <2>1
      <3>2. Fits(ctx[p], fb, typed)
        BY <3>1, ScreenNow DEF ConsoleInv
      <3>3. Shown(fb, typed)
        BY <1>4, <3>2 DEF Fits
      <3>4. Shown(fb', typed')
        BY <1>4, <1>6, <3>3, SameShown
      <3>5. Fits(r, fb', typed')
        BY <1>1, <1>4, <3>4, ConsoleSizes DEF Fits
      <3> QED BY <3>1, <3>5
    <2> HIDE DEF r
    <2> QED BY <1>1, <1>3, <1>4, <2>1, ScreenStep
  <1> QED BY <1>7, <1>8, <1>9 DEF ConsoleInv

LEMMA scrollInv ==
  ASSUME ConsoleInv, NEW p \in Processes, scroll(p)
  PROVE  ConsoleInv'
  <1> DEFINE me == ctx[p]
             r == [pc |-> "text", text |-> me.text, pos |-> me.pos, down |-> me.down]
  <1>1. /\ ConsoleType /\ fb \in FbType /\ typed \in TypedType /\ typed.line # <<>>
        /\ ctx \in [Processes -> CtxType] /\ fb.y \in Int /\ typed.drift \in Nat /\ typed.top \in Nat
    BY DEF ConsoleInv, ConsoleType, FbType, TypedType
  <1>2. me.pc = "scroll" /\ me.pos < VideoRows - 1 /\ fb' = Scrolled(fb, me.pos)
    BY DEF scroll
  <1>3. me \in CtxType /\ me.text \in Seq(STRING) /\ me.text # <<>> /\ me.pos \in Int /\ me.down \in BOOLEAN
    BY <1>1, <1>2, MeType
  <1>4. r \in CtxType /\ r.text # <<>> /\ r.pc # "store" /\ r.pc = "text"
    BY <1>3 DEF CtxType
  <1>5. ctx' = [ctx EXCEPT ![p] = r]
    <2>1. r = [me EXCEPT !.pc = "text"]
      BY <1>3 DEF CtxType
    <2> QED BY <2>1 DEF scroll
  <1>6. fb' \in FbType /\ fb'.y = fb.y - 1
    BY <1>1, <1>2, <1>3, ScrolledIs
  <1>7. /\ typed' \in TypedType /\ typed'.line = typed.line /\ typed'.top = typed.top + 1
        /\ typed'.drift = typed.drift
        /\ ~typed'.spoiled => ~typed.spoiled /\ ~Spoils(p)
    <2> DEFINE o == Overlap(typed, p)
    <2>1. /\ o \in TypedType /\ o.line = typed.line /\ o.top = typed.top /\ o.drift = typed.drift
          /\ ~o.spoiled => ~typed.spoiled /\ ~Spoils(p)
      BY <1>1, OverlapIs
    <2>2. typed' = [o EXCEPT !.top = o.top + 1]
      BY DEF scroll
    <2> HIDE DEF o
    <2>3. typed' = [line |-> o.line, top |-> o.top + 1, drift |-> o.drift, spoiled |-> o.spoiled]
      BY <2>1, <2>2 DEF TypedType
    <2>4. o.line \in Seq(Seq(Chars)) /\ o.top + 1 \in Nat /\ o.drift \in Nat /\ o.spoiled \in BOOLEAN
      BY <2>1 DEF TypedType
    <2>5. typed' \in TypedType
      BY <2>3, <2>4 DEF TypedType
    <2>6. typed'.spoiled = o.spoiled
      BY <2>3
    <2> QED BY <2>1, <2>3, <2>5, <2>6
  <1> HIDE DEF me, r
  <1>8. ConsoleType'
    BY <1>1, <1>4, <1>5, <1>6, <1>7, CtxStep
  <1>9. CursorInv'
    <2>1. /\ Cardinality(Owing) \in Nat /\ Cardinality(Owing') \in Nat
          /\ Cardinality(Owing') = Cardinality(Owing) + (IF Owes(r) THEN 1 ELSE 0)
                                                      - (IF Owes(ctx[p]) THEN 1 ELSE 0)
      BY <1>1, <1>4, <1>5, OwingStep
    <2>2. fb.y + Cardinality(Owing) <= FB_HEIGHT + typed.drift
      BY DEF ConsoleInv, CursorInv
    <2>3. Cardinality(Owing') <= Cardinality(Owing) + 1
      BY <2>1
    <2> QED BY <1>1, <1>6, <1>7, <2>1, <2>2, <2>3, ConsoleSizes, SMTT(30) DEF CursorInv
  <1>10. ScreenInv'
    <2>1. ASSUME ~typed'.spoiled PROVE ~Spoils(p) /\ Fits(r, fb', typed')
      <3>1. ~typed.spoiled /\ ~Spoils(p)
        BY <1>7, <2>1
      <3>2. Fits(ctx[p], fb, typed)
        BY <3>1, ScreenNow DEF ConsoleInv
      <3>3. me.pos = fb.y /\ me.pos >= FB_HEIGHT /\ Shown(fb, typed)
        BY <1>2, <3>2 DEF Fits, me
      <3>4. fb.y \in Nat /\ fb.y < VideoRows - 1
        BY <1>1, <1>2, <3>3, ConsoleSizes
      <3>5. Shown(fb', typed')
        <4>1. Shown(Scrolled(fb, fb.y), typed')
          BY <1>1, <1>7, <3>3, <3>4, ScrollShown
        <4> QED BY <1>2, <3>3, <4>1
      <3>6. Fits(r, fb', typed')
        BY <1>4, <3>5 DEF Fits
      <3> QED BY <3>1, <3>6
    <2> QED BY <1>1, <1>4, <1>5, <2>1, ScreenStep
  <1> QED BY <1>8, <1>9, <1>10 DEF ConsoleInv

LEMMA NextCharInv ==
  ASSUME ConsoleInv, NEW p \in Processes, NextChar(p)
  PROVE  ConsoleInv'
  <1> DEFINE me == ctx[p]
             c  == Head(me.text)
             n  == IF c = "nl" THEN 1 ELSE 0
             r == IF c \in {"nl", "tab"}
                  THEN [pc |-> "wrap", text |-> me.text, pos |-> me.pos, down |-> (me.down \/ c = "nl")]
                  ELSE [pc |-> "store", text |-> me.text, pos |-> Pos(fb), down |-> me.down]
  <1>1. /\ ConsoleType /\ fb \in FbType /\ typed \in TypedType /\ typed.line # <<>>
        /\ ctx \in [Processes -> CtxType] /\ fb.y \in Int /\ fb.x \in Nat /\ typed.drift \in Nat
    BY DEF ConsoleInv, ConsoleType, FbType, TypedType
  <1>2. me.pc = "text"
    BY DEF NextChar
  <1>3. /\ me \in CtxType /\ me.text \in Seq(STRING) /\ me.text # <<>> /\ me.pos \in Int
        /\ me.down \in BOOLEAN /\ c \in Chars
    BY <1>1, <1>2, MeType
  <1>4. r \in CtxType /\ r.text = me.text /\ r.pc = (IF c \in {"nl", "tab"} THEN "wrap" ELSE "store")
    <2>1. Pos(fb) \in Int
      BY <1>1, ConsoleSizes DEF Pos
    <2>2. (me.down \/ c = "nl") \in BOOLEAN
      BY <1>3
    <2> HIDE DEF me, c
    <2>3. CASE c \in {"nl", "tab"}
      BY <1>3, <2>2, <2>3 DEF CtxType
    <2>4. CASE c \notin {"nl", "tab"}
      BY <1>3, <2>1, <2>4 DEF CtxType
    <2> QED BY <2>3, <2>4
  <1>5. ctx' = [ctx EXCEPT ![p] = r]
    <2>1. CASE c \in {"nl", "tab"}
      <3> DEFINE b == me.down \/ c = "nl"
      <3>1. ctx' = [ctx EXCEPT ![p] = [me EXCEPT !.pc = "wrap", !.down = b]]
        BY <1>1, <2>1 DEF NextChar
      <3> HIDE DEF me, b
      <3>2. [me EXCEPT !.pc = "wrap", !.down = b]
              = [pc |-> "wrap", text |-> me.text, pos |-> me.pos, down |-> b]
        <4>1. [me EXCEPT !.pc = "wrap"]
                = [pc |-> "wrap", text |-> me.text, pos |-> me.pos, down |-> me.down]
          BY <1>3 DEF CtxType
        <4>2. [[pc |-> "wrap", text |-> me.text, pos |-> me.pos, down |-> me.down] EXCEPT !.down = b]
                = [pc |-> "wrap", text |-> me.text, pos |-> me.pos, down |-> b]
          OBVIOUS
        <4>3. [me EXCEPT !.pc = "wrap", !.down = b] = [[me EXCEPT !.pc = "wrap"] EXCEPT !.down = b]
          OBVIOUS
        <4> QED BY <4>1, <4>2, <4>3
      <3> QED BY <2>1, <3>1, <3>2 DEF b
    <2>2. CASE c \notin {"nl", "tab"}
      <3> DEFINE b == Pos(fb)
      <3>1. ctx' = [ctx EXCEPT ![p] = [me EXCEPT !.pc = "store", !.pos = b]]
        BY <1>1, <2>2 DEF NextChar
      <3> HIDE DEF me, b
      <3>2. [me EXCEPT !.pc = "store", !.pos = b]
              = [pc |-> "store", text |-> me.text, pos |-> b, down |-> me.down]
        <4>1. [me EXCEPT !.pc = "store"]
                = [pc |-> "store", text |-> me.text, pos |-> me.pos, down |-> me.down]
          BY <1>3 DEF CtxType
        <4>2. [[pc |-> "store", text |-> me.text, pos |-> me.pos, down |-> me.down] EXCEPT !.pos = b]
                = [pc |-> "store", text |-> me.text, pos |-> b, down |-> me.down]
          OBVIOUS
        <4>3. [me EXCEPT !.pc = "store", !.pos = b] = [[me EXCEPT !.pc = "store"] EXCEPT !.pos = b]
          OBVIOUS
        <4> QED BY <4>1, <4>2, <4>3
      <3> QED BY <2>2, <3>1, <3>2 DEF b
    <2> QED BY <2>1, <2>2
  <1>6. /\ c \in {"nl", "tab"} => fb' = Moved(fb, c)
        /\ c \notin {"nl", "tab"} => fb' = fb /\ Pos(fb) \in Cells /\ r.pos = Pos(fb)
    BY DEF NextChar
  <1>7. fb' \in FbType /\ fb'.y = fb.y + n
    BY <1>1, <1>6, MovedIs
  <1> DEFINE u == Typed(typed, c)
  <1>8. u \in TypedType /\ u.line # <<>> /\ u.drift = typed.drift /\ (~u.spoiled => ~typed.spoiled)
    <2> HIDE DEF c
    <2> QED BY <1>1, <1>3, TypedIs
  <1>9. /\ typed' \in TypedType /\ typed'.line = u.line /\ typed'.top = u.top
        /\ typed'.drift = (IF n = 1 /\ me.down THEN typed.drift + 1 ELSE typed.drift)
        /\ ~typed'.spoiled => ~u.spoiled /\ ~typed.spoiled /\ ~Spoils(p)
    <2> DEFINE o == Overlap(u, p)
    <2>1. typed' = Down(o, p, n)
      BY DEF NextChar
    <2> HIDE DEF u, n, c
    <2>2. /\ o \in TypedType /\ o.line = u.line /\ o.top = u.top /\ o.drift = u.drift
          /\ ~o.spoiled => ~u.spoiled /\ ~Spoils(p)
      BY <1>8, OverlapIs
    <2> HIDE DEF o
    <2>3. /\ typed' \in TypedType /\ typed'.line = o.line /\ typed'.top = o.top
          /\ typed'.spoiled = o.spoiled
          /\ typed'.drift = (IF n = 1 /\ me.down THEN o.drift + 1 ELSE o.drift)
      BY <2>1, <2>2, DownIs
    <2> QED BY <1>8, <2>2, <2>3
  <1> HIDE DEF u
  <1>10. ConsoleType'
    <2>1. r.pc = "store" => r.pos \in Cells
      BY <1>4, <1>6
    <2> HIDE DEF r, me, c
    <2> QED BY <1>1, <1>3, <1>4, <1>5, <1>7, <1>8, <1>9, <2>1, CtxStep
  <1>11. CursorInv'
    <2>1. Owes(me) <=> ~me.down
      BY <1>2 DEF Owes
    <2>2. Owes(r) <=> ~me.down /\ c # "nl"
      <3>1. CASE c \in {"nl", "tab"}
        BY <1>3, <3>1 DEF Owes
      <3>2. CASE c \notin {"nl", "tab"}
        BY <3>2 DEF Owes
      <3> QED BY <3>1, <3>2
    <2> HIDE DEF r, c
    <2>3. /\ Cardinality(Owing) \in Nat /\ Cardinality(Owing') \in Nat
          /\ Cardinality(Owing') = Cardinality(Owing) + (IF Owes(r) THEN 1 ELSE 0)
                                                      - (IF Owes(me) THEN 1 ELSE 0)
      BY <1>1, <1>4, <1>5, OwingStep
    <2>4. fb.y + Cardinality(Owing) <= FB_HEIGHT + typed.drift
      BY DEF ConsoleInv, CursorInv
    <2> HIDE DEF me
    <2>5. CASE n = 1 /\ me.down
      BY <1>1, <1>7, <1>9, <2>1, <2>2, <2>3, <2>4, <2>5, ConsoleSizes DEF CursorInv
    <2>6. CASE n = 1 /\ ~me.down
      <3>1. c = "nl"
        BY <2>6
      <3> QED BY <1>1, <1>7, <1>9, <2>1, <2>2, <2>3, <2>4, <2>6, <3>1, ConsoleSizes DEF CursorInv
    <2>7. CASE n = 0
      <3>1. c # "nl"
        BY <2>7
      <3> QED BY <1>1, <1>7, <1>9, <2>1, <2>2, <2>3, <2>4, <2>7, <3>1, ConsoleSizes DEF CursorInv
    <2> QED BY <2>5, <2>6, <2>7
  <1>12. ScreenInv'
    <2>1. ASSUME ~typed'.spoiled PROVE ~Spoils(p) /\ Fits(r, fb', typed')
      <3>1. ~typed.spoiled /\ ~Spoils(p) /\ ~u.spoiled
        BY <1>9, <2>1
      <3>2. Fits(ctx[p], fb, typed)
        BY <3>1, ScreenNow DEF ConsoleInv
      <3>3. Shown(fb, typed)
        BY <1>2, <3>2 DEF Fits
      <3>4. c \in {"nl", "tab"} \/ Pos(fb) \in Cells
        BY <1>6
      <3>5. Shown(fb_write_char(fb, c), u)
        <4> HIDE DEF c
        <4> QED BY <1>1, <1>3, <3>1, <3>3, <3>4, WriteShown DEF u
      <3>6. Shown(fb_write_char(fb, c), typed')
        BY <1>9, <3>5, SameShown
      <3> HIDE DEF r
      <3>7. CASE c \in {"nl", "tab"}
        <4>1. fb_write_char(fb, c) = Wrapped(fb')
          BY <1>6, <3>7 DEF fb_write_char
        <4> QED BY <1>4, <3>1, <3>6, <3>7, <4>1 DEF Fits
      <3>8. CASE c \notin {"nl", "tab"}
        <4>1. fb_write_char(fb, c) = Wrapped(Stored(fb', r.pos, c))
          BY <1>6, <3>8 DEF fb_write_char
        <4>2. c = Head(r.text)
          BY <1>4
        <4> QED BY <1>4, <3>1, <3>6, <3>8, <4>1, <4>2 DEF Fits
      <3> QED BY <3>7, <3>8
    <2> HIDE DEF r
    <2> QED BY <1>1, <1>4, <1>5, <2>1, ScreenStep
  <1> QED BY <1>10, <1>11, <1>12 DEF ConsoleInv

LEMMA StoreGlyphInv ==
  ASSUME ConsoleInv, NEW p \in Processes, StoreGlyph(p)
  PROVE  ConsoleInv'
  <1> DEFINE me == ctx[p]
             r == [pc |-> "wrap", text |-> me.text, pos |-> me.pos, down |-> me.down]
  <1>1. /\ ConsoleType /\ fb \in FbType /\ typed \in TypedType /\ typed.line # <<>>
        /\ ctx \in [Processes -> CtxType] /\ fb.y \in Int /\ typed.drift \in Nat
    BY DEF ConsoleInv, ConsoleType, FbType, TypedType
  <1>2. me.pc = "store" /\ fb' = Stored(fb, me.pos, Head(me.text)) /\ typed' = Overlap(typed, p)
    BY DEF StoreGlyph
  <1>3. /\ me \in CtxType /\ me.text \in Seq(STRING) /\ me.text # <<>> /\ me.pos \in Int
        /\ me.down \in BOOLEAN /\ Head(me.text) \in Chars /\ me.pos \in Cells
    BY <1>1, <1>2, MeType
  <1>4. r \in CtxType /\ r.text # <<>> /\ r.pc = "wrap" /\ r.down = me.down
    BY <1>3 DEF CtxType
  <1>5. ctx' = [ctx EXCEPT ![p] = r]
    <2>1. r = [me EXCEPT !.pc = "wrap"]
      BY <1>3 DEF CtxType
    <2> QED BY <2>1 DEF StoreGlyph
  <1>6. fb' \in FbType /\ fb'.y = fb.y
    BY <1>1, <1>2, <1>3, StoredIs
  <1>7. /\ typed' \in TypedType /\ typed'.line = typed.line /\ typed'.top = typed.top
        /\ typed'.drift = typed.drift
        /\ ~typed'.spoiled => ~typed.spoiled /\ ~Spoils(p)
    BY <1>1, <1>2, OverlapIs
  <1> HIDE DEF r
  <1>8. ConsoleType'
    BY <1>1, <1>4, <1>5, <1>6, <1>7, CtxStep
  <1>9. CursorInv'
    <2>1. /\ Cardinality(Owing) \in Nat /\ Cardinality(Owing') \in Nat
          /\ Cardinality(Owing') = Cardinality(Owing) + (IF Owes(r) THEN 1 ELSE 0)
                                                      - (IF Owes(ctx[p]) THEN 1 ELSE 0)
      BY <1>1, <1>4, <1>5, OwingStep
    <2>2. Owes(r) <=> Owes(ctx[p])
      BY <1>2, <1>4 DEF Owes
    <2>3. Cardinality(Owing') = Cardinality(Owing)
      BY <2>1, <2>2
    <2> QED BY <1>1, <1>6, <1>7, <2>3 DEF CursorInv, ConsoleInv
  <1>10. ScreenInv'
    <2>1. ASSUME ~typed'.spoiled PROVE ~Spoils(p) /\ Fits(r, fb', typed')
      <3>1. ~typed.spoiled /\ ~Spoils(p)
        BY <1>7, <2>1
      <3>2. Fits(ctx[p], fb, typed)
        BY <3>1, ScreenNow DEF ConsoleInv
      <3>3. Shown(Wrapped(fb'), typed)
        BY <1>2, <3>2 DEF Fits
      <3>4. Shown(Wrapped(fb'), typed')
        BY <1>7, <3>3, SameShown
      <3> QED BY <1>4, <3>1, <3>4 DEF Fits
    <2> QED BY <1>1, <1>4, <1>5, <2>1, ScreenStep
  <1> QED BY <1>8, <1>9, <1>10 DEF ConsoleInv

LEMMA WrapInv ==
  ASSUME ConsoleInv, NEW p \in Processes, Wrap(p)
  PROVE  ConsoleInv'
  <1> DEFINE me == ctx[p]
             n  == Wrapped(fb).y - fb.y
             rest == Tail(me.text)
             r == IF rest = <<>> THEN NoText
                  ELSE [pc |-> "text", text |-> rest, pos |-> 0, down |-> (me.down \/ n = 1)]
  <1>1. /\ ConsoleType /\ fb \in FbType /\ typed \in TypedType /\ typed.line # <<>>
        /\ ctx \in [Processes -> CtxType] /\ fb.y \in Int /\ typed.drift \in Nat
    BY DEF ConsoleInv, ConsoleType, FbType, TypedType
  <1>2. me.pc = "wrap" /\ fb' = Wrapped(fb) /\ typed' = Down(Overlap(typed, p), p, n)
        /\ ctx' = [ctx EXCEPT ![p] = r]
    BY DEF Wrap
  <1>3. /\ me \in CtxType /\ me.text \in Seq(STRING) /\ me.text # <<>> /\ me.pos \in Int
        /\ me.down \in BOOLEAN
    BY <1>1, <1>2, MeType
  <1>4. rest \in Seq(STRING)
    <2>1. \A s \in Seq(STRING) : s # <<>> => Tail(s) \in Seq(STRING)
      OBVIOUS
    <2> QED BY <1>3, <2>1
  <1>5. fb' \in FbType /\ fb'.y = fb.y + n /\ n \in {0, 1}
    BY <1>1, <1>2, WrappedIs
  <1> HIDE DEF n, me, rest
  <1>6. r \in CtxType /\ (r.pc # "idle" => r.text # <<>>) /\ r.pc \in {"idle", "text"}
    <2>1. CASE rest = <<>>
      BY <2>1 DEF CtxType, NoText
    <2>2. CASE rest # <<>>
      <3>1. (me.down \/ n = 1) \in BOOLEAN
        OBVIOUS
      <3> QED BY <1>4, <2>2, <3>1 DEF CtxType
    <2> QED BY <2>1, <2>2
  <1>7. /\ typed' \in TypedType /\ typed'.line = typed.line /\ typed'.top = typed.top
        /\ typed'.drift = (IF n = 1 /\ me.down THEN typed.drift + 1 ELSE typed.drift)
        /\ ~typed'.spoiled => ~typed.spoiled /\ ~Spoils(p)
    <2> DEFINE o == Overlap(typed, p)
    <2>1. /\ o \in TypedType /\ o.line = typed.line /\ o.top = typed.top /\ o.drift = typed.drift
          /\ ~o.spoiled => ~typed.spoiled /\ ~Spoils(p)
      BY <1>1, OverlapIs
    <2>2. typed' = Down(o, p, n)
      BY <1>2
    <2> HIDE DEF o
    <2>3. /\ typed' \in TypedType /\ typed'.line = o.line /\ typed'.top = o.top
          /\ typed'.spoiled = o.spoiled
          /\ typed'.drift = (IF n = 1 /\ me.down THEN o.drift + 1 ELSE o.drift)
      BY <2>1, <2>2, DownIs DEF me
    <2> QED BY <2>1, <2>3
  <1>8. ConsoleType'
    <2> HIDE DEF r
    <2> QED BY <1>1, <1>2, <1>5, <1>6, <1>7, CtxStep
  <1>9. CursorInv'
    <2>1. Owes(me) <=> ~me.down
      BY <1>2 DEF Owes
    <2>2. Owes(r) => ~me.down /\ n # 1
      <3>1. CASE rest = <<>>
        BY <3>1 DEF Owes, NoText
      <3>2. CASE rest # <<>>
        BY <1>3, <3>2 DEF Owes
      <3> QED BY <3>1, <3>2
    <2> HIDE DEF r
    <2>3. /\ Cardinality(Owing) \in Nat /\ Cardinality(Owing') \in Nat
          /\ Cardinality(Owing') = Cardinality(Owing) + (IF Owes(r) THEN 1 ELSE 0)
                                                      - (IF Owes(me) THEN 1 ELSE 0)
      BY <1>1, <1>2, <1>6, OwingStep DEF me
    <2>4. fb.y + Cardinality(Owing) <= FB_HEIGHT + typed.drift
      BY DEF ConsoleInv, CursorInv
    <2>5. CASE n = 1 /\ me.down
      BY <1>1, <1>5, <1>7, <2>1, <2>2, <2>3, <2>4, <2>5, ConsoleSizes DEF CursorInv
    <2>6. CASE n = 1 /\ ~me.down
      BY <1>1, <1>5, <1>7, <2>1, <2>2, <2>3, <2>4, <2>6, ConsoleSizes DEF CursorInv
    <2>7. CASE n = 0
      BY <1>1, <1>5, <1>7, <2>1, <2>2, <2>3, <2>4, <2>7, ConsoleSizes, SMTT(30) DEF CursorInv
    <2> QED BY <1>5, <2>5, <2>6, <2>7
  <1>10. ScreenInv'
    <2>1. ASSUME ~typed'.spoiled PROVE ~Spoils(p) /\ Fits(r, fb', typed')
      <3>1. ~typed.spoiled /\ ~Spoils(p)
        BY <1>7, <2>1
      <3>2. Fits(ctx[p], fb, typed)
        BY <3>1, ScreenNow DEF ConsoleInv
      <3>3. Shown(fb', typed)
        BY <1>2, <3>2 DEF Fits, me
      <3>4. Shown(fb', typed')
        BY <1>7, <3>3, SameShown
      <3> HIDE DEF r
      <3> QED BY <1>6, <3>1, <3>4 DEF Fits
    <2> HIDE DEF r
    <2> QED BY <1>1, <1>2, <1>6, <2>1, ScreenStep
  <1> QED BY <1>8, <1>9, <1>10 DEF ConsoleInv

\* What fb_write_char does to the cursor's row.
LEMMA WriteType ==
  ASSUME NEW f \in FbType, NEW c \in Chars, c \in {"nl", "tab"} \/ Pos(f) \in Cells
  PROVE  fb_write_char(f, c) \in FbType /\ fb_write_char(f, c).y \in {f.y, f.y + 1}
  <1> DEFINE h == IF c \in {"nl", "tab"} THEN Moved(f, c) ELSE Stored(f, Pos(f), c)
  <1>1. f.x \in Nat /\ f.y \in Int
    BY DEF FbType
  <1>2. fb_write_char(f, c) = Wrapped(h)
    BY DEF fb_write_char
  <1>3. h \in FbType /\ h.y = (IF c = "nl" THEN f.y + 1 ELSE f.y) /\ (c = "nl" => h.x = 0)
    BY MovedIs, StoredIs
  <1> HIDE DEF h
  <1> QED BY <1>1, <1>2, <1>3, WrappedIs, ConsoleSizes

LEMMA EchoInv ==
  ASSUME ConsoleInv, NEW c \in Chars, Echo(c)
  PROVE  ConsoleInv'
  <1> DEFINE u == Typed(typed, c)
             s == \E p \in Processes : Inside(p)
             n == fb'.y - fb.y
  <1>1. /\ ConsoleType /\ fb \in FbType /\ typed \in TypedType /\ typed.line # <<>>
        /\ ctx \in [Processes -> CtxType] /\ fb.y \in Int /\ typed.drift \in Nat
    BY DEF ConsoleInv, ConsoleType, FbType, TypedType
  <1>2. /\ c \in {"nl", "tab"} \/ Pos(fb) \in Cells
        /\ fb' = fb_write_char(fb, c) /\ ctx' = ctx
    BY DEF Echo
  <1>3. fb' \in FbType /\ n \in {0, 1} /\ fb'.y = fb.y + n
    BY <1>1, <1>2, WriteType
  <1>4. /\ u \in TypedType /\ u.line # <<>> /\ u.drift = typed.drift /\ (~u.spoiled => ~typed.spoiled)
    BY <1>1, TypedIs
  <1>5. typed' = [u EXCEPT !.spoiled = @ \/ s, !.drift = @ + n]
    BY DEF Echo
  <1>6. s \in BOOLEAN
    OBVIOUS
  <1> HIDE DEF u, s, n
  <1>7. /\ typed' \in TypedType /\ typed'.line = u.line /\ typed'.top = u.top
        /\ typed'.drift = typed.drift + n
        /\ ~typed'.spoiled => ~u.spoiled /\ ~s
    <2>1. u.line \in Seq(Seq(Chars)) /\ u.top \in Nat /\ u.drift + n \in Nat /\ u.spoiled \in BOOLEAN
      BY <1>3, <1>4 DEF TypedType
    <2>2. typed' = [line |-> u.line, top |-> u.top, drift |-> u.drift + n, spoiled |-> (u.spoiled \/ s)]
      BY <1>4, <1>5 DEF TypedType
    <2>3. (u.spoiled \/ s) \in BOOLEAN
      BY <1>6, <2>1
    <2>4. typed' \in TypedType
      BY <2>1, <2>2, <2>3 DEF TypedType
    <2>5. typed'.spoiled = (u.spoiled \/ s)
      BY <2>2
    <2>6. ~typed'.spoiled => ~u.spoiled /\ ~s
      BY <2>5
    <2> QED BY <1>4, <2>2, <2>4, <2>6
  <1>8. ConsoleType'
    BY <1>1, <1>2, <1>3, <1>4, <1>7 DEF ConsoleType
  <1>9. CursorInv'
    <2>1. Owing' = Owing
      BY <1>2 DEF Owing
    <2>2. Cardinality(Owing) \in Nat
      <3>1. IsFiniteSet(Processes)
        BY ConsoleAssumption
      <3>2. IsFiniteSet(Owing)
        BY <3>1, FS_Subset DEF Owing
      <3> QED BY <3>2, FS_CardinalityType
    <2>3. fb.y + Cardinality(Owing) <= FB_HEIGHT + typed.drift
      BY DEF ConsoleInv, CursorInv
    <2> QED BY <1>1, <1>3, <1>7, <2>1, <2>2, <2>3, ConsoleSizes DEF CursorInv
  <1>10. ScreenInv'
    <2> SUFFICES ASSUME ~typed'.spoiled
                 PROVE  /\ \A i, j \in Processes : Inside(i)' /\ Inside(j)' => i = j
                        /\ Settled' => Shown(fb', typed')
                        /\ \A q \in Processes : Inside(q)' => Fits(ctx'[q], fb', typed')
      BY DEF ScreenInv
    <2>1. ~u.spoiled /\ ~typed.spoiled /\ \A p \in Processes : ~Inside(p)
      BY <1>4, <1>7 DEF s
    <2>2. \A p \in Processes : ~Inside(p)'
      BY <1>2, <2>1 DEF Inside
    <2>3. Shown(fb, typed)
      BY <2>1 DEF ConsoleInv, ScreenInv, Settled
    <2>4. Shown(fb', u)
      BY <1>1, <1>2, <2>1, <2>3, WriteShown DEF u
    <2>5. Shown(fb', typed')
      BY <1>7, <2>4, SameShown
    <2> QED BY <2>2, <2>5
  <1> QED BY <1>8, <1>9, <1>10 DEF ConsoleInv

\* The screen is blank at first.
LEMMA ConsoleInitInv == ASSUME ConsoleInit PROVE ConsoleInv
  <1>1. /\ fb = [x |-> 0, y |-> 0, cell |-> [i \in Cells |-> Blank]]
        /\ ctx = [p \in Processes |-> NoText]
        /\ typed = [line |-> <<<<>>>>, top |-> 0, drift |-> 0, spoiled |-> FALSE]
    BY DEF ConsoleInit
  <1>2. <<<<>>>> \in Seq(Seq(Chars)) /\ Len(<<<<>>>>) = 1 /\ <<<<>>>>[1] = <<>> /\ <<<<>>>> # <<>>
    OBVIOUS
  <1>3. NoText \in CtxType /\ NoText.pc = "idle"
    BY DEF NoText, CtxType
  <1>4. Blank \in Chars
    BY DEF Chars
  <1>5. ConsoleType
    BY <1>1, <1>2, <1>3, <1>4 DEF ConsoleType, FbType, TypedType
  <1>6. CursorInv
    <2>1. Owing = {}
      BY <1>1, <1>3 DEF Owing, Owes
    <2>2. Cardinality(Owing) = 0
      BY <2>1, FS_EmptySet
    <2> QED BY <1>1, <2>2, ConsoleSizes DEF CursorInv
  <1>7. Shown(fb, typed)
    <2>1. ASSUME NEW i \in Cells PROVE Glyph(typed, i) = Blank
      <3> DEFINE row == i \div FB_WIDTH
                 col == i % FB_WIDTH
      <3>1. row \in Nat /\ col \in Nat
        BY RowAndColumn, ConsoleSizes
      <3>2. typed.top = 0 /\ Len(typed.line) = 1 /\ Len(typed.line[1]) = 0
        BY <1>1, <1>2
      <3>3. Glyph(typed, i) = IF typed.top + row + 1 <= Len(typed.line)
                                 /\ col + 1 <= Len(typed.line[typed.top + row + 1])
                              THEN typed.line[typed.top + row + 1][col + 1] ELSE Blank
        BY DEF Glyph
      <3> HIDE DEF row, col
      <3>4. CASE row = 0
        <4>1. typed.top + row + 1 = 1 /\ ~(col + 1 <= 0)
          BY <3>1, <3>2, <3>4
        <4> QED BY <3>2, <3>3, <4>1
      <3>5. CASE row # 0
        <4>1. ~(typed.top + row + 1 <= 1)
          BY <3>1, <3>2, <3>5
        <4> QED BY <3>2, <3>3, <4>1
      <3> QED BY <3>4, <3>5
    <2> QED BY <1>1, <1>2, <2>1, ConsoleSizes DEF Shown
  <1>8. \A p \in Processes : ~Inside(p)
    BY <1>1, <1>3 DEF Inside
  <1> QED BY <1>5, <1>6, <1>7, <1>8 DEF ConsoleInv, ScreenInv

LEMMA ConsoleSame ==
  ASSUME ConsoleInv, UNCHANGED <<fb, ctx, typed>>
  PROVE  ConsoleInv'
  <1>1. ConsoleType'
    BY DEF ConsoleInv, ConsoleType
  <1>2. CursorInv'
    BY DEF ConsoleInv, CursorInv, Owing
  <1>3. ScreenInv'
    BY DEF ConsoleInv, ScreenInv, Settled, Inside
  <1> QED BY <1>1, <1>2, <1>3 DEF ConsoleInv

\* The cursor and the screen stay in step, whoever prints and whatever is typed
\* (framebuffer.c:92-149, string.c:118).
THEOREM ConsoleInvariant == KeyboardSpec => []ConsoleInv
  <1>1. KeyboardInit => ConsoleInv
    BY ConsoleInitInv DEF KeyboardInit
  <1>2. ConsoleInv /\ [KeyboardNext]_<<consoleVars, keyboardVars>> => ConsoleInv'
    <2> SUFFICES ASSUME ConsoleInv, [KeyboardNext]_<<consoleVars, keyboardVars>> PROVE ConsoleInv'
      OBVIOUS
    <2>1. CASE UNCHANGED consoleVars
      BY <2>1, ConsoleSame DEF consoleVars
    <2>2. CASE keyboard_cb
      <3>1. UNCHANGED consoleVars \/ \E ch : Echo(Written(ch))
        BY <2>2, ZenonT(30) DEF keyboard_cb
      <3>2. ASSUME NEW ch PROVE Written(ch) \in Chars
        <4>1. Written(ch) \in {"nl", "tab", "key"}
          BY DEF Written
        <4> QED BY <4>1 DEF Chars
      <3> QED BY <2>1, <3>1, <3>2, EchoInv
    <2>3. CASE Prints
      BY <2>3, printfInv, scrollInv, NextCharInv, StoreGlyphInv, WrapInv DEF Prints
    <2>4. ASSUME NEW k \in Hands, Press(k) \/ Release(k) PROVE UNCHANGED consoleVars
      BY <2>4 DEF Press, Release
    <2> QED BY <2>1, <2>2, <2>3, <2>4 DEF KeyboardNext
  <1> QED BY <1>1, <1>2, PTL DEF KeyboardSpec

\* While no two writes have overlapped, the screen is the tail of what was written, through
\* every scroll, wrap and echo (framebuffer.c:92-149).
THEOREM ScreenIsTailHolds == KeyboardSpec => []ScreenIsTail
  <1>1. ConsoleInv => ScreenIsTail
    BY DEF ConsoleInv, ScreenInv, ScreenIsTail, Shown, Glyph
  <1> QED BY <1>1, ConsoleInvariant, PTL

\* The cursor is at most drift rows below the first hidden one (string.c:118,
\* framebuffer.c:139-149); the bound holds with overlapping writes too.
THEOREM CursorStaysNearHolds == KeyboardSpec => []CursorStaysNear
  <1>1. ConsoleInv => CursorStaysNear
    <2> SUFFICES ASSUME ConsoleInv PROVE CursorStaysNear
      OBVIOUS
    <2>1. fb.y + Cardinality(Owing) <= FB_HEIGHT + typed.drift
      BY DEF ConsoleInv, CursorInv
    <2>2. Cardinality(Owing) \in Nat
      <3>1. IsFiniteSet(Processes)
        BY ConsoleAssumption
      <3>2. IsFiniteSet(Owing)
        BY <3>1, FS_Subset DEF Owing
      <3> QED BY <3>2, FS_CardinalityType
    <2>3. fb.y \in Int /\ typed.drift \in Nat
      BY DEF ConsoleInv, ConsoleType, FbType, TypedType
    <2> QED BY <2>1, <2>2, <2>3, ConsoleSizes DEF CursorStaysNear
  <1> QED BY <1>1, ConsoleInvariant, PTL

-----------------------------------------------------------------------------
(***************************************************************************)
(* The keyboard.  The scan codes that wait in the controller lead the      *)
(* driver from the state it is in to the state of the hands: there is a    *)
(* run of driver states, one before each code and one after the last.      *)
(***************************************************************************)

\* done counts the characters of due that have been echoed by then.
DriverStates == [keys : SUBSET (Int \X {2, 3}), lock : BOOLEAN, ext : BOOLEAN, done : Int]
State(k, l, e, n) == [keys |-> k, lock |-> l, ext |-> e, done |-> n]

\* The character a press echoes.
Echoed(code, ext, keys, lock) ==
  LET shift  == <<KEY_SHIFT_L, 2>> \in keys \/ <<KEY_SHIFT_R, 2>> \in keys
      column == IF (ext = 3 /\ code # KEY_SLASH) \/ ((lock /\ code \in Letters) # shift) THEN 1 ELSE 0
  IN Face(code, column)

\* The code takes the driver from a to b, echoing what is due.
Takes(a, code, b, d) ==
  LET ext == IF a.ext THEN 3 ELSE 2
      ch  == Echoed(code, ext, b.keys, b.lock)
  IN /\ b.ext = (code = Prefix)
     /\ code = Prefix => b.keys = a.keys /\ b.lock = a.lock /\ b.done = a.done
     /\ code # Prefix => code \in 1 .. 95 \/ code \in 129 .. 223
     /\ code \in 129 .. 223 => /\ b.keys = a.keys \ {<<code - 128, ext>>}
                               /\ b.lock = a.lock /\ b.done = a.done
     /\ code \in 1 .. 95 => /\ b.keys = a.keys \cup {<<code, ext>>}
                            /\ b.lock = (a.lock # (code = KEY_CAPSLOCK))
                            /\ b.done = IF ch = INV THEN a.done ELSE a.done + 1
                            /\ ch # INV => b.done \in 1 .. Len(d) /\ d[b.done] = ch

Replay(st, a, codes, d, z) ==
  /\ st \in [0 .. Len(codes) -> DriverStates]
  /\ st[0] = a /\ st[Len(codes)] = z
  /\ \A i \in 1 .. Len(codes) : Takes(st[i - 1], codes[i], st[i], d)
  /\ \A i, j \in 0 .. Len(codes) : i <= j => st[i].done <= st[j].done

\* The inductive invariant.
KeyboardInv ==
  /\ port \in Seq(Int) /\ due \in Seq(Int \X {0, 1})
  /\ \E st : Replay(st, State(keymap, capslock_state, extcode_state, 0), port, due,
                        State(down, caps, FALSE, Len(due)))

LEMMA TakesMore ==
  ASSUME NEW a, NEW b \in DriverStates, NEW code, NEW d \in Seq(Int \X {0, 1}),
         NEW e \in Seq(Int \X {0, 1}), Takes(a, code, b, d),
         Len(d) <= Len(e), \A i \in 1 .. Len(d) : e[i] = d[i]
  PROVE  Takes(a, code, b, e)
  <1> DEFINE ext == IF a.ext THEN 3 ELSE 2
             ch  == Echoed(code, ext, b.keys, b.lock)
  <1>1. ASSUME code \in 1 .. 95, ch # INV PROVE b.done \in 1 .. Len(e) /\ e[b.done] = ch
    <2>1. b.done \in 1 .. Len(d) /\ d[b.done] = ch
      BY <1>1 DEF Takes
    <2> HIDE DEF ch
    <2> QED BY <2>1
  <1> QED BY <1>1 DEF Takes

\* A code is added, and perhaps what it types.
LEMMA ReplayAppend ==
  ASSUME NEW codes \in Seq(Int), NEW d \in Seq(Int \X {0, 1}), NEW e \in Seq(Int \X {0, 1}),
         NEW st, NEW a, NEW y, NEW z \in DriverStates, NEW code \in Int,
         Replay(st, a, codes, d, y), Takes(y, code, z, e), y.done <= z.done,
         Len(d) <= Len(e), \A i \in 1 .. Len(d) : e[i] = d[i]
  PROVE  \E s : Replay(s, a, Append(codes, code), e, z)
  <1> DEFINE n == Len(codes)
             new == Append(codes, code)
             s == [i \in 0 .. n + 1 |-> IF i <= n THEN st[i] ELSE z]
  <1>1. n \in Nat /\ Len(new) = n + 1 /\ new[n + 1] = code /\ \A i \in 1 .. n : new[i] = codes[i]
    OBVIOUS
  <1>2. /\ st \in [0 .. n -> DriverStates] /\ st[0] = a /\ st[n] = y
        /\ \A i \in 1 .. n : Takes(st[i - 1], codes[i], st[i], d)
        /\ \A i, j \in 0 .. n : i <= j => st[i].done <= st[j].done
    BY DEF Replay
  <1> HIDE DEF n, new
  <1>3. s \in [0 .. n + 1 -> DriverStates] /\ s[0] = a /\ s[n + 1] = z
        /\ \A i \in 0 .. n : s[i] = st[i]
    BY <1>1, <1>2
  <1> HIDE DEF s
  <1>4. ASSUME NEW i \in 1 .. n + 1 PROVE Takes(s[i - 1], new[i], s[i], e)
    <2>1. CASE i = n + 1
      <3>1. s[i - 1] = y /\ new[i] = code /\ s[i] = z
        BY <1>1, <1>2, <1>3, <2>1
      <3> QED BY <3>1
    <2>2. CASE i \in 1 .. n
      <3>1. s[i - 1] = st[i - 1] /\ s[i] = st[i] /\ new[i] = codes[i]
        BY <1>1, <1>3, <2>2
      <3>2. Takes(st[i - 1], codes[i], st[i], d)
        BY <1>2, <2>2
      <3>3. Takes(st[i - 1], codes[i], st[i], e)
        <4>1. st[i] \in DriverStates
          BY <1>1, <1>2, <2>2
        <4> QED BY <3>2, <4>1, TakesMore
      <3> QED BY <3>1, <3>3
    <2> QED BY <1>1, <2>1, <2>2
  <1>5. ASSUME NEW i \in 0 .. n + 1, NEW j \in 0 .. n + 1, i <= j PROVE s[i].done <= s[j].done
    <2>1. \A k \in 0 .. n : st[k].done \in Int /\ st[k].done <= y.done
      <3> TAKE k \in 0 .. n
      <3>1. k <= n /\ n \in 0 .. n
        BY <1>1
      <3>2. st[k] \in DriverStates
        BY <1>2
      <3> QED BY <1>2, <3>1, <3>2 DEF DriverStates
    <2>2. y.done \in Int /\ z.done \in Int
      <3>1. y \in DriverStates
        BY <1>1, <1>2
      <3> QED BY <3>1 DEF DriverStates
    <2>3. CASE j \in 0 .. n
      <3>1. i \in 0 .. n
        BY <1>1, <1>5, <2>3
      <3> QED BY <1>2, <1>3, <1>5, <2>3, <3>1
    <2>4. CASE j = n + 1
      <3>1. s[j] = z
        BY <1>3, <2>4
      <3>2. CASE i \in 0 .. n
        <4>1. s[i] = st[i] /\ st[i].done <= y.done /\ st[i].done \in Int
          BY <1>3, <2>1, <3>2
        <4> QED BY <2>2, <3>1, <4>1
      <3>3. CASE i = n + 1
        BY <1>3, <2>2, <2>4, <3>3
      <3> QED BY <1>1, <3>2, <3>3
    <2> QED BY <1>1, <2>3, <2>4
  <1>6. Replay(s, a, new, e, z)
    BY <1>1, <1>3, <1>4, <1>5 DEF Replay
  <1> QED BY <1>6 DEF new


\* The types of a key and of the character it types.
LEMMA KeyType ==
  ASSUME NEW k \in Hands, PrintScreen \notin Hands
  PROVE  /\ k = <<k[1], k[2]>> /\ k[1] \in 1 .. 95 /\ k[2] \in {2, 3} /\ k \in Int \X {2, 3}
         /\ \A s \in Seq(Int) :
              /\ s \o MakeCodes(k) = IF k[2] = 3 THEN Append(Append(s, Prefix), k[1])
                                                ELSE Append(s, k[1])
              /\ s \o BreakCodes(k) = IF k[2] = 3 THEN Append(Append(s, Prefix), k[1] + 128)
                                                 ELSE Append(s, k[1] + 128)
  <1>1. k \in ((1 .. 88) \X {2}) \cup (Extended \X {3})
    BY KeyboardAssumption
  <1>2. Extended \subseteq 1 .. 95
    BY DEF Extended, KEY_ENTER, KEY_SLASH, KEY_STAR
  <1>3. k = <<k[1], k[2]>> /\ k[1] \in 1 .. 95 /\ k[2] \in {2, 3} /\ k \in Int \X {2, 3}
    <2>1. CASE k \in (1 .. 88) \X {2}
      BY <2>1
    <2>2. CASE k \in Extended \X {3}
      <3>1. PICK e \in Extended : k = <<e, 3>>
        BY <2>2
      <3>2. e \in 1 .. 95
        BY <1>2
      <3> QED BY <3>1, <3>2
    <2> QED BY <1>1, <2>1, <2>2
  <1>4. k # PrintScreen
    OBVIOUS
  <1>5. k[1] \in Int /\ k[1] + 128 \in Int /\ Prefix \in Int
    BY <1>3 DEF Prefix
  <1>6. ASSUME NEW s \in Seq(Int), NEW x \in Int, NEW y \in Int
        PROVE  /\ s \o (<<>> \o <<x>> \o <<y>>) = Append(Append(s, x), y)
               /\ s \o (<<x>> \o <<y>> \o <<>>) = Append(Append(s, x), y)
               /\ s \o (<<>> \o <<>> \o <<y>>) = Append(s, y)
               /\ s \o (<<>> \o <<y>> \o <<>>) = Append(s, y)
    <2>1. <<x>> \in Seq(Int) /\ <<y>> \in Seq(Int) /\ <<>> \in Seq(Int) /\ <<x>> \o <<y>> \in Seq(Int)
      OBVIOUS
    <2>2. \A w \in Seq(Int) : w \o <<>> = w /\ <<>> \o w = w
      BY ConcatEmptySeq
    <2>3. s \o (<<x>> \o <<y>>) = Append(Append(s, x), y)
      <3>1. s \o (<<x>> \o <<y>>) = (s \o <<x>>) \o <<y>>
        BY <2>1, ConcatAssociative
      <3>2. s \o <<x>> = Append(s, x) /\ Append(s, x) \in Seq(Int)
        BY AppendIsConcat
      <3>3. Append(s, x) \o <<y>> = Append(Append(s, x), y)
        BY <3>2, AppendIsConcat
      <3> QED BY <3>1, <3>2, <3>3
    <2>4. s \o <<y>> = Append(s, y)
      BY AppendIsConcat
    <2> QED BY <2>1, <2>2, <2>3, <2>4
  <1>7. CASE k[2] = 3
    <2>1. MakeCodes(k) = <<>> \o <<Prefix>> \o <<k[1]>> /\ BreakCodes(k) = <<Prefix>> \o <<k[1] + 128>> \o <<>>
      BY <1>4, <1>7 DEF MakeCodes, BreakCodes, Ext
    <2>2. ASSUME NEW s \in Seq(Int)
          PROVE  /\ s \o MakeCodes(k) = Append(Append(s, Prefix), k[1])
                 /\ s \o BreakCodes(k) = Append(Append(s, Prefix), k[1] + 128)
      BY <1>5, <1>6, <2>1
    <2> QED BY <1>3, <1>7, <2>2
  <1>8. CASE k[2] = 2
    <2>1. MakeCodes(k) = <<>> \o <<>> \o <<k[1]>> /\ BreakCodes(k) = <<>> \o <<k[1] + 128>> \o <<>>
      BY <1>4, <1>8 DEF MakeCodes, BreakCodes, Ext
    <2>2. ASSUME NEW s \in Seq(Int)
          PROVE  s \o MakeCodes(k) = Append(s, k[1]) /\ s \o BreakCodes(k) = Append(s, k[1] + 128)
      BY <1>5, <1>6, <2>1
    <2> QED BY <1>3, <1>8, <2>2
  <1> QED BY <1>3, <1>7, <1>8

\* The driver echoes what the key types.
LEMMA EchoedIsTyped ==
  ASSUME NEW k \in Hands, PrintScreen \notin Hands, NEW held, NEW lock \in BOOLEAN
  PROVE  /\ Echoed(k[1], k[2], held, lock) = Types(k, held, lock)
         /\ Types(k, held, lock) = INV \/ Types(k, held, lock) \in Int \X {0, 1}
  <1> DEFINE shift == <<KEY_SHIFT_L, 2>> \in held \/ <<KEY_SHIFT_R, 2>> \in held
             upper == IF k[1] \in Letters THEN shift # lock ELSE shift
             col   == IF upper THEN 1 ELSE 0
  <1>1. k = <<k[1], k[2]>> /\ k[1] \in 1 .. 95 /\ k[2] \in {2, 3}
    BY KeyType
  <1>2. ((lock /\ k[1] \in Letters) # shift) <=> upper
    <2>1. CASE k[1] \in Letters
      BY <2>1
    <2>2. CASE k[1] \notin Letters
      BY <2>2
    <2> QED BY <2>1, <2>2
  <1>3. \A c \in {0, 1} : Face(k[1], c) = INV \/ Face(k[1], c) \in Int \X {0, 1}
    BY <1>1 DEF Face
  <1>6. Types(k, held, lock) = CASE k[2] = 2 \/ k[1] = KEY_SLASH -> Face(k[1], col)
                                 [] k = <<KEY_ENTER, 3>> -> <<KEY_ENTER, 0>>
                                 [] k = <<KEY_PAD_POINT, 3>> -> <<KEY_PAD_POINT, 1>>
                                 [] OTHER -> INV
    BY DEF Types
  <1>7. col \in {0, 1}
    OBVIOUS
  <1>8. ~(k[2] = 3 /\ k[1] # KEY_SLASH) => Echoed(k[1], k[2], held, lock) = Face(k[1], col)
    BY <1>2 DEF Echoed
  <1> HIDE DEF col, upper, shift
  <1>4. CASE k[2] = 2 \/ k[1] = KEY_SLASH
    <2>1. Types(k, held, lock) = Face(k[1], col)
      <3>1. k # <<KEY_ENTER, 3>> /\ k # <<KEY_PAD_POINT, 3>>
        BY <1>1, <1>4 DEF KEY_ENTER, KEY_PAD_POINT, KEY_SLASH
      <3> QED BY <1>4, <1>6, <3>1
    <2>2. Echoed(k[1], k[2], held, lock) = Face(k[1], col)
      BY <1>4, <1>8
    <2> QED BY <1>3, <1>7, <2>1, <2>2
  <1>5. CASE k[2] = 3 /\ k[1] # KEY_SLASH
    <2>1. Echoed(k[1], k[2], held, lock) = Face(k[1], 1)
      BY <1>5 DEF Echoed
    <2>2. k[1] \in Extended /\ k[1] # KEY_STAR /\ k[1] # KEY_SLASH
      <3>1. k \in ((1 .. 88) \X {2}) \cup (Extended \X {3})
        BY KeyboardAssumption
      <3>2. k[1] \in Extended
        BY <1>5, <3>1
      <3>3. k # PrintScreen
        OBVIOUS
      <3> QED BY <1>1, <1>5, <3>2, <3>3 DEF PrintScreen
    <2>3. CASE k[1] = KEY_ENTER
      <3>1. Types(k, held, lock) = <<KEY_ENTER, 0>>
        <4>1. k = <<KEY_ENTER, 3>> /\ k # <<KEY_PAD_POINT, 3>>
          BY <1>1, <1>5, <2>3 DEF KEY_ENTER, KEY_PAD_POINT
        <4> QED BY <1>5, <1>6, <4>1
      <3>2. Face(k[1], 1) = <<KEY_ENTER, 0>>
        BY <2>3 DEF Face, Letters, Symbols, Alike, KEY_ENTER, KEY_SLASH, KEY_PAD_POINT, KEY_TAB, KEY_STAR
      <3> QED BY <1>3, <2>1, <3>1, <3>2 DEF KEY_ENTER
    <2>4. CASE k[1] = KEY_PAD_POINT
      <3>1. Types(k, held, lock) = <<KEY_PAD_POINT, 1>>
        <4>1. k = <<KEY_PAD_POINT, 3>> /\ k # <<KEY_ENTER, 3>>
          BY <1>1, <1>5, <2>4 DEF KEY_ENTER, KEY_PAD_POINT
        <4> QED BY <1>5, <1>6, <4>1
      <3>2. Face(k[1], 1) = <<KEY_PAD_POINT, 1>>
        <4>1. k[1] \in Letters \cup Symbols
          BY <2>4 DEF Symbols
        <4>2. k[1] \notin Alike /\ k[1] \notin Pad
          BY <2>4 DEF KEY_PAD_POINT, Alike, Pad, KEY_TAB, KEY_ENTER, KEY_STAR
        <4> QED BY <2>4, <4>1, <4>2 DEF Face
      <3> QED BY <1>3, <2>1, <3>1, <3>2 DEF KEY_PAD_POINT
    <2>5. CASE k[1] # KEY_ENTER /\ k[1] # KEY_PAD_POINT
      <3>1. k # <<KEY_ENTER, 3>> /\ k # <<KEY_PAD_POINT, 3>>
        BY <1>1, <2>5
      <3>2. Types(k, held, lock) = INV
        BY <1>5, <1>6, <3>1
      <3>3. k[1] \notin Letters \cup Symbols \cup Alike
        BY <2>2, <2>5 DEF Extended, Letters, Symbols, Alike, KEY_ENTER, KEY_SLASH, KEY_PAD_POINT, KEY_TAB, KEY_STAR
      <3>4. Face(k[1], 1) = INV
        BY <3>3 DEF Face
      <3> QED BY <2>1, <3>2, <3>4
    <2> QED BY <2>3, <2>4, <2>5
  <1> QED BY <1>1, <1>4, <1>5


LEMMA StateType ==
  ASSUME NEW k \in SUBSET (Int \X {2, 3}), NEW l \in BOOLEAN, NEW n \in Nat
  PROVE  State(k, l, FALSE, n) \in DriverStates /\ State(k, l, TRUE, n) \in DriverStates
  BY DEF State, DriverStates

\* The ends of a replay.
LEMMA ReplayEnds ==
  ASSUME KeyboardInv
  PROVE  /\ keymap \in SUBSET (Int \X {2, 3}) /\ capslock_state \in BOOLEAN
         /\ extcode_state \in BOOLEAN
         /\ down \in SUBSET (Int \X {2, 3}) /\ caps \in BOOLEAN /\ Len(due) \in Nat
         /\ State(down, caps, FALSE, Len(due)) \in DriverStates
  <1>1. port \in Seq(Int) /\ due \in Seq(Int \X {0, 1})
    BY DEF KeyboardInv
  <1>2. PICK st : Replay(st, State(keymap, capslock_state, extcode_state, 0), port, due,
                             State(down, caps, FALSE, Len(due)))
    BY DEF KeyboardInv
  <1>3. 0 \in 0 .. Len(port) /\ Len(port) \in 0 .. Len(port)
    BY <1>1
  <1>4. /\ State(keymap, capslock_state, extcode_state, 0) \in DriverStates
        /\ State(down, caps, FALSE, Len(due)) \in DriverStates
    BY <1>2, <1>3 DEF Replay
  <1> QED BY <1>1, <1>4 DEF State, DriverStates

\* A prefix takes the driver to the state that expects an extended code.
LEMMA PrefixTakes ==
  ASSUME NEW k, NEW l, NEW n, NEW d
  PROVE  Takes(State(k, l, FALSE, n), Prefix, State(k, l, TRUE, n), d)
  <1>1. Prefix \notin 1 .. 95 /\ Prefix \notin 129 .. 223
    BY DEF Prefix
  <1> QED BY <1>1 DEF Takes, State

LEMMA MakeTakes ==
  ASSUME NEW y, NEW z, NEW d, NEW code \in 1 .. 95, NEW ch,
         Echoed(code, IF y.ext THEN 3 ELSE 2, z.keys, z.lock) = ch,
         z.keys = y.keys \cup {<<code, IF y.ext THEN 3 ELSE 2>>},
         z.lock = (y.lock # (code = KEY_CAPSLOCK)),
         z.done = IF ch = INV THEN y.done ELSE y.done + 1,
         ch # INV => z.done \in 1 .. Len(d) /\ d[z.done] = ch,
         z.ext = (code = Prefix)
  PROVE  Takes(y, code, z, d)
  <1>1. code # Prefix /\ code \notin 129 .. 223
    BY DEF Prefix
  <1> QED BY <1>1 DEF Takes

LEMMA BreakTakes ==
  ASSUME NEW y, NEW z, NEW d, NEW code \in 129 .. 223, z.done = y.done, z.lock = y.lock,
         z.keys = y.keys \ {<<code - 128, IF y.ext THEN 3 ELSE 2>>},
         z.ext = (code = Prefix), code # Prefix
  PROVE  Takes(y, code, z, d)
  <1>1. code \notin 1 .. 95
    OBVIOUS
  <1> QED BY <1>1 DEF Takes

\* The codes of a key follow those that wait, and take the driver from y to z.
LEMMA KeyReplay ==
  ASSUME KeyboardInv, NEW k \in Hands, PrintScreen \notin Hands, NEW code \in Int,
         NEW e \in Seq(Int \X {0, 1}), NEW z \in DriverStates, Len(due) <= z.done,
         Takes(State(down, caps, k[2] = 3, Len(due)), code, z, e),
         Len(due) <= Len(e), \A i \in 1 .. Len(due) : e[i] = due[i]
  PROVE  LET a == State(keymap, capslock_state, extcode_state, 0)
         IN /\ k[2] = 3 => \E s : Replay(s, a, Append(Append(port, Prefix), code), e, z)
            /\ k[2] = 2 => \E s : Replay(s, a, Append(port, code), e, z)
  <1> DEFINE a == State(keymap, capslock_state, extcode_state, 0)
             y == State(down, caps, FALSE, Len(due))
             x == State(down, caps, TRUE, Len(due))
  <1>1. /\ port \in Seq(Int) /\ due \in Seq(Int \X {0, 1}) /\ Prefix \in Int
        /\ down \in SUBSET (Int \X {2, 3}) /\ caps \in BOOLEAN /\ Len(due) \in Nat
    <2>1. Prefix \in Int
      BY DEF Prefix
    <2> QED BY <2>1, ReplayEnds DEF KeyboardInv
  <1>2. PICK st : Replay(st, a, port, due, y)
    BY DEF KeyboardInv
  <1>3. x \in DriverStates /\ x.done = Len(due) /\ y.done = Len(due)
    <2>1. x \in DriverStates
      BY <1>1, StateType
    <2> QED BY <2>1 DEF State
  <1>6. x.done \in Int /\ y.done <= x.done /\ x.done <= z.done /\ y.done <= z.done
    <2> HIDE DEF x, y
    <2> QED BY <1>1, <1>3
  <1>4. CASE k[2] = 3
    <2>1. Takes(y, Prefix, x, due) /\ Takes(x, code, z, e)
      BY <1>4, PrefixTakes
    <2> HIDE DEF a, x, y
    <2>2. PICK s : Replay(s, a, Append(port, Prefix), due, x)
      BY <1>1, <1>2, <1>3, <1>6, <2>1, ReplayAppend, ZenonT(30)
    <2>3. Append(port, Prefix) \in Seq(Int)
      BY <1>1
    <2>4. \E t : Replay(t, a, Append(Append(port, Prefix), code), e, z)
      BY <1>1, <1>3, <1>6, <2>1, <2>2, <2>3, ReplayAppend
    <2> QED BY <1>4, <2>4 DEF a
  <1>5. CASE k[2] = 2
    <2>1. Takes(y, code, z, e)
      <3>1. (k[2] = 3) = FALSE
        BY <1>5
      <3> QED BY <3>1
    <2> HIDE DEF a, x, y
    <2>2. \E t : Replay(t, a, Append(port, code), e, z)
      BY <1>1, <1>2, <1>3, <1>6, <2>1, ReplayAppend
    <2> QED BY <1>5, <2>2 DEF a
  <1> QED BY <1>4, <1>5

LEMMA PressInv ==
  ASSUME KeyboardInv, NEW k \in Hands, PrintScreen \notin Hands, Press(k)
  PROVE  KeyboardInv'
  <1> DEFINE ch == Types(k, down', caps')
             z  == State(down', caps', FALSE, Len(due'))
             y  == State(down, caps, k[2] = 3, Len(due))
  <1>1. /\ port \in Seq(Int) /\ due \in Seq(Int \X {0, 1})
        /\ down \in SUBSET (Int \X {2, 3}) /\ caps \in BOOLEAN /\ Len(due) \in Nat
    BY ReplayEnds DEF KeyboardInv
  <1>2. /\ k = <<k[1], k[2]>> /\ k[1] \in 1 .. 95 /\ k[2] \in {2, 3} /\ k \in Int \X {2, 3}
        /\ port \o MakeCodes(k) = IF k[2] = 3 THEN Append(Append(port, Prefix), k[1])
                                              ELSE Append(port, k[1])
    BY <1>1, KeyType
  <1>3. /\ down' = down \cup {k} /\ caps' = (caps # (k[1] = KEY_CAPSLOCK))
        /\ port' = port \o MakeCodes(k)
        /\ due' = due \o (IF ch = INV THEN <<>> ELSE <<ch>>)
        /\ UNCHANGED <<keymap, capslock_state, extcode_state>>
    BY DEF Press, driverVars
  <1>4. caps' \in BOOLEAN /\ down' \in SUBSET (Int \X {2, 3})
    BY <1>1, <1>2, <1>3
  <1>5. /\ Echoed(k[1], k[2], down', caps') = ch /\ (ch = INV \/ ch \in Int \X {0, 1})
    BY <1>4, EchoedIsTyped
  <1> HIDE DEF ch
  <1>6. /\ due' \in Seq(Int \X {0, 1}) /\ Len(due') = (IF ch = INV THEN Len(due) ELSE Len(due) + 1)
        /\ \A i \in 1 .. Len(due) : due'[i] = due[i]
        /\ ch # INV => due'[Len(due) + 1] = ch
    <2>1. CASE ch = INV
      <3>1. due' = due
        BY <1>1, <1>3, <2>1, ConcatEmptySeq
      <3> QED BY <1>1, <2>1, <3>1
    <2>2. CASE ch # INV
      <3>1. due' = Append(due, ch)
        BY <1>1, <1>3, <1>5, <2>2, AppendIsConcat
      <3> QED BY <1>1, <1>5, <2>2, <3>1
    <2> QED BY <2>1, <2>2
  <1>7. z \in DriverStates /\ z.done = Len(due') /\ z.keys = down' /\ z.lock = caps' /\ z.ext = FALSE
    <2>2. Len(due') \in Nat
      BY <1>6
    <2>1. z \in DriverStates
      BY <1>4, <2>2, StateType
    <2> QED BY <2>1 DEF State
  <1>8. y.done = Len(due) /\ y.keys = down /\ y.lock = caps /\ (IF y.ext THEN 3 ELSE 2) = k[2]
    BY <1>2 DEF State
  <1>9. Takes(y, k[1], z, due')
    <2> HIDE DEF y, z
    <2>1. k[1] # Prefix
      <3>1. \A m \in 1 .. 95 : m # Prefix
        BY DEF Prefix
      <3> QED BY <1>2, <3>1
    <2>2. Echoed(k[1], IF y.ext THEN 3 ELSE 2, z.keys, z.lock) = ch
      BY <1>5, <1>7, <1>8
    <2>3. z.keys = y.keys \cup {<<k[1], IF y.ext THEN 3 ELSE 2>>}
      BY <1>2, <1>3, <1>7, <1>8
    <2>4. z.lock = (y.lock # (k[1] = KEY_CAPSLOCK))
      BY <1>3, <1>7, <1>8
    <2>5. z.done = IF ch = INV THEN y.done ELSE y.done + 1
      BY <1>6, <1>7, <1>8
    <2>6. ch # INV => z.done \in 1 .. Len(due') /\ due'[z.done] = ch
      BY <1>1, <1>6, <1>7
    <2>7. z.ext = (k[1] = Prefix)
      BY <1>7, <2>1
    <2> QED BY <1>2, <2>2, <2>3, <2>4, <2>5, <2>6, <2>7, MakeTakes
  <1>10. Len(due) <= z.done /\ Len(due) <= Len(due')
    <2> HIDE DEF z
    <2>1. Len(due) <= Len(due')
      <3>1. CASE ch = INV
        BY <1>1, <1>6, <3>1
      <3>2. CASE ch # INV
        BY <1>1, <1>6, <3>2
      <3> QED BY <3>1, <3>2
    <2> QED BY <1>7, <2>1
  <1> DEFINE a == State(keymap, capslock_state, extcode_state, 0)
  <1>11. \E s : Replay(s, a, port', due', z)
    <2>1. k[1] \in Int
      BY <1>2
    <2>2. /\ k[2] = 3 => \E s : Replay(s, a, Append(Append(port, Prefix), k[1]), due', z)
          /\ k[2] = 2 => \E s : Replay(s, a, Append(port, k[1]), due', z)
      <3> HIDE DEF z
      <3> QED BY <1>6, <1>7, <1>9, <1>10, <2>1, KeyReplay
    <2> HIDE DEF z, a
    <2> QED BY <1>2, <1>3, <2>2
  <1>12. port' \in Seq(Int)
    <2>1. Prefix \in Int /\ k[1] \in Int
      BY <1>2 DEF Prefix
    <2> QED BY <1>1, <1>2, <1>3, <2>1
  <1> QED BY <1>3, <1>6, <1>11, <1>12 DEF KeyboardInv

LEMMA ReleaseInv ==
  ASSUME KeyboardInv, NEW k \in Hands, PrintScreen \notin Hands, Release(k)
  PROVE  KeyboardInv'
  <1> DEFINE z  == State(down', caps, FALSE, Len(due))
             y  == State(down, caps, k[2] = 3, Len(due))
             c  == k[1] + 128
  <1>1. /\ port \in Seq(Int) /\ due \in Seq(Int \X {0, 1})
        /\ down \in SUBSET (Int \X {2, 3}) /\ caps \in BOOLEAN /\ Len(due) \in Nat
    BY ReplayEnds DEF KeyboardInv
  <1>2. /\ k = <<k[1], k[2]>> /\ k[1] \in 1 .. 95 /\ k[2] \in {2, 3} /\ k \in Int \X {2, 3}
        /\ port \o BreakCodes(k) = IF k[2] = 3 THEN Append(Append(port, Prefix), c)
                                               ELSE Append(port, c)
    BY <1>1, KeyType
  <1>3. /\ down' = down \ {k} /\ port' = port \o BreakCodes(k)
        /\ UNCHANGED <<keymap, capslock_state, extcode_state, caps, due>>
    BY DEF Release, driverVars
  <1>4. z \in DriverStates /\ z.done = Len(due) /\ z.keys = down' /\ z.lock = caps /\ z.ext = FALSE
    <2>1. down' \in SUBSET (Int \X {2, 3})
      BY <1>1, <1>3
    <2>2. z \in DriverStates
      BY <1>1, <2>1, StateType
    <2> QED BY <2>2 DEF State
  <1>5. y.done = Len(due) /\ y.keys = down /\ y.lock = caps /\ (IF y.ext THEN 3 ELSE 2) = k[2]
    BY <1>2 DEF State
  <1>6. Takes(y, c, z, due)
    <2> HIDE DEF y, z
    <2>1. c # Prefix /\ c \in 129 .. 223 /\ c - 128 = k[1]
      <3>1. \A m \in 1 .. 95 : m + 128 # Prefix /\ m + 128 \in 129 .. 223 /\ (m + 128) - 128 = m
        BY DEF Prefix
      <3> QED BY <1>2, <3>1
    <2>2. z.keys = y.keys \ {<<c - 128, IF y.ext THEN 3 ELSE 2>>}
      <3>1. <<c - 128, IF y.ext THEN 3 ELSE 2>> = k
        BY <1>2, <1>5, <2>1
      <3> QED BY <1>3, <1>4, <1>5, <3>1
    <2>3. z.ext = (c = Prefix)
      BY <1>4, <2>1
    <2> HIDE DEF c
    <2> QED BY <1>4, <1>5, <2>1, <2>2, <2>3, BreakTakes, ZenonT(30)
  <1> DEFINE a == State(keymap, capslock_state, extcode_state, 0)
  <1>7. c \in Int
    BY <1>2
  <1>8. \E s : Replay(s, a, port', due, z)
    <2>1. /\ k[2] = 3 => \E s : Replay(s, a, Append(Append(port, Prefix), c), due, z)
          /\ k[2] = 2 => \E s : Replay(s, a, Append(port, c), due, z)
      <3> HIDE DEF z, c
      <3> QED BY <1>1, <1>4, <1>6, <1>7, KeyReplay
    <2> HIDE DEF z, a, c
    <2> QED BY <1>2, <1>3, <2>1
  <1>9. port' \in Seq(Int)
    <2>1. Prefix \in Int
      BY DEF Prefix
    <2> QED BY <1>1, <1>2, <1>3, <1>7, <2>1
  <1> QED BY <1>1, <1>3, <1>8, <1>9 DEF KeyboardInv


\* A state, once m more characters have been echoed.
Less(a, m) == State(a.keys, a.lock, a.ext, a.done - m)

LEMMA LessTakes ==
  ASSUME NEW a \in DriverStates, NEW b \in DriverStates, NEW m \in Nat, NEW code,
         NEW d \in Seq(Int \X {0, 1}), NEW e \in Seq(Int \X {0, 1}),
         Takes(a, code, b, d), m <= a.done, Len(e) = Len(d) - m,
         \A i \in 1 .. Len(e) : e[i] = d[i + m]
  PROVE  Takes(Less(a, m), code, Less(b, m), e)
  <1> DEFINE x == Less(a, m)
             y == Less(b, m)
             ext == IF a.ext THEN 3 ELSE 2
             ch  == Echoed(code, ext, b.keys, b.lock)
  <1>1. /\ x.keys = a.keys /\ x.lock = a.lock /\ x.ext = a.ext /\ x.done = a.done - m
        /\ y.keys = b.keys /\ y.lock = b.lock /\ y.ext = b.ext /\ y.done = b.done - m
    BY DEF Less, State
  <1>2. a.done \in Int /\ b.done \in Int /\ Len(d) \in Nat
    BY DEF DriverStates
  <1>3. ASSUME code \in 1 .. 95, ch = INV PROVE b.done = a.done
    BY <1>3 DEF Takes
  <1>4. ASSUME code \in 1 .. 95, ch # INV PROVE b.done = a.done + 1 /\ b.done \in 1 .. Len(d) /\ d[b.done] = ch
    BY <1>4 DEF Takes
  <1>5. ASSUME code \in 1 .. 95, ch # INV PROVE y.done \in 1 .. Len(e) /\ e[y.done] = ch
    <2>1. b.done = a.done + 1 /\ b.done \in 1 .. Len(d) /\ d[b.done] = ch
      BY <1>4, <1>5
    <2> HIDE DEF ch, x, y
    <2>2. y.done = b.done - m
      BY <1>1
    <2>3. y.done \in Int /\ y.done + m = b.done /\ y.done >= 1 /\ y.done <= Len(d) - m
      BY <1>2, <2>1, <2>2, SMTT(30)
    <2>4. y.done \in 1 .. Len(e)
      BY <2>3
    <2> QED BY <2>1, <2>3, <2>4
  <1>6. ASSUME code \in 1 .. 95 PROVE y.done = IF ch = INV THEN x.done ELSE x.done + 1
    <2>1. CASE ch = INV
      <3>1. b.done = a.done
        BY <1>3, <1>6, <2>1
      <3> HIDE DEF ch, x, y
      <3> QED BY <1>1, <2>1, <3>1
    <2>2. CASE ch # INV
      <3>1. b.done = a.done + 1
        BY <1>4, <1>6, <2>2
      <3> HIDE DEF ch, x, y
      <3> QED BY <1>1, <1>2, <2>2, <3>1
    <2> QED BY <2>1, <2>2
  <1>7. ch = Echoed(code, IF x.ext THEN 3 ELSE 2, y.keys, y.lock)
    BY <1>1
  <1>8. /\ b.ext = (code = Prefix)
        /\ code = Prefix => b.keys = a.keys /\ b.lock = a.lock /\ b.done = a.done
        /\ code # Prefix => code \in 1 .. 95 \/ code \in 129 .. 223
        /\ code \in 129 .. 223 => /\ b.keys = a.keys \ {<<code - 128, ext>>}
                                  /\ b.lock = a.lock /\ b.done = a.done
        /\ code \in 1 .. 95 => /\ b.keys = a.keys \cup {<<code, ext>>}
                               /\ b.lock = (a.lock # (code = KEY_CAPSLOCK))
    BY DEF Takes
  <1> HIDE DEF ch, x, y
  <1>9. Takes(x, code, y, e)
    <2>1. CASE code = Prefix
      <3>1. code \notin 1 .. 95 /\ code \notin 129 .. 223
        BY <2>1 DEF Prefix
      <3>2. y.keys = x.keys /\ y.lock = x.lock /\ y.done = x.done
        <4>1. b.keys = a.keys /\ b.lock = a.lock /\ b.done = a.done
          BY <1>8, <2>1
        <4> QED BY <1>1, <4>1
      <3>3. y.ext = (code = Prefix)
        BY <1>1, <1>8
      <3> QED BY <2>1, <3>1, <3>2, <3>3 DEF Takes
    <2>2. CASE code \in 129 .. 223
      <3>1. code # Prefix /\ y.ext = (code = Prefix)
        BY <1>1, <1>8, <2>2 DEF Prefix
      <3>2. y.done = x.done /\ y.lock = x.lock /\ y.keys = x.keys \ {<<code - 128, IF x.ext THEN 3 ELSE 2>>}
        BY <1>1, <1>8, <2>2
      <3> QED BY <2>2, <3>1, <3>2, BreakTakes
    <2>3. CASE code \in 1 .. 95
      <3>1. /\ y.keys = x.keys \cup {<<code, IF x.ext THEN 3 ELSE 2>>}
            /\ y.lock = (x.lock # (code = KEY_CAPSLOCK)) /\ y.ext = (code = Prefix)
        BY <1>1, <1>8, <2>3
      <3> QED BY <1>5, <1>6, <1>7, <2>3, <3>1, MakeTakes
    <2> QED BY <1>8, <2>1, <2>2, <2>3
  <1> QED BY <1>9 DEF x, y

\* keyboard_cb does what the next code of the replay does.
LEMMA cbTakes ==
  ASSUME KeyboardInv, keyboard_cb, NEW b \in DriverStates,
         Takes(State(keymap, capslock_state, extcode_state, 0), port[1], b, due)
  PROVE  /\ port # <<>> /\ port' = Tail(port) /\ UNCHANGED <<down, caps>>
         /\ keymap' = b.keys /\ capslock_state' = b.lock /\ extcode_state' = b.ext
         /\ (b.done = 0 /\ due' = due) \/ (b.done = 1 /\ due # <<>> /\ due' = Tail(due))
  <1> DEFINE a == State(keymap, capslock_state, extcode_state, 0)
             ext == IF extcode_state THEN 3 ELSE 2
             low == Head(port) % 128
             makecode == IF low = CODE_PRINT_SCREEN_DOWN THEN KEY_PRINT_SCREEN ELSE low
  <1>0. PICK c : c = port[1]
    OBVIOUS
  <1>1. /\ port # <<>> /\ port' = Tail(port) /\ UNCHANGED <<down, caps>>
        /\ extcode_state' = (Head(port) = Prefix)
    BY DEF keyboard_cb, handVars
  <1>2. port \in Seq(Int) /\ Head(port) = c /\ due \in Seq(Int \X {0, 1})
    BY <1>0, <1>1 DEF KeyboardInv
  <1>3. capslock_state \in BOOLEAN /\ b.lock \in BOOLEAN /\ b.keys \in SUBSET (Int \X {2, 3})
    BY ReplayEnds DEF DriverStates
  <1>4. a.keys = keymap /\ a.lock = capslock_state /\ a.ext = extcode_state /\ a.done = 0
    BY DEF State
  <1>5. /\ b.ext = (c = Prefix)
        /\ c = Prefix => b.keys = keymap /\ b.lock = capslock_state /\ b.done = 0
        /\ c # Prefix => c \in 1 .. 95 \/ c \in 129 .. 223
        /\ c \in 129 .. 223 => /\ b.keys = keymap \ {<<c - 128, ext>>}
                               /\ b.lock = capslock_state /\ b.done = 0
        /\ c \in 1 .. 95 => /\ b.keys = keymap \cup {<<c, ext>>}
                            /\ b.lock = (capslock_state # (c = KEY_CAPSLOCK))
    <2>1. Takes(a, c, b, due)
      BY <1>0
    <2> HIDE DEF a
    <2>2. (IF a.ext THEN 3 ELSE 2) = ext
      BY <1>4
    <2>3. b.ext = (c = Prefix) /\ (c # Prefix => c \in 1 .. 95 \/ c \in 129 .. 223)
      BY <2>1 DEF Takes
    <2>4. c = Prefix => b.keys = keymap /\ b.lock = capslock_state /\ b.done = 0
      BY <1>4, <2>1 DEF Takes
    <2> HIDE DEF ext
    <2>5. c \in 129 .. 223 => b.keys = keymap \ {<<c - 128, ext>>} /\ b.lock = capslock_state /\ b.done = 0
      BY <1>4, <2>1, <2>2 DEF Takes
    <2>6. ASSUME c \in 1 .. 95
          PROVE  b.keys = keymap \cup {<<c, ext>>} /\ b.lock = (capslock_state # (c = KEY_CAPSLOCK))
      <3>1. /\ b.keys = a.keys \cup {<<c, IF a.ext THEN 3 ELSE 2>>}
            /\ b.lock = (a.lock # (c = KEY_CAPSLOCK))
        BY <2>1, <2>6 DEF Takes
      <3>2. b.keys = keymap \cup {<<c, ext>>}
        BY <1>4, <2>2, <3>1
      <3>3. b.lock = (capslock_state # (c = KEY_CAPSLOCK))
        BY <1>4, <3>1
      <3> QED BY <3>2, <3>3
    <2> QED BY <2>3, <2>4, <2>5, <2>6
  <1>6. ASSUME c \in 1 .. 95
        PROVE  LET ch == Echoed(c, ext, b.keys, b.lock)
               IN /\ ch = INV => b.done = 0
                  /\ ch # INV => b.done = 1 /\ 1 \in 1 .. Len(due) /\ due[1] = ch
    <2> DEFINE ch == Echoed(c, ext, b.keys, b.lock)
    <2>0. Takes(a, c, b, due)
      BY <1>0
    <2> HIDE DEF a
    <2>1. b.done = IF ch = INV THEN a.done ELSE a.done + 1
      BY <1>4, <1>6, <2>0 DEF Takes
    <2>2. ch # INV => b.done \in 1 .. Len(due) /\ due[b.done] = ch
      BY <1>4, <1>6, <2>0 DEF Takes
    <2> HIDE DEF ch
    <2>3. CASE ch = INV
      BY <1>4, <2>1, <2>3 DEF ch
    <2>4. CASE ch # INV
      <3>1. b.done = 1
        BY <1>4, <2>1, <2>4
      <3> QED BY <2>2, <2>4, <3>1 DEF ch
    <2> QED BY <2>3, <2>4
  <1>7. CASE c = Prefix
    <2>1. c # KEY_PRINT_SCREEN /\ ~(c <= KEY_PRINT_SCREEN)
      BY <1>7 DEF Prefix, KEY_PRINT_SCREEN
    <2>2. keymap' = keymap /\ capslock_state' = (capslock_state # FALSE) /\ due' = due
      BY <1>2, <1>7, <2>1 DEF keyboard_cb
    <2>3. capslock_state' = capslock_state
      BY <1>3, <2>2
    <2> QED BY <1>1, <1>2, <1>5, <1>7, <2>2, <2>3
  <1>8. CASE c \in 129 .. 223
    <2>1. c # Prefix /\ ~(c <= KEY_PRINT_SCREEN) /\ c >= 128
      BY <1>8 DEF Prefix, KEY_PRINT_SCREEN
    <2>2. c % 128 = c - 128
      BY <1>8
    <2>3. makecode = c - 128 /\ ~(makecode > KEY_PRINT_SCREEN)
      <3>1. low = c - 128 /\ low # CODE_PRINT_SCREEN_DOWN
        <4>1. low = c - 128
          BY <1>2, <2>2
        <4>2. c - 128 # CODE_PRINT_SCREEN_DOWN
          BY <1>8 DEF CODE_PRINT_SCREEN_DOWN
        <4> QED BY <4>1, <4>2
      <3> HIDE DEF low
      <3> QED BY <1>8, <3>1 DEF KEY_PRINT_SCREEN
    <2>4. /\ keymap' = keymap \ {<<makecode, ext>>}
          /\ capslock_state' = (capslock_state # FALSE) /\ due' = due
      BY <1>2, <2>1, <2>3 DEF keyboard_cb
    <2>5. capslock_state' = capslock_state
      BY <1>3, <2>4
    <2> HIDE DEF makecode
    <2> QED BY <1>1, <1>2, <1>5, <1>8, <2>3, <2>4, <2>5
  <1>9. CASE c \in 1 .. 95
    <2>1. c # Prefix /\ c <= KEY_PRINT_SCREEN /\ ~(c >= 128)
      BY <1>9 DEF Prefix, KEY_PRINT_SCREEN
    <2>2. c % 128 = c
      BY <1>9
    <2>3. makecode = c /\ ~(makecode > KEY_PRINT_SCREEN)
      <3>1. low = c /\ low # CODE_PRINT_SCREEN_DOWN
        BY <1>2, <1>9, <2>2 DEF CODE_PRINT_SCREEN_DOWN
      <3> HIDE DEF low
      <3> QED BY <2>1, <3>1, <1>9 DEF KEY_PRINT_SCREEN
    <2> DEFINE shift == (capslock_state' /\ makecode \in Letters) # shift_state'
               column == IF (ext = 3 /\ makecode # KEY_SLASH) \/ shift THEN 1 ELSE 0
               ch == Face(makecode, column)
    <2>4. /\ keymap' = keymap \cup {<<makecode, ext>>}
          /\ capslock_state' = (capslock_state # (makecode = KEY_CAPSLOCK))
          /\ (ch = INV /\ due' = due)
             \/ (ch # INV /\ due' = IF due # <<>> /\ Head(due) = ch THEN Tail(due) ELSE due)
      <3> HIDE DEF makecode
      <3> QED BY <1>2, <2>1, <2>3, ZenonT(30) DEF keyboard_cb, makecode
    <2>5. keymap' = b.keys /\ capslock_state' = b.lock
      <3> HIDE DEF makecode, ch
      <3> QED BY <1>5, <1>9, <2>3, <2>4
    <2>6. ch = Echoed(c, ext, b.keys, b.lock)
      <3>1. ch = Echoed(makecode, ext, keymap', capslock_state')
        BY DEF Echoed, shift_state
      <3> HIDE DEF ch, makecode, ext
      <3> QED BY <2>3, <2>5, <3>1
    <2> HIDE DEF ch, makecode, ext
    <2>7. CASE ch = INV
      <3>1. b.done = 0 /\ due' = due
        BY <1>6, <1>9, <2>4, <2>6, <2>7
      <3> QED BY <1>1, <1>2, <1>5, <2>5, <3>1
    <2>8. CASE ch # INV
      <3>1. b.done = 1 /\ 1 \in 1 .. Len(due) /\ due[1] = ch
        BY <1>6, <1>9, <2>6, <2>8
      <3>2. due # <<>> /\ Head(due) = ch
        BY <1>2, <3>1
      <3>3. due' = Tail(due)
        BY <2>4, <2>8, <3>2
      <3> QED BY <1>1, <1>2, <1>5, <2>5, <3>1, <3>2, <3>3
    <2> QED BY <2>7, <2>8
  <1> QED BY <1>5, <1>7, <1>8, <1>9


LEMMA cbInv ==
  ASSUME KeyboardInv, keyboard_cb
  PROVE  KeyboardInv'
  <1> DEFINE a == State(keymap, capslock_state, extcode_state, 0)
             z == State(down, caps, FALSE, Len(due))
  <1>1. port \in Seq(Int) /\ due \in Seq(Int \X {0, 1}) /\ port # <<>>
    BY DEF KeyboardInv, keyboard_cb
  <1>2. PICK st : Replay(st, a, port, due, z)
    BY DEF KeyboardInv
  <1>3. PICK n \in Nat : n = Len(port) /\ n >= 1
    BY <1>1
  <1>4. /\ st \in [0 .. n -> DriverStates] /\ st[0] = a /\ st[n] = z
        /\ \A i \in 1 .. n : Takes(st[i - 1], port[i], st[i], due)
        /\ \A i, j \in 0 .. n : i <= j => st[i].done <= st[j].done
    BY <1>2, <1>3 DEF Replay
  <1>5. PICK b \in DriverStates : b = st[1]
    BY <1>3, <1>4
  <1>6. Takes(a, port[1], b, due)
    <2>1. 1 \in 1 .. n /\ 1 - 1 = 0
      BY <1>3
    <2> HIDE DEF a, z
    <2>2. Takes(st[1 - 1], port[1], st[1], due)
      BY <1>4, <2>1
    <2> QED BY <1>4, <1>5, <2>1, <2>2
  <1>7. /\ port' = Tail(port) /\ UNCHANGED <<down, caps>>
        /\ keymap' = b.keys /\ capslock_state' = b.lock /\ extcode_state' = b.ext
        /\ (b.done = 0 /\ due' = due) \/ (b.done = 1 /\ due # <<>> /\ due' = Tail(due))
    BY <1>6, cbTakes
  <1>8. PICK m \in {0, 1} : m = b.done
    BY <1>7
  <1>9. /\ due' \in Seq(Int \X {0, 1}) /\ Len(due') = Len(due) - m
        /\ \A i \in 1 .. Len(due') : due'[i] = due[i + m]
    <2>1. CASE m = 0
      <3>1. due' = due
        BY <1>7, <1>8, <2>1
      <3> QED BY <1>1, <2>1, <3>1
    <2>2. CASE m = 1
      <3>1. due # <<>> /\ due' = Tail(due)
        BY <1>7, <1>8, <2>2
      <3> QED BY <1>1, <2>2, <3>1
    <2> QED BY <2>1, <2>2
  <1>10. port' \in Seq(Int) /\ Len(port') = n - 1 /\ \A i \in 1 .. n - 1 : port'[i] = port[i + 1]
    BY <1>1, <1>3, <1>7
  <1> DEFINE s == [i \in 0 .. n - 1 |-> Less(st[i + 1], m)]
  <1> HIDE DEF a, z
  <1>11. \A i \in 1 .. n : st[i] \in DriverStates /\ st[i].done \in Int /\ m <= st[i].done
    <2> TAKE i \in 1 .. n
    <2>1. i \in 0 .. n /\ 1 \in 0 .. n /\ 1 <= i
      BY <1>3
    <2>2. st[i] \in DriverStates
      BY <1>4, <2>1
    <2>3. st[1].done <= st[i].done
      BY <1>4, <2>1
    <2>4. st[i].done \in Int
      BY <2>2 DEF DriverStates
    <2> QED BY <1>5, <1>8, <2>2, <2>3, <2>4
  <1>12. s \in [0 .. n - 1 -> DriverStates]
    <2>1. ASSUME NEW i \in 0 .. n - 1 PROVE Less(st[i + 1], m) \in DriverStates
      <3>1. i + 1 \in 1 .. n
        BY <1>3
      <3>2. PICK x \in DriverStates : x = st[i + 1]
        BY <1>11, <3>1
      <3>3. x.keys \in SUBSET (Int \X {2, 3}) /\ x.lock \in BOOLEAN /\ x.ext \in BOOLEAN /\ x.done - m \in Int
        BY DEF DriverStates
      <3> QED BY <3>2, <3>3 DEF Less, State, DriverStates
    <2> QED BY <2>1
  <1>13. \A i \in 0 .. n - 1 : s[i] = Less(st[i + 1], m)
    OBVIOUS
  <1> HIDE DEF s
  <1>14. s[0] = State(keymap', capslock_state', extcode_state', 0)
    <2>1. 0 \in 0 .. n - 1 /\ 0 + 1 = 1
      BY <1>3
    <2>2. s[0] = Less(st[0 + 1], m)
      BY <1>13, <2>1
    <2>3. s[0] = Less(b, m)
      BY <1>5, <2>1, <2>2
    <2>4. b.done - m = 0
      BY <1>8
    <2> QED BY <1>7, <2>3, <2>4 DEF Less
  <1>15. s[n - 1] = State(down', caps', FALSE, Len(due'))
    <2>1. n - 1 \in 0 .. n - 1 /\ (n - 1) + 1 = n
      BY <1>3
    <2>2. s[n - 1] = Less(st[(n - 1) + 1], m)
      BY <1>13, <2>1
    <2>3. s[n - 1] = Less(z, m)
      BY <1>4, <2>1, <2>2
    <2>4. z.keys = down /\ z.lock = caps /\ z.ext = FALSE /\ z.done = Len(due)
      BY DEF z, State
    <2> QED BY <1>7, <1>9, <2>3, <2>4 DEF Less
  <1>16. ASSUME NEW i \in 1 .. n - 1 PROVE Takes(s[i - 1], port'[i], s[i], due')
    <2>1. /\ i - 1 \in 0 .. n - 1 /\ i \in 0 .. n - 1 /\ (i - 1) + 1 = i /\ i \in 1 .. n
          /\ i + 1 \in 1 .. n /\ (i + 1) - 1 = i
      BY <1>3
    <2>2. s[i - 1] = Less(st[i], m) /\ s[i] = Less(st[i + 1], m)
      BY <1>13, <2>1
    <2>3. Takes(st[i], port[i + 1], st[i + 1], due)
      <3>1. Takes(st[(i + 1) - 1], port[i + 1], st[i + 1], due)
        BY <1>4, <2>1
      <3> QED BY <2>1, <3>1
    <2>4. st[i] \in DriverStates /\ st[i + 1] \in DriverStates /\ m <= st[i].done
      BY <1>11, <2>1
    <2>5. Takes(Less(st[i], m), port[i + 1], Less(st[i + 1], m), due')
      BY <1>1, <1>9, <2>3, <2>4, LessTakes, ZenonT(30)
    <2> QED BY <1>10, <2>2, <2>5
  <1>17. ASSUME NEW i \in 0 .. n - 1, NEW j \in 0 .. n - 1, i <= j PROVE s[i].done <= s[j].done
    <2>1. i + 1 \in 1 .. n /\ j + 1 \in 1 .. n /\ i + 1 <= j + 1 /\ i + 1 \in 0 .. n /\ j + 1 \in 0 .. n
      BY <1>3, <1>17
    <2>2. st[i + 1].done <= st[j + 1].done
      BY <1>4, <2>1
    <2>3. \A k \in 0 .. n - 1 : s[k].done = st[k + 1].done - m
      <3> TAKE k \in 0 .. n - 1
      <3>1. s[k] = Less(st[k + 1], m)
        BY <1>13
      <3>2. Less(st[k + 1], m).done = st[k + 1].done - m
        BY DEF Less, State
      <3> QED BY <3>1, <3>2
    <2> QED BY <1>11, <2>1, <2>2, <2>3
  <1>18. Replay(s, State(keymap', capslock_state', extcode_state', 0), port', due',
                State(down', caps', FALSE, Len(due')))
    BY <1>10, <1>12, <1>14, <1>15, <1>16, <1>17 DEF Replay
  <1> QED BY <1>9, <1>10, <1>18 DEF KeyboardInv

LEMMA KeyboardInitInv == KeyboardInit => KeyboardInv
  <1> SUFFICES ASSUME KeyboardInit PROVE KeyboardInv
    OBVIOUS
  <1> DEFINE a == State({}, FALSE, FALSE, 0)
             st == [i \in 0 .. 0 |-> a]
  <1>1. /\ keymap = {} /\ ~extcode_state /\ extcode_state = FALSE /\ capslock_state = FALSE
        /\ port = <<>> /\ down = {} /\ caps = FALSE /\ due = <<>>
    BY DEF KeyboardInit
  <1>2. a \in DriverStates
    BY StateType
  <1>3. a.done \in Int
    BY DEF State
  <1> HIDE DEF a
  <1>4. st \in [0 .. 0 -> DriverStates] /\ st[0] = a
    BY <1>2
  <1> HIDE DEF st
  <1>5. Replay(st, a, <<>>, <<>>, a)
    <2>1. Len(<<>>) = 0
      OBVIOUS
    <2>2. \A i \in 1 .. Len(<<>>) : Takes(st[i - 1], <<>>[i], st[i], <<>>)
      BY <2>1
    <2>3. \A i, j \in 0 .. 0 : st[i].done <= st[j].done
      BY <1>3, <1>4
    <2> QED BY <1>4, <2>1, <2>2, <2>3 DEF Replay
  <1>6. State(keymap, capslock_state, extcode_state, 0) = a /\ State(down, caps, FALSE, Len(due)) = a
    <2>1. Len(due) = 0
      BY <1>1
    <2> QED BY <1>1, <2>1 DEF a
  <1>7. Replay(st, State(keymap, capslock_state, extcode_state, 0), port, due,
               State(down, caps, FALSE, Len(due)))
    BY <1>1, <1>5, <1>6
  <1>8. port \in Seq(Int) /\ due \in Seq(Int \X {0, 1})
    BY <1>1
  <1> QED BY <1>7, <1>8 DEF KeyboardInv

\* The scan codes that wait lead the driver to what the hands have done, whatever is
\* pressed, released or printed in between, for any set of keys without Print Screen,
\* whose codes hold a shift that no key of its own was pressed for (keyboard.c:246-345).
THEOREM KeyboardInvariant ==
  ASSUME PrintScreen \notin Hands
  PROVE  KeyboardSpec => []KeyboardInv
  <1>1. KeyboardInit => KeyboardInv
    BY KeyboardInitInv
  <1>2. KeyboardInv /\ [KeyboardNext]_<<consoleVars, keyboardVars>> => KeyboardInv'
    <2> SUFFICES ASSUME KeyboardInv, [KeyboardNext]_<<consoleVars, keyboardVars>> PROVE KeyboardInv'
      OBVIOUS
    <2>1. ASSUME UNCHANGED keyboardVars PROVE KeyboardInv'
      <3>1. UNCHANGED <<keymap, capslock_state, extcode_state, port, down, caps, due>>
        BY <2>1 DEF keyboardVars, driverVars, handVars
      <3> QED BY <3>1 DEF KeyboardInv
    <2>2. CASE keyboard_cb
      BY <2>2, cbInv
    <2>3. ASSUME NEW k \in Hands, Press(k) PROVE KeyboardInv'
      BY <2>3, PressInv
    <2>4. ASSUME NEW k \in Hands, Release(k) PROVE KeyboardInv'
      BY <2>4, ReleaseInv
    <2> QED BY <2>1, <2>2, <2>3, <2>4 DEF KeyboardNext
  <1> QED BY <1>1, <1>2, PTL DEF KeyboardSpec

\* Once it has taken every scan code the driver has echoed every character typed and
\* holds the keys that are down (keyboard.c:246-345).
THEOREM DriverFollowsHandsHolds ==
  ASSUME PrintScreen \notin Hands
  PROVE  KeyboardSpec => []DriverFollowsHands
  <1>1. KeyboardInv => DriverFollowsHands
    <2> SUFFICES ASSUME KeyboardInv, port = <<>>
                 PROVE  due = <<>> /\ keymap = down /\ capslock_state = caps /\ ~extcode_state
      BY DEF DriverFollowsHands
    <2> DEFINE a == State(keymap, capslock_state, extcode_state, 0)
               z == State(down, caps, FALSE, Len(due))
    <2>1. PICK st : st[0] = a /\ st[Len(port)] = z
      BY DEF KeyboardInv, Replay
    <2>2. a = z
      BY <2>1
    <2>3. /\ a.keys = keymap /\ a.lock = capslock_state /\ a.ext = extcode_state /\ a.done = 0
          /\ z.keys = down /\ z.lock = caps /\ z.ext = FALSE /\ z.done = Len(due)
      BY DEF State
    <2> HIDE DEF a, z
    <2>4. keymap = down /\ capslock_state = caps /\ extcode_state = FALSE /\ Len(due) = 0
      BY <2>2, <2>3
    <2>5. due \in Seq(Int \X {0, 1})
      BY DEF KeyboardInv
    <2> QED BY <2>4, <2>5
  <1> QED BY <1>1, KeyboardInvariant, PTL
-----------------------------------------------------------------------------
(***************************************************************************)
(* The network path.  Until an excuse, the numbers of the frames grow from *)
(* the last one taken over the ring, the wire and the descriptors to the   *)
(* one sender that is filling in a descriptor, each frame is what was sent *)
(* under its number, and the ring holds a chain of frames, each where the  *)
(* one before it ends, from current_packet_ptr to the card's offset.       *)
(***************************************************************************)

\* An offset taken around a ring, and how far it lies from another.
Past(x, size) == IF x >= size THEN x - size ELSE x
Dist(i, from, size) == IF i >= from THEN i - from ELSE (i - from) + size

FrameType == [id : Nat, type : Nat, len : Nat]
SendType == [stage : Filling \cup {"idle", "wrap", "reset"}, at : Nat, frame : FrameType]
RX == RX_BUF_SIZE
Slots == 0 .. Descriptors - 1

Good(f, s) == f.id \in 1 .. Len(s) /\ f.len \in Nat /\ Handled(f) = s[f.id]

NicType ==
  /\ tsad \in [Slots -> FrameType] /\ tsd \in [Slots -> BOOLEAN]
  /\ sender \in [Senders -> SendType]
  /\ wire \in Seq(FrameType) /\ sent \in Seq([protocol : Nat, len : Nat])
  /\ free \in 1 .. RX /\ taken \in Nat

\* The frames in the ring R, of which used bytes from cur on hold frames.
Chain(R, cur, used) ==
  LET At(i)  == Dist(i, cur, RX)
      End(i) == At(i) + Padded(R[i].len)
  IN /\ cur \in 0 .. RX - 1 /\ cur % 4 = 0 /\ used \in 0 .. RX - 1
     /\ \A i \in DOMAIN R : /\ i \in 0 .. RX - 1 /\ R[i].id \in Nat /\ R[i].len \in Nat
                            /\ i + Padded(R[i].len) # RX
                            /\ End(i) <= used
                            /\ End(i) # used => \E j \in DOMAIN R : At(j) = End(i)
     /\ \A i, j \in DOMAIN R : At(i) < At(j) => End(i) <= At(j) /\ R[i].id < R[j].id
     /\ used # 0 => cur \in DOMAIN R

RingInv ==
  /\ Chain(ring, current_packet_ptr, RX - free)
  /\ cbr = Past(current_packet_ptr + (RX - free), RX)
  /\ handler = "receive" \/ (handler = "out" /\ status # {}) => RX - free # 0

WireInv == \A i, j \in 1 .. Len(wire) : i < j => wire[i].id < wire[j].id

\* The m descriptors from next on are to be sent, in the order of their frames.
Queue(T, S, cur, next, m) ==
  /\ next \in Slots /\ cur \in Slots /\ m \in 0 .. Descriptors /\ cur = Past(next + m, Descriptors)
  /\ \A d \in Slots : S[d] <=> Dist(d, next, Descriptors) < m
  /\ \A d, e \in Slots :
       S[d] /\ S[e] /\ Dist(d, next, Descriptors) < Dist(e, next, Descriptors) => T[d].id < T[e].id

\* One sender at most fills in a descriptor, which is cur, and tx_cur has moved on from it
\* only when the length is all that is missing; Descriptors stands for 0 until it is reset.
SenderInv(cur) ==
  /\ tx_cur \in 0 .. Descriptors
  /\ \A p, q \in Senders : sender[p].stage \in Filling /\ sender[q].stage \in Filling => p = q
  /\ \A p \in Senders :
       /\ sender[p].stage \in Filling => sender[p].at = cur
       /\ sender[p].stage \in Filling \ {"length"} => tx_cur = cur
       /\ sender[p].stage = "length" => Past(tx_cur, Descriptors) = Past(cur + 1, Descriptors)
       /\ sender[p].stage \in Filling \ {"address"} =>
            [tsad[cur] EXCEPT !.len = sender[p].frame.len] = sender[p].frame /\ ~tsd[cur]
  /\ (\A p \in Senders : sender[p].stage \notin Filling) => Past(tx_cur, Descriptors) = cur

\* Frames up to r have reached the ring, up to w the wire, up to l a descriptor.
Flight(r, w, l) ==
  /\ taken <= r /\ r <= w /\ w <= l /\ l <= Len(sent)
  /\ \A i \in DOMAIN ring : Good(ring[i], sent) /\ taken < ring[i].id /\ ring[i].id <= r
  /\ \A i \in 1 .. Len(wire) : Good(wire[i], sent) /\ r < wire[i].id /\ wire[i].id <= w
  /\ \A d \in Slots : tsd[d] => Good(OnWire(tsad[d]), sent) /\ w < tsad[d].id /\ tsad[d].id <= l
  /\ \A p \in Senders : sender[p].stage \in Filling =>
       Good(OnWire(sender[p].frame), sent) /\ l < sender[p].frame.id

\* The inductive invariant.
Sound ==
  /\ NicType /\ RingInv /\ WireInv /\ ~wrong
  /\ \E m \in 0 .. Descriptors, cur \in Slots :
       Queue(tsad, tsd, cur, tx_next, m) /\ SenderInv(cur)
  /\ \E r, w, l \in 0 .. Len(sent) : Flight(r, w, l)
NicInv == ~excused => Sound


LEMMA NicSizes == RX \in Nat \ {0} /\ RX % 4 = 0 /\ Descriptors \in Nat \ {0} /\ Lengths \subseteq Nat
  BY NicAssumption DEF RX

LEMMA PaddedIs ==
  ASSUME NEW n \in Nat
  PROVE  /\ Padded(n) \in Nat /\ Padded(n) >= 4 /\ Padded(n) % 4 = 0
         /\ \A x \in Nat : x % 4 = 0 => Padded(x + n) = x + Padded(n)
  <1>1. PICK q \in Nat, r \in 0 .. 3 : n + 7 = q * 4 + r /\ (n + 7) \div 4 = q
    BY DivMod
  <1>2. n + 4 + 3 = n + 7
    OBVIOUS
  <1>3. Padded(n) = q * 4
    BY <1>1, <1>2 DEF Padded
  <1>4. Padded(n) \in Nat /\ Padded(n) >= 4
    BY <1>1, <1>3
  <1>5. Padded(n) % 4 = 0
    <2>1. (q * 4 + 0) % 4 = 0
      BY DivModUnique
    <2> QED BY <1>3, <2>1
  <1>6. ASSUME NEW x \in Nat, x % 4 = 0 PROVE Padded(x + n) = x + Padded(n)
    <2>1. PICK k \in Nat : x = k * 4
      BY <1>6, DivMod
    <2>2. x + n + 4 + 3 = (k + q) * 4 + r
      BY <1>1, <2>1
    <2>3. ((k + q) * 4 + r) \div 4 = k + q
      BY DivModUnique
    <2>4. Padded(x + n) = (k + q) * 4
      BY <2>2, <2>3 DEF Padded
    <2> QED BY <1>3, <2>1, <2>4
  <1> QED BY <1>4, <1>5, <1>6

LEMMA Fours ==
  ASSUME NEW x \in Nat, NEW y \in Nat, x % 4 = 0, y % 4 = 0
  PROVE  (x + y) % 4 = 0 /\ (x >= y => (x - y) % 4 = 0)
  <1>1. PICK a \in Nat, b \in Nat : x = a * 4 /\ y = b * 4
    BY DivMod
  <1>2. ((a + b) * 4 + 0) % 4 = 0
    BY DivModUnique
  <1>3. x >= y => ((a - b) * 4 + 0) % 4 = 0
    <2>1. x >= y => a - b \in Nat
      BY <1>1
    <2> QED BY <2>1, DivModUnique
  <1>4. x + y = (a + b) * 4 + 0 /\ x - y = (a - b) * 4 + 0
    BY <1>1
  <1> QED BY <1>2, <1>3, <1>4

\* Where an offset lies, and where the one at a distance lies.
LEMMA DistIs ==
  ASSUME NEW n \in Nat \ {0}, NEW c \in 0 .. n - 1
  PROVE  /\ \A i \in 0 .. n - 1 : Dist(i, c, n) \in 0 .. n - 1 /\ Past(c + Dist(i, c, n), n) = i
         /\ \A x \in 0 .. n - 1 : Past(c + x, n) \in 0 .. n - 1 /\ Dist(Past(c + x, n), c, n) = x
  BY DEF Dist, Past

\* When the origin moves on by m, distances shrink by m.
LEMMA DistMoves ==
  ASSUME NEW n \in Nat \ {0}, NEW c \in 0 .. n - 1, NEW m \in 0 .. n - 1,
         NEW i \in 0 .. n - 1, Dist(i, c, n) >= m
  PROVE  Dist(i, Past(c + m, n), n) = Dist(i, c, n) - m
  BY DEF Dist, Past

LEMMA PastPast ==
  ASSUME NEW n \in Nat \ {0}, NEW c \in 0 .. n - 1, NEW a \in 0 .. n - 1, NEW b \in Nat, a + b <= n
  PROVE  Past(Past(c + a, n) + b, n) = Past(c + (a + b), n)
  BY DEF Past

LEMMA PastMod ==
  ASSUME NEW n \in Nat \ {0}, NEW c \in 0 .. n - 1, NEW b \in 0 .. n
  PROVE  (c + b) % n = Past(c + b, n)
  <1>1. CASE c + b < n
    BY <1>1, ModBelow DEF Past
  <1>2. CASE c + b >= n
    <2>1. (c + b) - n \in 0 .. n - 1 /\ c + b = 1 * n + ((c + b) - n)
      BY <1>2
    <2>2. (1 * n + ((c + b) - n)) % n = (c + b) - n
      BY <2>1, DivModUnique
    <2> QED BY <1>2, <2>1, <2>2 DEF Past
  <1> QED BY <1>1, <1>2

LEMMA Flips ==
  ASSUME NEW n \in Nat, n < 65536
  PROVE  htons(n) \in Nat /\ ntohs(htons(n)) = n
  <1>1. PICK q \in Nat, r \in Nat : r < 256 /\ n = q * 256 + r /\ n \div 256 = q /\ n % 256 = r
    BY DivMod
  <1>2. q < 256 /\ q \in 0 .. 256 - 1
    BY <1>1
  <1>3. htons(n) = r * 256 + q
    BY <1>1 DEF htons, flip_short
  <1>4. (r * 256 + q) % 256 = q /\ (r * 256 + q) \div 256 = r
    BY <1>2, DivModUnique
  <1>5. ntohs(r * 256 + q) = q * 256 + r
    BY <1>4 DEF ntohs, flip_short
  <1> QED BY <1>1, <1>2, <1>3, <1>5


\* A frame is stored where the chain ends.
LEMMA ChainStore ==
  ASSUME NEW R, NEW cur, NEW used, Chain(R, cur, used), NEW f, f.id \in Nat, f.len \in Nat,
         \A i \in DOMAIN R : R[i].id < f.id,
         NEW cb, cb = Past(cur + used, RX),
         Padded(f.len) < RX - used, cb + Padded(f.len) # RX
  PROVE  /\ cb \in 0 .. RX - 1 /\ cb \notin DOMAIN R
         /\ Chain([i \in DOMAIN R \cup {cb} |-> IF i = cb THEN f ELSE R[i]], cur, used + Padded(f.len))
  <1> DEFINE N == [i \in DOMAIN R \cup {cb} |-> IF i = cb THEN f ELSE R[i]]
             At(i)  == Dist(i, cur, RX)
             End(i) == At(i) + Padded(R[i].len)
             Fin(i) == At(i) + Padded(N[i].len)
             n == Padded(f.len)
  <1>1. /\ cur \in 0 .. RX - 1 /\ cur % 4 = 0 /\ used \in 0 .. RX - 1
        /\ \A i \in DOMAIN R : /\ i \in 0 .. RX - 1 /\ R[i].id \in Nat /\ R[i].len \in Nat
                               /\ i + Padded(R[i].len) # RX
                               /\ End(i) <= used
                               /\ End(i) # used => \E j \in DOMAIN R : At(j) = End(i)
        /\ \A i, j \in DOMAIN R : At(i) < At(j) => End(i) <= At(j) /\ R[i].id < R[j].id
        /\ used # 0 => cur \in DOMAIN R
    BY DEF Chain
  <1>2. RX \in Nat \ {0} /\ n \in Nat /\ n >= 4 /\ n < RX - used
    BY NicSizes, PaddedIs
  <1>3. cb \in 0 .. RX - 1 /\ At(cb) = used
    BY <1>1, <1>2, DistIs, ZenonT(30)
  <1>4. \A i \in DOMAIN R : At(i) \in Nat /\ End(i) \in Nat /\ At(i) < End(i) /\ At(i) < used
    <2> TAKE i \in DOMAIN R
    <2>1. i \in 0 .. RX - 1 /\ R[i].len \in Nat /\ End(i) <= used
      BY <1>1
    <2>2. At(i) \in 0 .. RX - 1
      BY <1>1, <1>2, <2>1, DistIs
    <2>3. Padded(R[i].len) \in Nat /\ Padded(R[i].len) >= 4
      BY <2>1, PaddedIs
    <2> HIDE DEF At
    <2> QED BY <1>1, <2>1, <2>2, <2>3
  <1>5. cb \notin DOMAIN R
    <2> HIDE DEF At
    <2> QED BY <1>1, <1>3, <1>4
  <1>6. /\ DOMAIN N = DOMAIN R \cup {cb} /\ N[cb] = f
        /\ \A i \in DOMAIN R : N[i] = R[i] /\ Fin(i) = End(i)
    BY <1>5
  <1>7. Fin(cb) = used + n
    BY <1>3, <1>6
  <1> HIDE DEF N
  <1>8. ASSUME NEW i \in DOMAIN N
        PROVE  /\ i \in 0 .. RX - 1 /\ N[i].id \in Nat /\ N[i].len \in Nat
               /\ i + Padded(N[i].len) # RX
               /\ Fin(i) <= used + n
               /\ Fin(i) # used + n => \E j \in DOMAIN N : At(j) = Fin(i)
    <2> HIDE DEF At, End, Fin, n
    <2>1. CASE i = cb
      <3>1. i + Padded(N[i].len) # RX
        BY <1>6, <2>1
      <3> QED BY <1>1, <1>2, <1>3, <1>6, <1>7, <2>1, <3>1
    <2>2. CASE i \in DOMAIN R
      <3>1. i \in 0 .. RX - 1 /\ N[i].id \in Nat /\ N[i].len \in Nat /\ i + Padded(N[i].len) # RX
        BY <1>1, <1>6, <2>2
      <3>2. Fin(i) <= used + n
        BY <1>1, <1>2, <1>4, <1>6, <2>2
      <3>3. \E j \in DOMAIN N : At(j) = Fin(i)
        <4>1. CASE End(i) = used
          BY <1>3, <1>6, <2>2, <4>1
        <4>2. CASE End(i) # used
          BY <1>1, <1>6, <2>2, <4>2
        <4> QED BY <4>1, <4>2
      <3> QED BY <3>1, <3>2, <3>3
    <2> QED BY <1>6, <2>1, <2>2
  <1>9. ASSUME NEW i \in DOMAIN N, NEW j \in DOMAIN N, At(i) < At(j)
        PROVE  Fin(i) <= At(j) /\ N[i].id < N[j].id
    <2> HIDE DEF At, End, Fin, n
    <2>1. CASE i \in DOMAIN R /\ j \in DOMAIN R
      BY <1>1, <1>6, <1>9, <2>1
    <2>2. CASE i \in DOMAIN R /\ j = cb
      BY <1>1, <1>3, <1>6, <2>2
    <2>3. CASE i = cb
      <3>1. CASE j = cb
        BY <1>1, <1>3, <1>9, <2>3, <3>1
      <3>2. CASE j \in DOMAIN R
        BY <1>1, <1>3, <1>4, <1>9, <2>3, <3>2
      <3> QED BY <1>6, <3>1, <3>2
    <2> QED BY <1>6, <2>1, <2>2, <2>3
  <1>10. used + n \in 0 .. RX - 1 /\ (used + n # 0 => cur \in DOMAIN N)
    <2>1. used + n \in 0 .. RX - 1
      BY <1>1, <1>2
    <2>2. CASE used = 0
      <3>1. cb = cur
        BY <1>1, <1>2, <2>2 DEF Past
      <3> QED BY <1>6, <2>1, <3>1
    <2>3. CASE used # 0
      BY <1>1, <1>6, <2>1, <2>3
    <2> QED BY <2>2, <2>3
  <1>11. Chain(N, cur, used + n)
    BY <1>1, <1>8, <1>9, <1>10 DEF Chain
  <1> QED BY <1>3, <1>5, <1>11 DEF N

\* The frame where the chain begins is taken.
LEMMA ChainTake ==
  ASSUME NEW R, NEW cur, NEW used, Chain(R, cur, used), used # 0
  PROVE  LET n == Padded(R[cur].len)
             next == Past(cur + n, RX)
         IN /\ cur \in DOMAIN R /\ n \in Nat /\ n >= 4 /\ n <= used
            /\ Advanced(cur, R[cur].len) = next
            /\ Past(next + (used - n), RX) = Past(cur + used, RX)
            /\ Chain([i \in DOMAIN R \ {cur} |-> R[i]], next, used - n)
            /\ \A i \in DOMAIN R \ {cur} : R[cur].id < R[i].id
  <1> DEFINE N == [i \in DOMAIN R \ {cur} |-> R[i]]
             n == Padded(R[cur].len)
             next == Past(cur + n, RX)
             At(i)  == Dist(i, cur, RX)
             End(i) == At(i) + Padded(R[i].len)
             Later(i) == Dist(i, next, RX)
             Fin(i) == Later(i) + Padded(N[i].len)
  <1>1. /\ cur \in 0 .. RX - 1 /\ cur % 4 = 0 /\ used \in 0 .. RX - 1
        /\ \A i \in DOMAIN R : /\ i \in 0 .. RX - 1 /\ R[i].id \in Nat /\ R[i].len \in Nat
                               /\ i + Padded(R[i].len) # RX
                               /\ End(i) <= used
                               /\ End(i) # used => \E j \in DOMAIN R : At(j) = End(i)
        /\ \A i, j \in DOMAIN R : At(i) < At(j) => End(i) <= At(j) /\ R[i].id < R[j].id
        /\ cur \in DOMAIN R
    BY DEF Chain
  <1>0. /\ cur \in 0 .. RX - 1 /\ cur % 4 = 0 /\ used \in 0 .. RX - 1
        /\ \A i \in DOMAIN R : i \in 0 .. RX - 1
    BY <1>1
  <1>2. /\ RX \in Nat \ {0} /\ RX % 4 = 0 /\ R[cur].len \in Nat
        /\ n \in Nat /\ n >= 4 /\ n % 4 = 0 /\ cur + n # RX
        /\ Padded(cur + R[cur].len) = cur + n
    <2>1. R[cur].len \in Nat /\ cur + n # RX
      BY <1>1
    <2>2. RX \in Nat \ {0} /\ RX % 4 = 0
      BY NicSizes
    <2>3. /\ n \in Nat /\ n >= 4 /\ n % 4 = 0
          /\ \A x \in Nat : x % 4 = 0 => Padded(x + R[cur].len) = x + n
      BY <2>1, PaddedIs
    <2>4. cur \in Nat /\ cur % 4 = 0
      BY <1>1, <2>2
    <2> HIDE DEF n
    <2> QED BY <2>1, <2>2, <2>3, <2>4
  <1>3. At(cur) = 0
    BY <1>1 DEF Dist
  <1>4. n <= used /\ End(cur) = n
    <2> HIDE DEF n
    <2>1. End(cur) = n
      BY <1>2, <1>3 DEF n
    <2> QED BY <1>1, <2>1
  <1>5. next \in 0 .. RX - 1 /\ next % 4 = 0
    <2> HIDE DEF n
    <2>1. next \in 0 .. RX - 1
      BY <1>1, <1>2, <1>4 DEF Past
    <2>2. (cur + n) % 4 = 0 /\ (cur + n >= RX => ((cur + n) - RX) % 4 = 0)
      <3>1. cur \in Nat /\ cur % 4 = 0 /\ RX \in Nat /\ cur + n \in Nat
        BY <1>1, <1>2
      <3>2. (cur + n) % 4 = 0
        BY <1>2, <3>1, Fours
      <3> QED BY <1>2, <3>1, <3>2, Fours
    <2> QED BY <2>1, <2>2 DEF Past
  <1>6. Advanced(cur, R[cur].len) = next
    <2> HIDE DEF n
    <2> QED BY <1>1, <1>2 DEF Advanced, Past, RX
  <1>7. Past(next + (used - n), RX) = Past(cur + used, RX)
    <2> HIDE DEF n
    <2>1. n \in 0 .. RX - 1 /\ used - n \in Nat /\ n + (used - n) = used /\ used <= RX
      BY <1>1, <1>2, <1>4
    <2>2. Past(Past(cur + n, RX) + (used - n), RX) = Past(cur + (n + (used - n)), RX)
      BY <1>0, <1>2, <2>1, PastPast
    <2> QED BY <2>1, <2>2
  <1>8. \A i \in DOMAIN R : At(i) \in 0 .. RX - 1 /\ Padded(R[i].len) \in Nat /\ Padded(R[i].len) >= 4
    <2> TAKE i \in DOMAIN R
    <2>1. i \in 0 .. RX - 1 /\ R[i].len \in Nat
      BY <1>1
    <2>2. At(i) \in 0 .. RX - 1
      BY <1>1, <1>2, <2>1, DistIs
    <2> QED BY <2>1, <2>2, PaddedIs
  <1>9. ASSUME NEW i \in DOMAIN R, i # cur PROVE At(i) > 0
    <2>0. i \in 0 .. RX - 1
      BY <1>1
    <2>1. Past(cur + At(i), RX) = i
      BY <1>0, <1>2, <2>0, DistIs
    <2>2. Past(cur + 0, RX) = cur
      BY <1>0, <1>2 DEF Past
    <2> HIDE DEF At
    <2>3. At(i) # 0
      BY <1>9, <2>1, <2>2
    <2> QED BY <1>8, <2>3
  <1>10. ASSUME NEW i \in DOMAIN R, i # cur
         PROVE  R[cur].id < R[i].id /\ At(i) >= n /\ Later(i) = At(i) - n
    <2>1. At(cur) < At(i)
      BY <1>3, <1>9, <1>10
    <2>2. R[cur].id < R[i].id /\ At(i) >= n
      <3> HIDE DEF At, End
      <3>1. End(cur) <= At(i) /\ R[cur].id < R[i].id
        BY <1>1, <2>1
      <3> HIDE DEF n
      <3> QED BY <1>2, <1>4, <1>8, <3>1
    <2>3. n \in 0 .. RX - 1
      <3> HIDE DEF n
      <3> QED BY <1>1, <1>2, <1>4
    <2>4. i \in 0 .. RX - 1
      BY <1>1
    <2> HIDE DEF n
    <2> QED BY <1>1, <1>2, <2>2, <2>3, <2>4, DistMoves
  <1>11. /\ DOMAIN N = DOMAIN R \ {cur} /\ \A i \in DOMAIN N : N[i] = R[i] /\ Fin(i) = End(i) - n
    <2>1. ASSUME NEW i \in DOMAIN R, i # cur PROVE Fin(i) = End(i) - n
      <3>1. N[i] = R[i] /\ Later(i) = At(i) - n
        BY <1>10, <2>1
      <3> HIDE DEF Later, At, n, N
      <3> QED BY <1>2, <1>8, <3>1
    <2> QED BY <2>1
  <1> HIDE DEF N, n, next, At, End, Later, Fin
  <1>12. \A i \in DOMAIN N : i \in DOMAIN R /\ i # cur /\ Later(i) = At(i) - n
    BY <1>10, <1>11
  <1>13. \A i \in DOMAIN R : End(i) \in Nat
    BY <1>8 DEF End
  <1>14. ASSUME NEW i \in DOMAIN N
         PROVE  /\ i \in 0 .. RX - 1 /\ N[i].id \in Nat /\ N[i].len \in Nat
                /\ i + Padded(N[i].len) # RX
                /\ Fin(i) <= used - n
                /\ Fin(i) # used - n => \E j \in DOMAIN N : Later(j) = Fin(i)
    <2>1. i \in DOMAIN R /\ N[i] = R[i] /\ Fin(i) = End(i) - n
      BY <1>11, <1>12
    <2>2. /\ i \in 0 .. RX - 1 /\ R[i].id \in Nat /\ R[i].len \in Nat
          /\ i + Padded(R[i].len) # RX /\ End(i) <= used
      BY <1>1, <2>1
    <2>3. Fin(i) <= used - n
      BY <1>1, <1>2, <1>13, <2>1, <2>2
    <2>4. ASSUME Fin(i) # used - n PROVE \E j \in DOMAIN N : Later(j) = Fin(i)
      <3>1. End(i) # used
        BY <2>1, <2>4
      <3>2. PICK j \in DOMAIN R : At(j) = End(i)
        BY <1>1, <2>1, <3>1
      <3>3. j # cur
        <4>1. End(i) > 0
          BY <1>8, <2>1 DEF End
        <4> QED BY <1>3, <3>2, <4>1
      <3>4. j \in DOMAIN N /\ Later(j) = At(j) - n
        BY <1>11, <1>12, <3>3
      <3> QED BY <2>1, <3>2, <3>4
    <2> QED BY <2>1, <2>2, <2>3, <2>4
  <1>15. ASSUME NEW i \in DOMAIN N, NEW j \in DOMAIN N, Later(i) < Later(j)
         PROVE  Fin(i) <= Later(j) /\ N[i].id < N[j].id
    <2>1. i \in DOMAIN R /\ j \in DOMAIN R /\ N[i] = R[i] /\ N[j] = R[j] /\ Fin(i) = End(i) - n
          /\ Later(i) = At(i) - n /\ Later(j) = At(j) - n
      BY <1>11, <1>12
    <2>2. At(i) \in Int /\ At(j) \in Int /\ End(i) \in Int
      BY <1>8, <1>13, <2>1
    <2>3. At(i) < At(j)
      BY <1>2, <1>15, <2>1, <2>2
    <2>4. End(i) <= At(j) /\ R[i].id < R[j].id
      BY <1>1, <2>1, <2>3
    <2> QED BY <1>2, <2>1, <2>2, <2>4
  <1>16. used - n \in 0 .. RX - 1 /\ (used - n # 0 => next \in DOMAIN N)
    <2>1. used - n \in 0 .. RX - 1
      BY <1>1, <1>2, <1>4
    <2>2. ASSUME used - n # 0 PROVE next \in DOMAIN N
      <3>1. PICK j \in DOMAIN R : At(j) = n
        <4>1. End(cur) # used
          BY <1>1, <1>2, <1>4, <2>2
        <4> QED BY <1>1, <1>4, <4>1
      <3>2. j \in 0 .. RX - 1
        BY <1>1
      <3>3. Past(cur + At(j), RX) = j
        BY <1>1, <1>2, <3>2, DistIs DEF At
      <3>4. j # cur
        BY <1>2, <1>3, <3>1
      <3> QED BY <1>11, <3>1, <3>3, <3>4 DEF next
    <2> QED BY <2>1, <2>2
  <1>17. Chain(N, next, used - n)
    BY <1>5, <1>14, <1>15, <1>16 DEF Chain, Later, Fin
  <1>18. \A i \in DOMAIN R \ {cur} : R[cur].id < R[i].id
    BY <1>10
  <1> QED BY <1>1, <1>2, <1>4, <1>6, <1>7, <1>17, <1>18 DEF N, n, next


\* What the handler finds under a frame's number.
LEMMA GoodMore ==
  ASSUME NEW s \in Seq([protocol : Nat, len : Nat]), NEW x \in [protocol : Nat, len : Nat],
         NEW f, Good(f, s)
  PROVE  Good(f, Append(s, x))
  <1>1. f.id \in 1 .. Len(s) /\ f.len \in Nat /\ Handled(f) = s[f.id]
    BY DEF Good
  <1>2. Append(s, x)[f.id] = s[f.id] /\ Len(Append(s, x)) = Len(s) + 1
    BY <1>1
  <1>3. f.id \in 1 .. Len(Append(s, x))
    BY <1>1, <1>2
  <1> QED BY <1>1, <1>2, <1>3 DEF Good

LEMMA SentIsGood ==
  ASSUME NEW s \in Seq([protocol : Nat, len : Nat]), NEW t \in Protocols, NEW n \in Lengths,
         NEW f, f = [id |-> Len(s) + 1, type |-> htons(t), len |-> n],
         NEW x, x = [protocol |-> Known(t), len |-> n + CRC]
  PROVE  /\ f \in FrameType /\ x \in [protocol : Nat, len : Nat]
         /\ f.id = Len(s) + 1 /\ Good(OnWire(f), Append(s, x))
  <1>1. t \in Nat /\ t < 65536 /\ n \in Nat /\ Len(s) \in Nat
    BY NicAssumption
  <1>2. htons(t) \in Nat /\ ntohs(htons(t)) = t
    BY <1>1, Flips
  <1>3. Known(t) \in Nat
    BY <1>1 DEF Known
  <1>4. x \in [protocol : Nat, len : Nat] /\ x.len = n + CRC /\ x.protocol = Known(t)
    BY <1>1, <1>3 DEF CRC
  <1>5. f \in FrameType /\ f.id = Len(s) + 1 /\ f.type = htons(t) /\ f.len = n
    BY <1>1, <1>2 DEF FrameType
  <1>6. OnWire(f).id = f.id /\ OnWire(f).type = f.type /\ OnWire(f).len = n + CRC /\ n + CRC \in Nat
    BY <1>1, <1>5 DEF OnWire, FrameType, CRC
  <1>8. Append(s, x)[Len(s) + 1] = x /\ Len(Append(s, x)) = Len(s) + 1
    BY <1>4
  <1>9. Handled(OnWire(f)) = x
    <2>1. Handled(OnWire(f)) = [protocol |-> Known(t), len |-> n + CRC]
      BY <1>2, <1>5, <1>6 DEF Handled
    <2> QED BY <2>1
  <1>10. f.id \in 1 .. Len(Append(s, x))
    BY <1>1, <1>5, <1>8
  <1> QED BY <1>1, <1>4, <1>5, <1>6, <1>8, <1>9, <1>10 DEF Good

\* Where the descriptor tx_cur stands.
LEMMA QueueFull ==
  ASSUME NEW T, NEW S, NEW cur, NEW next, NEW m, Queue(T, S, cur, next, m), ~S[cur]
  PROVE  m < Descriptors /\ Dist(cur, next, Descriptors) = m
  <1>1. /\ next \in Slots /\ cur \in Slots /\ m \in 0 .. Descriptors /\ cur = Past(next + m, Descriptors)
        /\ S[cur] <=> Dist(cur, next, Descriptors) < m
    BY DEF Queue
  <1>2. Descriptors \in Nat \ {0} /\ next \in 0 .. Descriptors - 1
    BY <1>1, NicSizes DEF Slots
  <1>3. CASE m < Descriptors
    <2>1. m \in 0 .. Descriptors - 1
      BY <1>1, <1>2, <1>3
    <2> QED BY <1>1, <1>2, <1>3, <2>1, DistIs
  <1>4. CASE m = Descriptors
    <2>1. cur = next
      BY <1>1, <1>2, <1>4 DEF Past
    <2>2. Dist(cur, next, Descriptors) = 0
      BY <1>2, <2>1 DEF Dist
    <2> QED BY <1>1, <1>2, <1>4, <2>2
  <1> QED BY <1>1, <1>2, <1>3, <1>4

LEMMA QueueAddress ==
  ASSUME NEW S, NEW T \in [Slots -> FrameType], NEW cur, NEW next, NEW m, NEW f,
         Queue(T, S, cur, next, m), ~S[cur]
  PROVE  Queue([T EXCEPT ![cur] = f], S, cur, next, m)
  <1> DEFINE N == [T EXCEPT ![cur] = f]
  <1>1. \A d \in Slots : S[d] => N[d] = T[d]
    OBVIOUS
  <1> HIDE DEF N
  <1>2. Queue(N, S, cur, next, m)
    BY <1>1 DEF Queue
  <1> QED BY <1>2 DEF N

LEMMA QueueStart ==
  ASSUME NEW S \in [Slots -> BOOLEAN], NEW T \in [Slots -> FrameType], NEW cur, NEW next, NEW m,
         Queue(T, S, cur, next, m), ~S[cur], \A d \in Slots : S[d] => T[d].id < T[cur].id
  PROVE  Queue(T, [S EXCEPT ![cur] = TRUE], Past(cur + 1, Descriptors), next, m + 1)
  <1> DEFINE N == [S EXCEPT ![cur] = TRUE]
             At(d) == Dist(d, next, Descriptors)
             new == Past(cur + 1, Descriptors)
  <1>1. /\ next \in Slots /\ cur \in Slots /\ m \in 0 .. Descriptors /\ cur = Past(next + m, Descriptors)
        /\ \A d \in Slots : S[d] <=> At(d) < m
        /\ \A d, e \in Slots : S[d] /\ S[e] /\ At(d) < At(e) => T[d].id < T[e].id
    BY DEF Queue
  <1>2. m < Descriptors /\ At(cur) = m /\ Descriptors \in Nat \ {0} /\ m \in Nat
    BY <1>1, QueueFull, NicSizes
  <1>3. new \in Slots /\ new = Past(next + (m + 1), Descriptors)
    <2>1. next \in 0 .. Descriptors - 1 /\ cur \in 0 .. Descriptors - 1 /\ cur = Past(next + m, Descriptors)
      BY <1>1 DEF Slots
    <2> QED BY <1>2, <2>1 DEF Past, Slots
  <1>4. \A d \in Slots : At(d) \in Nat /\ (d = cur <=> At(d) = m)
    <2> TAKE d \in Slots
    <2>1. d \in 0 .. Descriptors - 1 /\ next \in 0 .. Descriptors - 1
      BY <1>1 DEF Slots
    <2>2. At(d) \in 0 .. Descriptors - 1 /\ Past(next + At(d), Descriptors) = d
      BY <1>2, <2>1, DistIs
    <2> HIDE DEF At
    <2> QED BY <1>1, <1>2, <2>2
  <1>5. \A d \in Slots : N[d] <=> S[d] \/ d = cur
    BY <1>1
  <1> HIDE DEF N, At, new
  <1>6. \A d \in Slots : N[d] <=> At(d) < m + 1
    BY <1>1, <1>2, <1>4, <1>5
  <1>7. ASSUME NEW d \in Slots, NEW e \in Slots, N[d], N[e], At(d) < At(e) PROVE T[d].id < T[e].id
    <2>1. S[d]
      <3>1. At(e) < m + 1
        BY <1>6, <1>7
      <3>2. At(d) < m
        BY <1>2, <1>4, <1>7, <3>1
      <3> QED BY <1>1, <3>2
    <2>2. CASE e = cur
      BY <2>1, <2>2
    <2>3. CASE S[e]
      BY <1>1, <1>7, <2>1, <2>3
    <2> QED BY <1>5, <1>7, <2>2, <2>3
  <1>8. m + 1 \in 0 .. Descriptors
    BY <1>2
  <1>9. Queue(T, N, new, next, m + 1)
    BY <1>1, <1>3, <1>6, <1>7, <1>8 DEF Queue, At
  <1> QED BY <1>9 DEF N, new

LEMMA QueueTransmit ==
  ASSUME NEW S \in [Slots -> BOOLEAN], NEW T \in [Slots -> FrameType], NEW cur, NEW next, NEW m,
         Queue(T, S, cur, next, m), S[next]
  PROVE  /\ \E k \in 0 .. Descriptors :
              Queue(T, [S EXCEPT ![next] = FALSE], cur, (next + 1) % Descriptors, k)
         /\ \A d \in Slots : S[d] /\ d # next => T[next].id < T[d].id
  <1> DEFINE N == [S EXCEPT ![next] = FALSE]
             At(d) == Dist(d, next, Descriptors)
             new == (next + 1) % Descriptors
             Later(d) == Dist(d, new, Descriptors)
  <1>1. /\ next \in Slots /\ cur \in Slots /\ m \in 0 .. Descriptors /\ cur = Past(next + m, Descriptors)
        /\ \A d \in Slots : S[d] <=> At(d) < m
        /\ \A d, e \in Slots : S[d] /\ S[e] /\ At(d) < At(e) => T[d].id < T[e].id
    BY DEF Queue
  <1>2. /\ Descriptors \in Nat \ {0} /\ next \in 0 .. Descriptors - 1
        /\ cur \in 0 .. Descriptors - 1 /\ cur = Past(next + m, Descriptors)
    BY <1>1, NicSizes DEF Slots
  <1>3. At(next) = 0 /\ m \in Nat /\ m >= 1 /\ m <= Descriptors
    <2>1. At(next) = 0
      BY <1>2 DEF Dist
    <2> HIDE DEF At
    <2>2. 0 < m
      BY <1>1, <2>1
    <2> QED BY <1>1, <1>2, <2>1, <2>2
  <1>4. new = Past(next + 1, Descriptors) /\ new \in Slots
    <2>1. 1 \in 0 .. Descriptors
      BY <1>2
    <2>2. new = Past(next + 1, Descriptors)
      BY <1>2, <2>1, PastMod
    <2> HIDE DEF new
    <2> QED BY <1>2, <2>2 DEF Past, Slots
  <1>5. cur = Past(new + (m - 1), Descriptors)
    <2> HIDE DEF new
    <2> QED BY <1>2, <1>3, <1>4 DEF Past
  <1>6. \A d \in Slots : At(d) \in 0 .. Descriptors - 1 /\ (d = next <=> At(d) = 0)
    <2> TAKE d \in Slots
    <2>1. d \in 0 .. Descriptors - 1
      BY DEF Slots
    <2>2. At(d) \in 0 .. Descriptors - 1 /\ Past(next + At(d), Descriptors) = d
      BY <1>2, <2>1, DistIs
    <2>3. Past(next + 0, Descriptors) = next
      BY <1>2 DEF Past
    <2>4. At(next) = 0
      BY <1>3
    <2> HIDE DEF At
    <2> QED BY <2>2, <2>3, <2>4
  <1>7. Later(next) = Descriptors - 1
    <2> HIDE DEF new
    <2> QED BY <1>2, <1>4 DEF Dist, Past
  <1>8. ASSUME NEW d \in Slots, d # next PROVE Later(d) = At(d) - 1
    <2>1. d \in 0 .. Descriptors - 1
      BY DEF Slots
    <2>2. At(d) \in 0 .. Descriptors - 1 /\ At(d) # 0
      BY <1>6, <1>8
    <2>3. At(d) >= 1 /\ 1 \in 0 .. Descriptors - 1
      <3> HIDE DEF At
      <3> QED BY <1>2, <2>2
    <2>4. Dist(d, Past(next + 1, Descriptors), Descriptors) = Dist(d, next, Descriptors) - 1
      BY <1>2, <2>1, <2>3, DistMoves
    <2> HIDE DEF new
    <2> QED BY <1>4, <2>4
  <1>9. \A d \in Slots : N[d] <=> S[d] /\ d # next
    BY <1>1
  <1> HIDE DEF N, At, Later, new
  <1>10. \A d \in Slots : N[d] <=> Later(d) < m - 1
    <2> TAKE d \in Slots
    <2>1. CASE d = next
      BY <1>2, <1>3, <1>7, <1>9, <2>1
    <2>2. CASE d # next
      <3>1. N[d] <=> At(d) < m
        BY <1>1, <1>9, <2>2
      <3>2. Later(d) = At(d) - 1 /\ At(d) \in Int
        BY <1>6, <1>8, <2>2
      <3> QED BY <1>3, <3>1, <3>2
    <2> QED BY <2>1, <2>2
  <1>11. ASSUME NEW d \in Slots, NEW e \in Slots, N[d], N[e], Later(d) < Later(e) PROVE T[d].id < T[e].id
    <2>1. S[d] /\ S[e] /\ d # next /\ e # next
      BY <1>9, <1>11
    <2>2. At(d) < At(e)
      <3>1. Later(d) = At(d) - 1 /\ At(d) \in Int /\ Later(e) = At(e) - 1 /\ At(e) \in Int
        BY <1>6, <1>8, <2>1
      <3> QED BY <1>11, <3>1
    <2> QED BY <1>1, <2>1, <2>2
  <1>12. m - 1 \in 0 .. Descriptors
    BY <1>2, <1>3
  <1>13. Queue(T, N, cur, new, m - 1)
    BY <1>1, <1>4, <1>5, <1>10, <1>11, <1>12 DEF Queue, Later
  <1>14. ASSUME NEW d \in Slots, S[d], d # next PROVE T[next].id < T[d].id
    <2>1. At(d) \in 0 .. Descriptors - 1 /\ At(d) # 0
      BY <1>6, <1>14
    <2>2. At(next) < At(d)
      BY <1>2, <1>3, <2>1
    <2> QED BY <1>1, <1>14, <2>2
  <1> QED BY <1>12, <1>13, <1>14 DEF N, new


\* A step of a sender that leaves the rest of the path alone.
LEMMA PathStays ==
  ASSUME Sound, NEW S \in [Senders -> SendType], sender' = S,
         UNCHANGED <<tx_next, wire, sent, ring, cbr, free, status, handler, current_packet_ptr, taken, wrong>>,
         tsad' \in [Slots -> FrameType], tsd' \in [Slots -> BOOLEAN]
  PROVE  /\ NicType' /\ RingInv' /\ WireInv' /\ ~wrong'
         /\ \A r, w, l : Flight(r, w, l) =>
              /\ taken' <= r /\ r <= w /\ w <= l /\ l <= Len(sent')
              /\ \A i \in DOMAIN ring' : Good(ring'[i], sent') /\ taken' < ring'[i].id /\ ring'[i].id <= r
              /\ \A i \in 1 .. Len(wire') : Good(wire'[i], sent') /\ r < wire'[i].id /\ wire'[i].id <= w
  <1>1. NicType'
    BY DEF Sound, NicType
  <1>2. RingInv' /\ WireInv' /\ ~wrong'
    BY DEF Sound, RingInv, WireInv
  <1>3. ASSUME NEW r, NEW w, NEW l, Flight(r, w, l)
        PROVE  /\ taken' <= r /\ r <= w /\ w <= l /\ l <= Len(sent')
               /\ \A i \in DOMAIN ring' : Good(ring'[i], sent') /\ taken' < ring'[i].id /\ ring'[i].id <= r
               /\ \A i \in 1 .. Len(wire') : Good(wire'[i], sent') /\ r < wire'[i].id /\ wire'[i].id <= w
    BY <1>3 DEF Flight
  <1> QED BY <1>1, <1>2, <1>3

\* The parts of what the invariant says of senders and descriptors.
LEMMA Parts ==
  ASSUME Sound
  PROVE  /\ tsad \in [Slots -> FrameType] /\ tsd \in [Slots -> BOOLEAN]
         /\ sender \in [Senders -> SendType] /\ wire \in Seq(FrameType)
         /\ sent \in Seq([protocol : Nat, len : Nat]) /\ free \in 1 .. RX /\ taken \in Nat
         /\ Slots = 0 .. Descriptors - 1 /\ Descriptors \in Nat \ {0}
  BY NicSizes DEF Sound, NicType, Slots

LEMMA SendSound ==
  ASSUME Sound, NEW p \in Senders, NEW t \in Protocols, NEW len \in Lengths,
         ethernet_send_packet(p, t, len), ~excused'
  PROVE  Sound'
  <1>1. PICK f, x : /\ f = [id |-> Len(sent) + 1, type |-> htons(t), len |-> len]
                    /\ x = [protocol |-> Known(t), len |-> len + CRC]
    OBVIOUS
  <1>2. PICK g : g = [stage |-> "address", at |-> tx_cur, frame |-> f]
    OBVIOUS
  <1>3. /\ sent' = Append(sent, x) /\ sender' = [sender EXCEPT ![p] = g]
        /\ tx_cur \in DOMAIN tsad /\ \A q \in Senders : sender[q].stage \notin Filling
        /\ UNCHANGED <<tx_cur, tsad, tsd, tx_next, wire, ring, cbr, free, status, handler,
                       current_packet_ptr, taken, wrong>>
    BY <1>1, <1>2 DEF ethernet_send_packet, rxVars
  <1>4. /\ tsad \in [Slots -> FrameType] /\ tsd \in [Slots -> BOOLEAN]
        /\ sender \in [Senders -> SendType] /\ wire \in Seq(FrameType)
        /\ sent \in Seq([protocol : Nat, len : Nat]) /\ free \in 1 .. RX /\ taken \in Nat
        /\ Slots = 0 .. Descriptors - 1 /\ Descriptors \in Nat \ {0}
    BY Parts
  <1>5. /\ f \in FrameType /\ x \in [protocol : Nat, len : Nat]
        /\ f.id = Len(sent) + 1 /\ Good(OnWire(f), sent')
    BY <1>1, <1>3, <1>4, SentIsGood
  <1>6. PICK m \in 0 .. Descriptors, cur \in Slots : Queue(tsad, tsd, cur, tx_next, m) /\ SenderInv(cur)
    BY DEF Sound
  <1>7. tx_cur = cur
    <2>1. tx_cur \in Slots /\ Past(tx_cur, Descriptors) = cur
      BY <1>3, <1>4, <1>6 DEF SenderInv
    <2> QED BY <1>4, <2>1 DEF Past
  <1>8. /\ sender' \in [Senders -> SendType] /\ sender'[p] = g /\ g.stage = "address" /\ g.at = cur
        /\ g.frame = f /\ \A q \in Senders : q # p => sender'[q] = sender[q]
    <2>1. g \in SendType
      BY <1>2, <1>4, <1>5, <1>7 DEF SendType, Filling
    <2> QED BY <1>2, <1>3, <1>4, <1>7, <2>1
  <1>9. \A q \in Senders : sender'[q].stage \in Filling => q = p
    BY <1>3, <1>8
  <1>10. sent' \in Seq([protocol : Nat, len : Nat]) /\ Len(sent') = Len(sent) + 1 /\ Len(sent) \in Nat
    BY <1>3, <1>4, <1>5
  <1>11. NicType'
    BY <1>3, <1>4, <1>8, <1>10 DEF NicType
  <1>12. RingInv' /\ WireInv' /\ ~wrong'
    BY <1>3 DEF Sound, RingInv, WireInv
  <1>13. SenderInv(cur)'
    <2>1. "address" \in Filling
      BY DEF Filling
    <2> QED BY <1>3, <1>4, <1>6, <1>7, <1>8, <1>9, <2>1 DEF SenderInv
  <1>14. Queue(tsad', tsd', cur, tx_next', m)
    BY <1>3, <1>6
  <1>15. PICK r \in 0 .. Len(sent), w \in 0 .. Len(sent), l \in 0 .. Len(sent) : Flight(r, w, l)
    BY DEF Sound
  <1>16. \A h : Good(h, sent) => Good(h, sent')
    BY <1>3, <1>4, <1>5, GoodMore
  <1>17. Flight(r, w, l)'
    <2>1. taken' <= r /\ r <= w /\ w <= l /\ l <= Len(sent')
      BY <1>3, <1>10, <1>15 DEF Flight
    <2>2. \A i \in DOMAIN ring' : Good(ring'[i], sent') /\ taken' < ring'[i].id /\ ring'[i].id <= r
      BY <1>3, <1>15, <1>16 DEF Flight
    <2>3. \A i \in 1 .. Len(wire') : Good(wire'[i], sent') /\ r < wire'[i].id /\ wire'[i].id <= w
      BY <1>3, <1>15, <1>16 DEF Flight
    <2>4. \A d \in Slots : tsd'[d] => Good(OnWire(tsad'[d]), sent') /\ w < tsad'[d].id /\ tsad'[d].id <= l
      BY <1>3, <1>15, <1>16 DEF Flight
    <2>5. ASSUME NEW q \in Senders, sender'[q].stage \in Filling
          PROVE  Good(OnWire(sender'[q].frame), sent') /\ l < sender'[q].frame.id
      <3>1. sender'[q].frame = f
        BY <1>8, <1>9, <2>5
      <3>2. l < f.id
        BY <1>5, <1>10, <1>15
      <3> QED BY <1>5, <3>1, <3>2
    <2> QED BY <2>1, <2>2, <2>3, <2>4, <2>5 DEF Flight
  <1>18. r \in 0 .. Len(sent') /\ w \in 0 .. Len(sent') /\ l \in 0 .. Len(sent')
    BY <1>10
  <1> QED BY <1>6, <1>11, <1>12, <1>13, <1>14, <1>17, <1>18 DEF Sound

\* A step of a sender that fills in no descriptor, or reads, advances or resets tx_cur.
LEMMA MoveSound ==
  ASSUME Sound, NEW p \in Senders, ReadAgain(p) \/ Advance(p) \/ TestWrap(p) \/ Reset(p), ~excused'
  PROVE  Sound'
  <1>1. /\ tsad \in [Slots -> FrameType] /\ tsd \in [Slots -> BOOLEAN]
        /\ sender \in [Senders -> SendType] /\ wire \in Seq(FrameType)
        /\ sent \in Seq([protocol : Nat, len : Nat]) /\ free \in 1 .. RX /\ taken \in Nat
        /\ Slots = 0 .. Descriptors - 1 /\ Descriptors \in Nat \ {0}
    BY Parts
  <1>2. UNCHANGED <<tsad, tsd, tx_next, wire, sent, ring, cbr, free, status, handler, current_packet_ptr,
                    taken, wrong>>
    BY DEF ReadAgain, Advance, TestWrap, Reset, rxVars
  <1>3. PICK m \in 0 .. Descriptors, cur \in Slots : Queue(tsad, tsd, cur, tx_next, m) /\ SenderInv(cur)
    BY DEF Sound
  <1>4. /\ sender[p] \in SendType /\ sender[p].at \in Nat /\ sender[p].frame \in FrameType
        /\ tx_cur \in 0 .. Descriptors
    BY <1>1, <1>3 DEF SendType, SenderInv
  <1>5. /\ sender' \in [Senders -> SendType] /\ sender'[p].frame = sender[p].frame
        /\ \A q \in Senders : q # p => sender'[q] = sender[q]
        /\ sender'[p].stage \in Filling <=> sender[p].stage \in Filling
    <2>1. CASE ReadAgain(p)
      <3>1. PICK g : g = [sender[p] EXCEPT !.stage = "advance", !.at = tx_cur]
        OBVIOUS
      <3>2. sender' = [sender EXCEPT ![p] = g] /\ sender[p].stage = "read"
        BY <1>1, <2>1, <3>1 DEF ReadAgain
      <3>3. g \in SendType /\ g.frame = sender[p].frame /\ g.stage = "advance"
        <4>1. tx_cur \in Nat
          BY <1>1, <1>4
        <4> QED BY <1>4, <3>1, <4>1 DEF SendType, Filling
      <3> QED BY <1>1, <3>2, <3>3 DEF Filling
    <2>2. CASE Advance(p) \/ TestWrap(p) \/ Reset(p)
      <3>1. PICK x \in {"length", "reset", "idle"} :
              /\ sender' = [sender EXCEPT ![p].stage = x]
              /\ x = "length" <=> sender[p].stage = "advance"
              /\ sender[p].stage \in {"advance", "wrap", "reset"}
        BY <2>2 DEF Advance, TestWrap, Reset
      <3>2. PICK g : g = [sender[p] EXCEPT !.stage = x]
        OBVIOUS
      <3>3. g \in SendType /\ g.frame = sender[p].frame /\ g.stage = x
        BY <1>4, <3>1, <3>2 DEF SendType, Filling
      <3>4. sender' = [sender EXCEPT ![p] = g]
        BY <1>1, <3>1, <3>2
      <3> QED BY <1>1, <3>1, <3>3, <3>4 DEF Filling
    <2> QED BY <2>1, <2>2
  <1>6. \A q \in Senders : /\ sender'[q].stage \in Filling <=> sender[q].stage \in Filling
                           /\ sender'[q].frame = sender[q].frame
    BY <1>5
  <1>7. SenderInv(cur)'
    <2>1. CASE ReadAgain(p)
      <3>1. /\ sender[p].stage = "read" /\ sender'[p].stage = "advance" /\ sender'[p].at = tx_cur
            /\ UNCHANGED tx_cur
        BY <1>1, <1>4, <2>1 DEF ReadAgain, SendType
      <3> QED BY <1>2, <1>3, <1>5, <1>6, <3>1 DEF SenderInv, Filling
    <2>2. CASE Advance(p)
      <3>1. /\ sender[p].stage = "advance" /\ sender'[p].stage = "length" /\ sender'[p].at = sender[p].at
            /\ tx_cur' = sender[p].at + 1
        BY <1>1, <1>4, <2>2 DEF Advance, SendType
      <3>2. sender[p].at = cur /\ tx_cur' = cur + 1 /\ tx_cur' \in 0 .. Descriptors
        <4>1. sender[p].at = cur
          BY <1>3, <3>1 DEF SenderInv, Filling
        <4> QED BY <1>1, <1>3, <3>1, <4>1
      <3>3. \A q \in Senders : sender'[q].stage \in Filling => q = p
        BY <1>3, <1>6, <3>1 DEF SenderInv, Filling
      <3> QED BY <1>2, <1>3, <1>5, <1>6, <3>1, <3>2, <3>3 DEF SenderInv, Filling
    <2>3. CASE TestWrap(p)
      <3>1. sender[p].stage \notin Filling /\ UNCHANGED tx_cur
        BY <2>3 DEF TestWrap, Filling
      <3>2. sender'[p].stage \notin Filling
        BY <1>6, <3>1
      <3> QED BY <1>2, <1>3, <1>5, <1>6, <3>1, <3>2 DEF SenderInv, Filling
    <2>4. CASE Reset(p)
      <3>1. sender[p].stage \notin Filling /\ tx_cur' = 0 /\ tx_cur \in {0, Descriptors}
        BY <2>4 DEF Reset, Filling
      <3>2. sender'[p].stage \notin Filling
        BY <1>6, <3>1
      <3>3. Past(tx_cur', Descriptors) = Past(tx_cur, Descriptors) /\ (tx_cur = cur => tx_cur' = cur)
        BY <1>1, <3>1 DEF Past
      <3>4. tx_cur' \in 0 .. Descriptors
        BY <1>1, <3>1
      <3> QED BY <1>2, <1>3, <1>5, <1>6, <3>2, <3>3, <3>4 DEF SenderInv, Filling
    <2> QED BY <2>1, <2>2, <2>3, <2>4
  <1>8. /\ NicType' /\ RingInv' /\ WireInv' /\ ~wrong'
    BY <1>1, <1>2, <1>5, PathStays
  <1>9. PICK r \in 0 .. Len(sent), w \in 0 .. Len(sent), l \in 0 .. Len(sent) : Flight(r, w, l)
    BY DEF Sound
  <1>10. Flight(r, w, l)'
    BY <1>2, <1>6, <1>9 DEF Flight
  <1>11. r \in 0 .. Len(sent') /\ w \in 0 .. Len(sent') /\ l \in 0 .. Len(sent')
    BY <1>2
  <1>12. Queue(tsad', tsd', cur, tx_next', m)
    BY <1>2, <1>3
  <1> QED BY <1>3, <1>7, <1>8, <1>10, <1>11, <1>12 DEF Sound

LEMMA AddressSound ==
  ASSUME Sound, NEW p \in Senders, StoreAddress(p), ~excused'
  PROVE  Sound'
  <1>1. /\ tsad \in [Slots -> FrameType] /\ tsd \in [Slots -> BOOLEAN]
        /\ sender \in [Senders -> SendType] /\ wire \in Seq(FrameType)
        /\ sent \in Seq([protocol : Nat, len : Nat]) /\ free \in 1 .. RX /\ taken \in Nat
        /\ Slots = 0 .. Descriptors - 1 /\ Descriptors \in Nat \ {0}
    BY Parts
  <1>2. PICK m \in 0 .. Descriptors, cur \in Slots : Queue(tsad, tsd, cur, tx_next, m) /\ SenderInv(cur)
    BY DEF Sound
  <1>3. PICK f, g : f = sender[p].frame /\ g = [f EXCEPT !.len = tsad[cur].len]
    OBVIOUS
  <1>4. sender[p] \in SendType /\ f \in FrameType /\ sender[p].stage = "address" /\ sender[p].at = cur
    BY <1>1, <1>2, <1>3 DEF StoreAddress, SendType, SenderInv, Filling
  <1>5. g \in FrameType /\ g.id = f.id /\ [g EXCEPT !.len = f.len] = f
    <2>1. tsad[cur].len \in Nat
      BY <1>1, <1>2 DEF FrameType
    <2> QED BY <1>3, <1>4, <2>1 DEF FrameType
  <1>6. /\ sender' = [sender EXCEPT ![p].stage = "read"] /\ ~tsd[cur]
        /\ UNCHANGED <<tx_cur, tx_next, wire, sent, ring, cbr, free, status, handler,
                       current_packet_ptr, taken, wrong>>
    BY <1>1, <1>2, <1>4 DEF StoreAddress, rxVars
  <1>7. tsad' = [tsad EXCEPT ![cur] = g] /\ tsd' = tsd
    <2>1. PICK n \in Lengths :
            tsad' = [d \in DOMAIN tsad |-> IF d = cur THEN [sender[p].frame EXCEPT !.len = tsad[d].len]
                                          ELSE IF d = cur - Descriptors THEN [tsad[d] EXCEPT !.len = n]
                                          ELSE tsad[d]]
      BY <1>4 DEF StoreAddress
    <2>2. \A d \in Slots : d # cur - Descriptors
      BY <1>1, <1>2
    <2>3. DOMAIN tsad = Slots
      BY <1>1
    <2>4. tsad' = [d \in Slots |-> IF d = cur THEN g ELSE tsad[d]]
      BY <1>3, <2>1, <2>2, <2>3
    <2>5. tsd' = [d \in DOMAIN tsd |-> tsd[d] \/ d = cur - Descriptors]
      BY <1>4 DEF StoreAddress
    <2>6. tsd' = tsd
      BY <1>1, <2>2, <2>5, Zenon
    <2> QED BY <1>1, <2>4, <2>6
  <1>8. /\ sender' \in [Senders -> SendType] /\ sender'[p].stage = "read" /\ sender'[p].at = cur
        /\ sender'[p].frame = f /\ \A q \in Senders : q # p => sender'[q] = sender[q]
    <2>1. PICK s : s = [sender[p] EXCEPT !.stage = "read"]
      OBVIOUS
    <2>2. s \in SendType /\ s.stage = "read" /\ s.at = cur /\ s.frame = f
      BY <1>3, <1>4, <2>1 DEF SendType, Filling
    <2>3. sender' = [sender EXCEPT ![p] = s]
      BY <1>1, <1>6, <2>1
    <2> QED BY <1>1, <2>2, <2>3
  <1>9. /\ \A q \in Senders : sender'[q].stage \in Filling <=> sender[q].stage \in Filling
        /\ \A q \in Senders : sender'[q].frame = sender[q].frame
        /\ \A q \in Senders : sender'[q].stage \in Filling => q = p
    BY <1>2, <1>3, <1>4, <1>8 DEF SenderInv, Filling
  <1>10. /\ tsad' \in [Slots -> FrameType] /\ tsad'[cur] = g
         /\ \A d \in Slots : d # cur => tsad'[d] = tsad[d]
    BY <1>1, <1>5, <1>7
  <1>11. NicType' /\ RingInv' /\ WireInv' /\ ~wrong'
    BY <1>1, <1>6, <1>7, <1>8, <1>10, PathStays
  <1>12. SenderInv(cur)'
    BY <1>2, <1>4, <1>5, <1>6, <1>7, <1>8, <1>9, <1>10 DEF SenderInv, Filling
  <1>13. Queue(tsad', tsd', cur, tx_next', m)
    BY <1>1, <1>2, <1>6, <1>7, QueueAddress
  <1>14. PICK r \in 0 .. Len(sent), w \in 0 .. Len(sent), l \in 0 .. Len(sent) : Flight(r, w, l)
    BY DEF Sound
  <1>15. Flight(r, w, l)'
    <2>1. /\ taken' <= r /\ r <= w /\ w <= l /\ l <= Len(sent')
          /\ \A i \in DOMAIN ring' : Good(ring'[i], sent') /\ taken' < ring'[i].id /\ ring'[i].id <= r
          /\ \A i \in 1 .. Len(wire') : Good(wire'[i], sent') /\ r < wire'[i].id /\ wire'[i].id <= w
      BY <1>6, <1>14 DEF Flight
    <2>2. \A d \in Slots : tsd'[d] => Good(OnWire(tsad'[d]), sent') /\ w < tsad'[d].id /\ tsad'[d].id <= l
      BY <1>6, <1>7, <1>10, <1>14 DEF Flight
    <2>3. \A q \in Senders : sender'[q].stage \in Filling =>
            Good(OnWire(sender'[q].frame), sent') /\ l < sender'[q].frame.id
      BY <1>6, <1>9, <1>14 DEF Flight
    <2> QED BY <2>1, <2>2, <2>3 DEF Flight
  <1>16. r \in 0 .. Len(sent') /\ w \in 0 .. Len(sent') /\ l \in 0 .. Len(sent')
    BY <1>6
  <1> QED BY <1>2, <1>11, <1>12, <1>13, <1>15, <1>16 DEF Sound

LEMMA LengthSound ==
  ASSUME Sound, NEW p \in Senders, StoreLength(p)
  PROVE  Sound'
  <1>1. /\ tsad \in [Slots -> FrameType] /\ tsd \in [Slots -> BOOLEAN]
        /\ sender \in [Senders -> SendType] /\ wire \in Seq(FrameType)
        /\ sent \in Seq([protocol : Nat, len : Nat]) /\ free \in 1 .. RX /\ taken \in Nat
        /\ Slots = 0 .. Descriptors - 1 /\ Descriptors \in Nat \ {0}
    BY Parts
  <1>2. PICK m \in 0 .. Descriptors, cur \in Slots : Queue(tsad, tsd, cur, tx_next, m) /\ SenderInv(cur)
    BY DEF Sound
  <1>3. PICK f : f = sender[p].frame
    OBVIOUS
  <1>4. /\ sender[p] \in SendType /\ f \in FrameType /\ sender[p].stage = "length" /\ sender[p].at = cur
        /\ Past(tx_cur, Descriptors) = Past(cur + 1, Descriptors) /\ tx_cur \in 0 .. Descriptors
        /\ [tsad[cur] EXCEPT !.len = f.len] = f /\ ~tsd[cur]
        /\ \A q \in Senders : sender[q].stage \in Filling => q = p
    BY <1>1, <1>2, <1>3 DEF StoreLength, SendType, SenderInv, Filling
  <1>5. UNCHANGED <<tx_cur, tx_next, wire, sent, ring, cbr, free, status, handler, current_packet_ptr,
                    taken, wrong>>
    BY DEF StoreLength, rxVars
  <1>6. tsad' = [tsad EXCEPT ![cur] = f] /\ tsd' = [tsd EXCEPT ![cur] = TRUE]
    <2>1. DOMAIN tsad = Slots /\ DOMAIN tsd = Slots
      BY <1>1
    <2>2. tsad' = [d \in Slots |-> IF d = cur THEN [tsad[d] EXCEPT !.len = f.len] ELSE tsad[d]]
      BY <1>3, <1>4, <2>1 DEF StoreLength
    <2>3. tsd' = [d \in Slots |-> tsd[d] \/ d = cur]
      BY <1>4, <2>1 DEF StoreLength
    <2>4. \A d \in Slots : (tsd[d] \/ d = cur) = (IF d = cur THEN TRUE ELSE tsd[d])
      BY <1>1
    <2>5. tsd' = [tsd EXCEPT ![cur] = TRUE]
      BY <2>1, <2>3, <2>4, Zenon
    <2>6. tsad' = [tsad EXCEPT ![cur] = f]
      BY <1>1, <1>4, <2>2
    <2> QED BY <2>5, <2>6
  <1>7. /\ sender' \in [Senders -> SendType] /\ sender'[p].stage = "wrap"
        /\ \A q \in Senders : q # p => sender'[q] = sender[q]
    <2>1. PICK s : s = [sender[p] EXCEPT !.stage = "wrap", !.frame = NoFrame]
      OBVIOUS
    <2>2. NoFrame \in FrameType
      BY DEF NoFrame, FrameType
    <2>3. s \in SendType /\ s.stage = "wrap"
      BY <1>4, <2>1, <2>2 DEF SendType
    <2>4. sender' = [sender EXCEPT ![p] = s]
      BY <1>1, <2>1 DEF StoreLength
    <2> QED BY <1>1, <2>3, <2>4
  <1>8. \A q \in Senders : sender'[q].stage \notin Filling
    BY <1>4, <1>7 DEF Filling
  <1>9. /\ tsad' \in [Slots -> FrameType] /\ tsd' \in [Slots -> BOOLEAN] /\ tsad'[cur] = f
        /\ \A d \in Slots : d # cur => tsad'[d] = tsad[d]
        /\ \A d \in Slots : tsd'[d] <=> tsd[d] \/ d = cur
    BY <1>1, <1>4, <1>6
  <1>10. NicType' /\ RingInv' /\ WireInv' /\ ~wrong'
    BY <1>1, <1>5, <1>7, <1>9, PathStays
  <1>11. Past(cur + 1, Descriptors) \in Slots
    BY <1>1 DEF Past
  <1>12. SenderInv(Past(cur + 1, Descriptors))'
    BY <1>4, <1>5, <1>8 DEF SenderInv, Filling
  <1>13. PICK r \in 0 .. Len(sent), w \in 0 .. Len(sent), l \in 0 .. Len(sent) : Flight(r, w, l)
    BY DEF Sound
  <1>14. OnWire(f).id = f.id
    BY <1>4 DEF OnWire, FrameType
  <1>15. Good(OnWire(f), sent) /\ l < f.id /\ f.id \in 1 .. Len(sent)
    <2>1. Good(OnWire(f), sent) /\ l < f.id
      BY <1>3, <1>4, <1>13 DEF Flight, Filling
    <2> QED BY <1>14, <2>1 DEF Good
  <1>16. \A d \in Slots : tsd[d] => /\ Good(OnWire(tsad[d]), sent) /\ w < tsad[d].id /\ tsad[d].id <= l
                                    /\ tsad[d].id \in Nat
    BY <1>1, <1>13 DEF Flight, FrameType
  <1>17. m + 1 \in 0 .. Descriptors
    <2>1. m < Descriptors
      BY <1>2, <1>4, QueueFull
    <2> QED BY <1>1, <2>1
  <1>18. Queue(tsad', tsd', Past(cur + 1, Descriptors), tx_next', m + 1)
    <2>1. Queue(tsad', tsd, cur, tx_next, m)
      BY <1>1, <1>2, <1>4, <1>6, QueueAddress
    <2>2. \A d \in Slots : tsd[d] => tsad'[d].id < tsad'[cur].id
      BY <1>4, <1>9, <1>13, <1>15, <1>16
    <2>3. Queue(tsad', [tsd EXCEPT ![cur] = TRUE], Past(cur + 1, Descriptors), tx_next, m + 1)
      BY <1>1, <1>4, <1>9, <2>1, <2>2, QueueStart
    <2> QED BY <1>5, <1>6, <2>3
  <1>19. Flight(r, w, f.id)'
    <2>1. taken' <= r /\ r <= w /\ w <= f.id /\ f.id <= Len(sent')
      BY <1>1, <1>5, <1>13, <1>15 DEF Flight
    <2>2. \A i \in DOMAIN ring' : Good(ring'[i], sent') /\ taken' < ring'[i].id /\ ring'[i].id <= r
      BY <1>5, <1>13 DEF Flight
    <2>3. \A i \in 1 .. Len(wire') : Good(wire'[i], sent') /\ r < wire'[i].id /\ wire'[i].id <= w
      BY <1>5, <1>13 DEF Flight
    <2>4. ASSUME NEW d \in Slots, tsd'[d]
          PROVE  Good(OnWire(tsad'[d]), sent') /\ w < tsad'[d].id /\ tsad'[d].id <= f.id
      <3>1. CASE d = cur
        <4>1. w < f.id
          BY <1>13, <1>15 DEF Flight
        <4> QED BY <1>5, <1>9, <1>15, <3>1, <4>1
      <3>2. CASE d # cur
        <4>1. tsd[d] /\ tsad'[d] = tsad[d]
          BY <1>9, <2>4, <3>2
        <4>2. tsad[d].id <= f.id
          BY <1>13, <1>15, <1>16, <4>1
        <4> QED BY <1>5, <1>16, <4>1, <4>2
      <3> QED BY <3>1, <3>2
    <2>5. \A q \in Senders : sender'[q].stage \in Filling =>
            Good(OnWire(sender'[q].frame), sent') /\ f.id < sender'[q].frame.id
      BY <1>8
    <2> QED BY <2>1, <2>2, <2>3, <2>4, <2>5 DEF Flight
  <1>20. f.id \in 0 .. Len(sent') /\ r \in 0 .. Len(sent') /\ w \in 0 .. Len(sent')
    BY <1>5, <1>15
  <1> QED BY <1>10, <1>11, <1>12, <1>17, <1>18, <1>19, <1>20 DEF Sound

LEMMA TransmitSound ==
  ASSUME Sound, Transmit
  PROVE  Sound'
  <1>1. /\ tsd[tx_next] /\ tsd' = [tsd EXCEPT ![tx_next] = FALSE]
        /\ tx_next' = (tx_next + 1) % Descriptors
        /\ wire' = Append(wire, OnWire(tsad[tx_next]))
        /\ UNCHANGED <<tx_cur, tsad, sender, sent, ring, cbr, free, status, handler, current_packet_ptr,
                       taken, wrong>>
    BY DEF Transmit, rxVars
  <1>2. /\ tsad \in [Slots -> FrameType] /\ tsd \in [Slots -> BOOLEAN]
        /\ sender \in [Senders -> SendType] /\ wire \in Seq(FrameType)
        /\ sent \in Seq([protocol : Nat, len : Nat]) /\ free \in 1 .. RX /\ taken \in Nat
    BY DEF Sound, NicType
  <1>3. PICK m \in 0 .. Descriptors, cur \in Slots : Queue(tsad, tsd, cur, tx_next, m) /\ SenderInv(cur)
    BY DEF Sound
  <1>4. PICK k \in 0 .. Descriptors : Queue(tsad', tsd', cur, tx_next', k)
    BY <1>1, <1>2, <1>3, QueueTransmit
  <1>5. /\ tx_next \in Slots
        /\ \A d \in Slots : tsd[d] /\ d # tx_next => tsad[tx_next].id < tsad[d].id
    BY <1>1, <1>2, <1>3, QueueTransmit, SMTT(30) DEF Queue
  <1>6. PICK f \in FrameType : f = OnWire(tsad[tx_next]) /\ f.id = tsad[tx_next].id
    <2>1. tsad[tx_next] \in FrameType
      BY <1>2, <1>5
    <2>2. OnWire(tsad[tx_next]) \in FrameType /\ OnWire(tsad[tx_next]).id = tsad[tx_next].id
      BY <2>1 DEF OnWire, FrameType, CRC
    <2> QED BY <2>2
  <1>7. PICK r \in 0 .. Len(sent), w \in 0 .. Len(sent), l \in 0 .. Len(sent) : Flight(r, w, l)
    BY DEF Sound
  <1>8. Good(f, sent) /\ w < f.id /\ f.id <= l /\ f.id \in 1 .. Len(sent)
    BY <1>1, <1>5, <1>6, <1>7 DEF Flight, Good
  <1>9. tsd' \in [Slots -> BOOLEAN] /\ \A d \in Slots : tsd'[d] <=> tsd[d] /\ d # tx_next
    BY <1>1, <1>2, <1>5
  <1>10. PICK n \in Nat : n = Len(wire)
    BY <1>2
  <1>11. /\ wire' \in Seq(FrameType) /\ Len(wire') = n + 1 /\ wire'[n + 1] = f
         /\ \A i \in 1 .. n : wire'[i] = wire[i]
    BY <1>1, <1>2, <1>6, <1>10
  <1>12. \A i \in 1 .. n : Good(wire[i], sent) /\ r < wire[i].id /\ wire[i].id <= w /\ wire[i].id \in Nat
    <2> TAKE i \in 1 .. n
    <2>1. wire[i] \in FrameType
      BY <1>2, <1>10
    <2>2. wire[i].id \in Nat
      BY <2>1 DEF FrameType
    <2> QED BY <1>7, <1>10, <2>2 DEF Flight
  <1>13. NicType'
    BY <1>1, <1>2, <1>9, <1>11 DEF NicType
  <1>14. RingInv' /\ ~wrong'
    BY <1>1 DEF Sound, RingInv
  <1>15. SenderInv(cur)'
    BY <1>1, <1>3, <1>9 DEF SenderInv
  <1>16. WireInv'
    <2> SUFFICES ASSUME NEW i \in 1 .. n + 1, NEW j \in 1 .. n + 1, i < j PROVE wire'[i].id < wire'[j].id
      BY <1>11 DEF WireInv
    <2>1. i \in 1 .. n
      BY <1>10
    <2>2. CASE j \in 1 .. n
      <3>1. wire[i].id < wire[j].id
        BY <1>10, <2>1, <2>2 DEF Sound, WireInv
      <3> QED BY <1>11, <2>1, <2>2, <3>1
    <2>3. CASE j = n + 1
      <3>1. wire[i].id < f.id
        BY <1>7, <1>8, <1>12, <2>1
      <3> QED BY <1>11, <2>1, <2>3, <3>1
    <2> QED BY <1>10, <2>2, <2>3
  <1>17. Flight(r, f.id, l)'
    <2>1. taken' <= r /\ r <= f.id /\ f.id <= l /\ l <= Len(sent')
      BY <1>1, <1>2, <1>7, <1>8 DEF Flight
    <2>2. \A i \in DOMAIN ring' : Good(ring'[i], sent') /\ taken' < ring'[i].id /\ ring'[i].id <= r
      BY <1>1, <1>7 DEF Flight
    <2>3. ASSUME NEW i \in 1 .. Len(wire')
          PROVE  Good(wire'[i], sent') /\ r < wire'[i].id /\ wire'[i].id <= f.id
      <3>1. CASE i \in 1 .. n
        <4>1. wire'[i] = wire[i] /\ sent' = sent
          BY <1>1, <1>11, <3>1
        <4>2. wire[i].id <= f.id
          BY <1>7, <1>8, <1>12, <3>1
        <4> QED BY <1>12, <3>1, <4>1, <4>2
      <3>2. CASE i = n + 1
        <4>1. r < f.id
          BY <1>7, <1>8 DEF Flight
        <4> QED BY <1>1, <1>8, <1>11, <3>2, <4>1
      <3> QED BY <1>10, <1>11, <3>1, <3>2
    <2>4. \A d \in Slots : tsd'[d] => Good(OnWire(tsad'[d]), sent') /\ f.id < tsad'[d].id /\ tsad'[d].id <= l
      BY <1>1, <1>5, <1>6, <1>7, <1>9 DEF Flight
    <2>5. \A q \in Senders : sender'[q].stage \in Filling =>
            Good(OnWire(sender'[q].frame), sent') /\ l < sender'[q].frame.id
      BY <1>1, <1>7 DEF Flight
    <2> QED BY <2>1, <2>2, <2>3, <2>4, <2>5 DEF Flight
  <1>18. r \in 0 .. Len(sent') /\ f.id \in 0 .. Len(sent') /\ l \in 0 .. Len(sent')
    BY <1>1, <1>8
  <1> QED BY <1>3, <1>4, <1>13, <1>14, <1>15, <1>16, <1>17, <1>18 DEF Sound


\* The wire without its first frame.
LEMMA WireTail ==
  ASSUME Sound, wire # <<>>, wire' = Tail(wire)
  PROVE  /\ wire' \in Seq(FrameType) /\ Len(wire') = Len(wire) - 1 /\ WireInv'
         /\ \A i \in 1 .. Len(wire') : i + 1 \in 1 .. Len(wire) /\ wire'[i] = wire[i + 1]
         /\ Head(wire) = wire[1] /\ 1 \in 1 .. Len(wire)
         /\ \A i \in 1 .. Len(wire') : wire[1].id < wire'[i].id
  <1>1. wire \in Seq(FrameType)
    BY DEF Sound, NicType
  <1>2. PICK n \in Nat : n = Len(wire) /\ n >= 1
    BY <1>1
  <1>3. /\ wire' \in Seq(FrameType) /\ Len(wire') = n - 1 /\ Head(wire) = wire[1]
        /\ \A i \in 1 .. n - 1 : wire'[i] = wire[i + 1]
    BY <1>1, <1>2
  <1>4. \A i, j \in 1 .. n : i < j => wire[i].id < wire[j].id
    BY <1>2 DEF Sound, WireInv
  <1>5. \A i \in 1 .. n - 1 : i + 1 \in 1 .. n /\ 1 \in 1 .. n /\ 1 < i + 1
    BY <1>2
  <1>6. \A i \in 1 .. n - 1 : wire[1].id < wire'[i].id
    BY <1>3, <1>4, <1>5
  <1>7. ASSUME NEW i \in 1 .. n - 1, NEW j \in 1 .. n - 1, i < j PROVE wire'[i].id < wire'[j].id
    <2>1. i + 1 < j + 1
      BY <1>2, <1>7
    <2> QED BY <1>3, <1>4, <1>5, <2>1
  <1> QED BY <1>2, <1>3, <1>5, <1>6, <1>7 DEF WireInv

LEMMA LoseSound ==
  ASSUME Sound, Lose
  PROVE  Sound'
  <1>1. /\ wire # <<>> /\ wire' = Tail(wire)
        /\ UNCHANGED <<tx_cur, tsad, tsd, sender, tx_next, sent, ring, cbr, free, status, handler,
                       current_packet_ptr, taken, wrong>>
    BY DEF Lose, txVars, rxVars
  <1>2. /\ wire' \in Seq(FrameType) /\ WireInv'
        /\ \A i \in 1 .. Len(wire') : i + 1 \in 1 .. Len(wire) /\ wire'[i] = wire[i + 1]
    BY <1>1, WireTail
  <1>3. NicType'
    BY <1>1, <1>2 DEF Sound, NicType
  <1>4. RingInv' /\ ~wrong'
    BY <1>1 DEF Sound, RingInv
  <1>5. \E m \in 0 .. Descriptors, d \in Slots : Queue(tsad', tsd', d, tx_next', m) /\ SenderInv(d)'
    BY <1>1 DEF Sound, SenderInv
  <1>6. PICK r \in 0 .. Len(sent), w \in 0 .. Len(sent), l \in 0 .. Len(sent) : Flight(r, w, l)
    BY DEF Sound
  <1>7. Flight(r, w, l)'
    <2>1. \A i \in 1 .. Len(wire') : Good(wire'[i], sent') /\ r < wire'[i].id /\ wire'[i].id <= w
      BY <1>1, <1>2, <1>6 DEF Flight
    <2> QED BY <1>1, <1>6, <2>1 DEF Flight
  <1>8. r \in 0 .. Len(sent') /\ w \in 0 .. Len(sent') /\ l \in 0 .. Len(sent')
    BY <1>1
  <1> QED BY <1>2, <1>3, <1>4, <1>5, <1>7, <1>8 DEF Sound

LEMMA StoreSound ==
  ASSUME Sound, Store, ~excused'
  PROVE  Sound'
  <1>0. PICK f, n, cb : f = Head(wire) /\ n = Padded(f.len) /\ cb = cbr
    OBVIOUS
  <1>1. /\ wire # <<>> /\ n < free /\ wire' = Tail(wire)
        /\ ring' = [i \in DOMAIN ring \cup {cb} |-> IF i = cb THEN f ELSE ring[i]]
        /\ cbr' = (cb + n) % RX /\ free' = free - n
        /\ cb + n # RX
        /\ UNCHANGED <<tx_cur, tsad, tsd, sender, tx_next, sent, handler, current_packet_ptr, taken, wrong>>
    BY <1>0 DEF Store, txVars, RX
  <1>2. /\ tsad \in [Slots -> FrameType] /\ tsd \in [Slots -> BOOLEAN]
        /\ sender \in [Senders -> SendType] /\ wire \in Seq(FrameType)
        /\ sent \in Seq([protocol : Nat, len : Nat]) /\ free \in 1 .. RX /\ taken \in Nat
    BY DEF Sound, NicType
  <1>3. /\ wire' \in Seq(FrameType) /\ WireInv'
        /\ \A i \in 1 .. Len(wire') : i + 1 \in 1 .. Len(wire) /\ wire'[i] = wire[i + 1]
        /\ f = wire[1] /\ 1 \in 1 .. Len(wire)
        /\ \A i \in 1 .. Len(wire') : f.id < wire'[i].id
    BY <1>0, <1>1, WireTail
  <1>4. f \in FrameType /\ f.id \in Nat /\ f.len \in Nat
    <2>1. f \in FrameType
      BY <1>2, <1>3
    <2> QED BY <2>1 DEF FrameType
  <1>5. PICK r \in 0 .. Len(sent), w \in 0 .. Len(sent), l \in 0 .. Len(sent) : Flight(r, w, l)
    BY DEF Sound
  <1>6. Good(f, sent) /\ r < f.id /\ f.id <= w /\ f.id \in 1 .. Len(sent)
    BY <1>3, <1>5 DEF Flight, Good
  <1>7. RX \in Nat \ {0} /\ n \in Nat /\ n >= 4
    BY <1>0, <1>4, NicSizes, PaddedIs
  <1>8. PICK cur, used : /\ cur = current_packet_ptr /\ used = RX - free /\ Chain(ring, cur, used)
                         /\ cb = Past(cur + used, RX)
    BY <1>0 DEF Sound, RingInv
  <1>9. used \in 0 .. RX - 1 /\ cur \in 0 .. RX - 1 /\ n < RX - used
    <2>1. used \in 0 .. RX - 1 /\ cur \in 0 .. RX - 1
      BY <1>8 DEF Chain
    <2> QED BY <1>1, <1>2, <1>7, <1>8, <2>1
  <1>10. /\ cb \in 0 .. RX - 1 /\ cb \notin DOMAIN ring
         /\ Chain(ring', cur, used + n)
    <2>1. \A i \in DOMAIN ring : ring[i].id < f.id
      <3> TAKE i \in DOMAIN ring
      <3>1. ring[i].id \in Nat
        BY <1>8 DEF Chain
      <3>2. ring[i].id <= r
        BY <1>5 DEF Flight
      <3> QED BY <1>4, <1>5, <1>6, <3>1, <3>2
    <2>2. Padded(f.len) = n /\ Padded(f.len) < RX - used /\ cb + Padded(f.len) # RX
      BY <1>0, <1>1, <1>9
    <2>3. Chain(ring, cur, used) /\ cb = Past(cur + used, RX)
      BY <1>8
    <2>4. /\ cb \in 0 .. RX - 1 /\ cb \notin DOMAIN ring
          /\ Chain([i \in DOMAIN ring \cup {cb} |-> IF i = cb THEN f ELSE ring[i]], cur, used + Padded(f.len))
      BY <1>4, <2>1, <2>2, <2>3, ChainStore, SMTT(30)
    <2> QED BY <1>1, <2>2, <2>4
  <1>11. cbr' = Past(cur + (used + n), RX)
    <2>1. n \in 0 .. RX /\ used + n <= RX
      BY <1>7, <1>9
    <2>2. (cb + n) % RX = Past(cb + n, RX)
      BY <1>7, <1>10, <2>1, PastMod
    <2>3. Past(Past(cur + used, RX) + n, RX) = Past(cur + (used + n), RX)
      BY <1>7, <1>9, <2>1, PastPast
    <2> QED BY <1>1, <1>8, <2>2, <2>3
  <1>12. RX - free' = used + n /\ free' \in 1 .. RX /\ RX - free' # 0
    BY <1>1, <1>2, <1>7, <1>8, <1>9
  <1>13. RingInv'
    BY <1>1, <1>8, <1>10, <1>11, <1>12 DEF RingInv
  <1>14. NicType'
    BY <1>1, <1>2, <1>3, <1>12 DEF NicType
  <1>15. ~wrong'
    BY <1>1 DEF Sound
  <1>16. \E m \in 0 .. Descriptors, d \in Slots : Queue(tsad', tsd', d, tx_next', m) /\ SenderInv(d)'
    BY <1>1 DEF Sound, SenderInv
  <1>17. Flight(f.id, w, l)'
    <2>1. taken' <= f.id /\ f.id <= w /\ w <= l /\ l <= Len(sent')
      BY <1>1, <1>2, <1>4, <1>5, <1>6 DEF Flight
    <2>2. ASSUME NEW i \in DOMAIN ring'
          PROVE  Good(ring'[i], sent') /\ taken' < ring'[i].id /\ ring'[i].id <= f.id
      <3>1. CASE i = cb
        <4>1. ring'[i] = f
          BY <1>1, <3>1
        <4>2. taken < f.id
          BY <1>2, <1>4, <1>5, <1>6 DEF Flight
        <4> QED BY <1>1, <1>4, <1>6, <4>1, <4>2
      <3>2. CASE i \in DOMAIN ring
        <4>1. ring'[i] = ring[i]
          BY <1>1, <1>10, <3>2
        <4>2. Good(ring[i], sent) /\ taken < ring[i].id /\ ring[i].id <= r
          BY <1>5, <3>2 DEF Flight
        <4>3. ring[i].id \in Nat
          BY <4>2 DEF Good
        <4>4. ring[i].id <= f.id
          BY <1>4, <1>5, <1>6, <4>2, <4>3
        <4> QED BY <1>1, <4>1, <4>2, <4>4
      <3> QED BY <1>1, <3>1, <3>2
    <2>3. \A i \in 1 .. Len(wire') : Good(wire'[i], sent') /\ f.id < wire'[i].id /\ wire'[i].id <= w
      BY <1>1, <1>3, <1>5 DEF Flight
    <2>4. \A d \in Slots : tsd'[d] => Good(OnWire(tsad'[d]), sent') /\ w < tsad'[d].id /\ tsad'[d].id <= l
      BY <1>1, <1>5 DEF Flight
    <2>5. \A q \in Senders : sender'[q].stage \in Filling =>
            Good(OnWire(sender'[q].frame), sent') /\ l < sender'[q].frame.id
      BY <1>1, <1>5 DEF Flight
    <2> QED BY <2>1, <2>2, <2>3, <2>4, <2>5 DEF Flight
  <1>18. f.id \in 0 .. Len(sent') /\ w \in 0 .. Len(sent') /\ l \in 0 .. Len(sent')
    BY <1>1, <1>6
  <1> QED BY <1>3, <1>13, <1>14, <1>15, <1>16, <1>17, <1>18 DEF Sound

LEMMA ReceiveSound ==
  ASSUME Sound, receive_packet
  PROVE  Sound'
  <1>1. PICK cur, used : /\ cur = current_packet_ptr /\ used = RX - free /\ Chain(ring, cur, used)
                         /\ cbr = Past(cur + used, RX)
    BY DEF Sound, RingInv
  <1>2. handler = "receive" /\ used # 0
    BY <1>1 DEF receive_packet, Sound, RingInv
  <1>3. PICK f, n, next : f = ring[cur] /\ n = Padded(f.len) /\ next = Past(cur + n, RX)
    OBVIOUS
  <1>4. /\ cur \in DOMAIN ring /\ n \in Nat /\ n >= 4 /\ n <= used
        /\ Advanced(cur, f.len) = next
        /\ Past(next + (used - n), RX) = Past(cur + used, RX)
        /\ Chain([i \in DOMAIN ring \ {cur} |-> ring[i]], next, used - n)
        /\ \A i \in DOMAIN ring \ {cur} : f.id < ring[i].id
    BY <1>1, <1>2, <1>3, ChainTake
  <1>5. /\ handler' = "ack" /\ current_packet_ptr' = next /\ free' = free + n
        /\ ring' = [i \in DOMAIN ring \ {cur} |-> ring[i]] /\ taken' = f.id
        /\ wrong' = (wrong \/ f.id <= taken \/ Handled(f) # sent[f.id])
        /\ UNCHANGED <<tx_cur, tsad, tsd, sender, tx_next, sent, wire, cbr, status>>
    BY <1>1, <1>3, <1>4 DEF receive_packet, txVars
  <1>6. /\ tsad \in [Slots -> FrameType] /\ tsd \in [Slots -> BOOLEAN]
        /\ sender \in [Senders -> SendType] /\ wire \in Seq(FrameType)
        /\ sent \in Seq([protocol : Nat, len : Nat]) /\ free \in 1 .. RX /\ taken \in Nat
    BY DEF Sound, NicType
  <1>7. PICK r \in 0 .. Len(sent), w \in 0 .. Len(sent), l \in 0 .. Len(sent) : Flight(r, w, l)
    BY DEF Sound
  <1>8. Good(f, sent) /\ taken < f.id /\ f.id <= r /\ f.id \in Nat /\ Handled(f) = sent[f.id]
    <2>1. Good(f, sent) /\ taken < f.id /\ f.id <= r
      BY <1>3, <1>4, <1>7 DEF Flight
    <2>2. f.id \in Nat /\ Handled(f) = sent[f.id]
      BY <2>1 DEF Good
    <2> QED BY <2>1, <2>2
  <1>9. ~wrong'
    <2>1. ~(f.id <= taken)
      BY <1>6, <1>8
    <2>2. ~wrong
      BY DEF Sound
    <2> QED BY <1>5, <1>8, <2>1, <2>2
  <1>10. RX \in Nat \ {0} /\ used \in 0 .. RX - 1
    BY <1>1, NicSizes DEF Chain
  <1>11. free' \in 1 .. RX /\ RX - free' = used - n
    <2>1. used = RX - free /\ free' = free + n /\ n \in Nat /\ n <= used /\ free \in 1 .. RX
      BY <1>1, <1>4, <1>5, <1>6
    <2> QED BY <1>10, <2>1
  <1>12. RingInv'
    BY <1>1, <1>4, <1>5, <1>11 DEF RingInv
  <1>13. NicType'
    BY <1>5, <1>6, <1>8, <1>11 DEF NicType
  <1>14. WireInv'
    BY <1>5 DEF Sound, WireInv
  <1>15. \E m \in 0 .. Descriptors, d \in Slots : Queue(tsad', tsd', d, tx_next', m) /\ SenderInv(d)'
    BY <1>5 DEF Sound, SenderInv
  <1>16. Flight(r, w, l)'
    <2>1. taken' <= r /\ r <= w /\ w <= l /\ l <= Len(sent')
      BY <1>5, <1>7, <1>8 DEF Flight
    <2>2. \A i \in DOMAIN ring' : Good(ring'[i], sent') /\ taken' < ring'[i].id /\ ring'[i].id <= r
      <3>1. DOMAIN ring' = DOMAIN ring \ {cur} /\ \A i \in DOMAIN ring' : ring'[i] = ring[i]
        BY <1>5
      <3> QED BY <1>4, <1>5, <1>7, <3>1 DEF Flight
    <2>3. \A i \in 1 .. Len(wire') : Good(wire'[i], sent') /\ r < wire'[i].id /\ wire'[i].id <= w
      BY <1>5, <1>7 DEF Flight
    <2>4. \A d \in Slots : tsd'[d] => Good(OnWire(tsad'[d]), sent') /\ w < tsad'[d].id /\ tsad'[d].id <= l
      BY <1>5, <1>7 DEF Flight
    <2>5. \A q \in Senders : sender'[q].stage \in Filling =>
            Good(OnWire(sender'[q].frame), sent') /\ l < sender'[q].frame.id
      BY <1>5, <1>7 DEF Flight
    <2> QED BY <2>1, <2>2, <2>3, <2>4, <2>5 DEF Flight
  <1>17. r \in 0 .. Len(sent') /\ w \in 0 .. Len(sent') /\ l \in 0 .. Len(sent')
    BY <1>5
  <1> QED BY <1>9, <1>12, <1>13, <1>14, <1>15, <1>16, <1>17 DEF Sound

\* The handler's other parts, and a step of nothing.
LEMMA HandlerSound ==
  ASSUME Sound, ReadStatus \/ Acknowledge \/ UNCHANGED nicVars
  PROVE  Sound'
  <1>1. /\ UNCHANGED <<tx_cur, tsad, tsd, sender, tx_next, sent, wire, ring, cbr, free, current_packet_ptr,
                       taken, wrong>>
        /\ (handler' = "receive" /\ handler = "out" /\ status # {})
           \/ (handler' = "out" /\ status' = {})
           \/ UNCHANGED <<handler, status>>
    BY DEF ReadStatus, Acknowledge, nicVars, txVars, rxVars
  <1>2. RingInv'
    BY <1>1 DEF Sound, RingInv
  <1>3. NicType' /\ WireInv' /\ ~wrong'
    BY <1>1 DEF Sound, NicType, WireInv
  <1>4. \E m \in 0 .. Descriptors, d \in Slots : Queue(tsad', tsd', d, tx_next', m) /\ SenderInv(d)'
    BY <1>1 DEF Sound, SenderInv
  <1>5. PICK r \in 0 .. Len(sent), w \in 0 .. Len(sent), l \in 0 .. Len(sent) : Flight(r, w, l)
    BY DEF Sound
  <1>6. Flight(r, w, l)'
    BY <1>1, <1>5 DEF Flight
  <1>7. r \in 0 .. Len(sent') /\ w \in 0 .. Len(sent') /\ l \in 0 .. Len(sent')
    BY <1>1
  <1> QED BY <1>2, <1>3, <1>4, <1>6, <1>7 DEF Sound

LEMMA NicInitSound == NicInit => Sound
  <1> SUFFICES ASSUME NicInit PROVE Sound
    OBVIOUS
  <1>1. /\ tx_cur = 0 /\ tx_next = 0 /\ tsad = [d \in Slots |-> NoFrame] /\ tsd = [d \in Slots |-> FALSE]
        /\ sender = [p \in Senders |-> Idle] /\ wire = <<>> /\ ring = [i \in {} |-> NoFrame]
        /\ cbr = 0 /\ free = RX /\ status = {} /\ handler = "out" /\ current_packet_ptr = 0
        /\ sent = <<>> /\ taken = 0 /\ wrong = FALSE
    BY DEF NicInit, Slots, RX
  <1>2. RX \in Nat \ {0} /\ Descriptors \in Nat \ {0}
    BY NicSizes
  <1>3. NoFrame \in FrameType /\ Idle \in SendType /\ Idle.stage \notin Filling
    BY DEF NoFrame, FrameType, Idle, SendType, Filling
  <1>4. NicType
    BY <1>1, <1>2, <1>3 DEF NicType
  <1>5. RingInv
    <2>1. DOMAIN ring = {} /\ RX - free = 0 /\ 0 % 4 = 0
      BY <1>1, <1>2
    <2>2. Chain(ring, 0, 0)
      BY <1>2, <2>1 DEF Chain
    <2>3. Past(0 + 0, RX) = 0
      BY <1>2 DEF Past
    <2> QED BY <1>1, <2>1, <2>2, <2>3 DEF RingInv
  <1>6. WireInv /\ ~wrong /\ SenderInv(0)
    <2>1. \A p \in Senders : sender[p].stage \notin Filling
      BY <1>1, <1>3
    <2>2. WireInv /\ ~wrong
      BY <1>1 DEF WireInv
    <2>3. tx_cur \in 0 .. Descriptors /\ Past(tx_cur, Descriptors) = 0
      BY <1>1, <1>2 DEF Past
    <2> QED BY <2>1, <2>2, <2>3 DEF SenderInv, Filling
  <1>7. Queue(tsad, tsd, 0, tx_next, 0) /\ 0 \in 0 .. Descriptors /\ 0 \in Slots
    <2>1. 0 \in Slots /\ 0 = Past(0 + 0, Descriptors) /\ 0 \in 0 .. Descriptors
      BY <1>2 DEF Slots, Past
    <2>2. \A d \in Slots : ~tsd[d] /\ ~(Dist(d, 0, Descriptors) < 0)
      <3> TAKE d \in Slots
      <3>1. d \in 0 .. Descriptors - 1
        BY DEF Slots
      <3> QED BY <1>1, <1>2, <3>1 DEF Dist
    <2> QED BY <1>1, <2>1, <2>2 DEF Queue
  <1>8. Flight(0, 0, 0) /\ 0 \in 0 .. Len(sent)
    <2>1. /\ Len(sent) = 0 /\ Len(wire) = 0 /\ DOMAIN ring = {}
          /\ \A p \in Senders : sender[p].stage \notin Filling
      BY <1>1, <1>3
    <2> QED BY <1>1, <2>1 DEF Flight
  <1> QED BY <1>4, <1>5, <1>6, <1>7, <1>8 DEF Sound

\* For every ring, number of descriptors, set of senders and of lengths: until an
\* excuse the frames that are under way are a part of what was sent, in order, and the
\* driver and the card agree on where they lie (rtl8139.c:19-94, ethernet.c:10-55).
THEOREM NicInvariant == NicSpec => []NicInv
  <1>1. NicInit => NicInv
    BY NicInitSound DEF NicInv
  <1>2. NicInv /\ [NicNext]_nicVars => NicInv'
    <2> SUFFICES ASSUME NicInv, [NicNext]_nicVars, ~excused' PROVE Sound'
      BY DEF NicInv
    <2>1. ~excused
      BY DEF NicNext, nicVars, ethernet_send_packet, rtl8139_send_packet, StoreAddress, ReadAgain, Advance,
             StoreLength, TestWrap, Reset, Transmit, Lose, Store, ReadStatus, receive_packet, Acknowledge
    <2>2. Sound
      BY <2>1 DEF NicInv
    <2>3. ASSUME NEW p \in Senders, NEW t \in Protocols, NEW len \in Lengths,
                 ethernet_send_packet(p, t, len)
          PROVE  Sound'
      BY <2>2, <2>3, SendSound
    <2>4. ASSUME NEW p \in Senders, rtl8139_send_packet(p) PROVE Sound'
      BY <2>2, <2>4, AddressSound, LengthSound, MoveSound DEF rtl8139_send_packet
    <2>5. CASE Transmit
      BY <2>2, <2>5, TransmitSound
    <2>6. CASE Lose
      BY <2>2, <2>6, LoseSound
    <2>7. CASE Store
      BY <2>2, <2>7, StoreSound
    <2>8. CASE receive_packet
      BY <2>2, <2>8, ReceiveSound
    <2>9. CASE ReadStatus \/ Acknowledge \/ UNCHANGED nicVars
      BY <2>2, <2>9, HandlerSound
    <2> QED BY <2>3, <2>4, <2>5, <2>6, <2>7, <2>8, <2>9 DEF NicNext
  <1> QED BY <1>1, <1>2, PTL DEF NicSpec

\* Without an excuse the receiver handles frames that were sent, in their order, each
\* once, under its own protocol and length (rtl8139.c:19-57, ethernet.c:10-55).
THEOREM FramesInOrderHolds == NicSpec => []FramesInOrder
  <1>1. NicInv => FramesInOrder
    BY DEF NicInv, Sound, FramesInOrder
  <1> QED BY <1>1, NicInvariant, PTL

-----------------------------------------------------------------------------
(***************************************************************************)
(* The timer, for every set of callbacks, every period and every width of  *)
(* the tick counter, whenever ticks fall.  The names without a prefix      *)
(* (Init, Next, vars, Spec, TypeOK) are the timer's.                       *)
(***************************************************************************)

\* A node that is filled points to the list as it is: only RegisterPublish changes the list.
PendingInv == node[1] # NoNode => node[2] = list

\* What the loop can reach has waited no longer than the counter is past a multiple of its
\* period: the counter wraps to 0, which is a multiple of every period.
LagInv ==
  \A i \in 1 .. Len(list) : Reachable(i) /\ Offset[list[i]] # 0 =>
    since[list[i]] <= jiffies % Offset[list[i]]

\* The inductive invariant.
TimerInv == TypeOK /\ PendingInv /\ LagInv

\* Before the first registration nothing is due.
LEMMA TimerInit == Init => TimerInv
  <1> SUFFICES ASSUME Init PROVE TimerInv
    OBVIOUS
  <1>1. list = <<>> /\ Len(list) = 0 /\ list \in Seq(Callback)
    BY DEF Init
  <1>2. TypeOK
    <2>1. node[1] = NoNode /\ node[2] = <<>> /\ <<>> \in Seq(Callback)
      BY DEF Init
    <2>2. since \in [Callback -> Nat] /\ jiffies \in 0 .. JiffyMod - 1
      BY TimerAssumption DEF Init
    <2> QED BY <1>1, <2>1, <2>2 DEF Init, TypeOK
  <1> QED BY <1>1, <1>2 DEF TimerInv, PendingInv, LagInv, Init

\* A list with one node in front: the other nodes are those of the old list, one place on.
LEMMA Front ==
  ASSUME NEW c \in Callback, NEW s \in Seq(Callback)
  PROVE  /\ <<c>> \o s \in Seq(Callback) /\ Len(<<c>> \o s) = Len(s) + 1
         /\ (<<c>> \o s)[1] = c
         /\ \A i \in 2 .. Len(s) + 1 : (<<c>> \o s)[i] = s[i - 1]
  OBVIOUS

\* The store to head: what the loop reaches of the old list it reached before.
LEMMA PublishInv == ASSUME TimerInv, RegisterPublish PROVE TimerInv'
  <1> DEFINE c == node[1]
  <1>1. /\ c \in Callback /\ node[2] = list /\ list \in Seq(Callback)
        /\ since \in [Callback -> Nat] /\ jiffies \in Nat
    BY TimerAssumption DEF TimerInv, TypeOK, PendingInv, RegisterPublish
  <1>2. list' = <<c>> \o list /\ since' = [since EXCEPT ![c] = 0] /\ jiffies' = jiffies
        /\ node' = <<NoNode, <<>>>> /\ panicked' = panicked
    BY <1>1 DEF RegisterPublish
  <1> HIDE DEF c
  <1>3. /\ list' \in Seq(Callback) /\ Len(list') = Len(list) + 1 /\ list'[1] = c
        /\ \A i \in 2 .. Len(list) + 1 : list'[i] = list[i - 1]
    BY <1>1, <1>2, Front
  <1>4. TypeOK'
    BY <1>1, <1>2, <1>3 DEF TimerInv, TypeOK
  <1>5. LagInv'
    <2> SUFFICES ASSUME NEW i \in 1 .. Len(list'), Reachable(i)', Offset[list'[i]] # 0
                 PROVE  since'[list'[i]] <= jiffies % Offset[list'[i]]
      BY <1>2 DEF LagInv
    <2>1. Len(list) \in Nat /\ list'[i] \in Callback
      BY <1>1, <1>3
    <2>2. Offset[list'[i]] \in Nat \ {0} /\ jiffies % Offset[list'[i]] \in Nat
      <3>1. Offset[list'[i]] \in Nat \ {0} /\ jiffies \in Int
        BY <1>1, <2>1, TimerAssumption
      <3>2. jiffies % Offset[list'[i]] \in 0 .. Offset[list'[i]] - 1
        BY <3>1, ModRange
      <3> QED BY <3>1, <3>2
    <2>3. CASE list'[i] = c
      <3>1. since'[c] = 0
        BY <1>1, <1>2
      <3> QED BY <2>2, <2>3, <3>1
    <2>4. CASE list'[i] # c
      <3>1. i >= 2 /\ i - 1 \in 1 .. Len(list) /\ list'[i] = list[i - 1]
        BY <1>3, <2>1, <2>4
      <3>2. Reachable(i - 1)
        <4>1. i - 1 \in 1 .. LoopLength
          BY <1>3, <2>1, <3>1 DEF Reachable, LoopLength
        <4>2. \A k \in 1 .. i - 2 : list[k] \notin NoReturn /\ Offset[list[k]] # 0
          <5> SUFFICES ASSUME NEW k \in 1 .. i - 2
                       PROVE  list[k] \notin NoReturn /\ Offset[list[k]] # 0
            OBVIOUS
          <5>1. k + 1 \in 2 .. Len(list) + 1 /\ k + 1 \in 1 .. i - 1
            BY <2>1, <3>1
          <5>2. list'[k + 1] = list[k]
            BY <1>3, <5>1
          <5> QED BY <5>1, <5>2 DEF Reachable
        <4> QED BY <4>1, <4>2, <3>1 DEF Reachable
      <3>3. since[list[i - 1]] <= jiffies % Offset[list[i - 1]]
        BY <3>1, <3>2 DEF TimerInv, LagInv
      <3> QED BY <1>1, <1>2, <2>1, <2>4, <3>1, <3>3
    <2> QED BY <2>3, <2>4
  <1> QED BY <1>2, <1>4, <1>5 DEF TimerInv, PendingInv

\* A tick: a reachable callback is called, or its lag and the counter grow together.
LEMMA TickInv == ASSUME TimerInv, timer_handler PROVE TimerInv'
  <1> DEFINE now == (jiffies + 1) % JiffyMod
  <1>1. /\ jiffies \in Nat /\ JiffyMod \in Nat \ {0} /\ now \in 0 .. JiffyMod - 1
        /\ list \in Seq(Callback) /\ since \in [Callback -> Nat]
        /\ Offset \in [Callback -> Nat]
    <2>1. jiffies \in Nat /\ JiffyMod \in Nat \ {0}
      BY TimerAssumption DEF TimerInv, TypeOK
    <2>2. jiffies + 1 \in Int
      BY <2>1
    <2>3. now \in 0 .. JiffyMod - 1
      BY <2>1, <2>2, ModRange
    <2> QED BY <2>1, <2>3, TimerAssumption DEF TimerInv, TypeOK
  <1>2. now = 0 \/ now = jiffies + 1
    <2>1. jiffies < JiffyMod
      BY TimerAssumption DEF TimerInv, TypeOK
    <2>2. CASE jiffies + 1 < JiffyMod
      <3>1. jiffies + 1 \in Nat /\ JiffyMod \in Nat
        BY <1>1
      <3> QED BY <2>2, <3>1, ModBelow
    <2>3. CASE jiffies + 1 = JiffyMod
      BY <1>1, <2>3, ModSelf
    <2> QED BY <1>1, <2>1, <2>2, <2>3
  <1>3. /\ jiffies' = now /\ list' = list /\ node' = node
        /\ since' = [c \in Callback |->
             IF c \notin Registered \/ c \in Called(now) THEN 0
             ELSE IF since[c] > Offset[c] THEN since[c] ELSE since[c] + 1]
        /\ panicked' \in BOOLEAN
    BY DEF timer_handler
  <1> HIDE DEF now
  <1>4. TypeOK'
    BY <1>1, <1>3 DEF TimerInv, TypeOK
  <1>5. LagInv'
    <2> SUFFICES ASSUME NEW i \in 1 .. Len(list), Reachable(i), Offset[list[i]] # 0
                 PROVE  since'[list[i]] <= now % Offset[list[i]]
      BY <1>3 DEF LagInv, Reachable, LoopLength
    <2> DEFINE c == list[i]  d == Offset[list[i]]
    <2>1. c \in Callback /\ d \in Nat \ {0}
      BY <1>1
    <2>2. since[c] <= jiffies % d
      BY DEF TimerInv, LagInv
    <2>3. jiffies % d \in 0 .. d - 1 /\ now % d \in 0 .. d - 1
      <3>1. jiffies \in Int /\ now \in Int
        BY <1>1
      <3> QED BY <2>1, <3>1, ModRange
    <2>4. CASE now % d = 0
      <3>1. i \in Reached(now)
        BY DEF Reachable, Reached, Ends
      <3>2. Due(i, now)
        BY <2>4 DEF Due
      <3>3. c \in Called(now)
        BY <3>1, <3>2 DEF Called
      <3> QED BY <1>3, <2>1, <2>3, <3>3
    <2>5. CASE now % d # 0
      <3>1. now = jiffies + 1
        <4>1. 0 % d = 0
          BY <2>1
        <4> QED BY <1>2, <2>5, <4>1
      <3>2. now % d = (jiffies % d) + 1
        BY <1>1, <2>1, <2>5, <3>1, ModSucc
      <3>3. since'[c] <= since[c] + 1
        BY <1>1, <1>3, <2>1
      <3>4. since[c] \in Nat /\ since'[c] \in Nat
        BY <1>1, <1>3, <2>1
      <3> HIDE DEF c, d
      <3>5. since'[c] <= now % d
        BY <2>2, <2>3, <3>2, <3>3, <3>4
      <3> QED BY <3>5 DEF c, d
    <2> QED BY <2>4, <2>5
  <1> QED BY <1>3, <1>4, <1>5 DEF TimerInv, PendingInv

\* Every step keeps the invariant.
LEMMA TimerStep == TimerInv /\ [Next]_vars => TimerInv'
  <1> SUFFICES ASSUME TimerInv, [Next]_vars PROVE TimerInv'
    OBVIOUS
  <1>1. ASSUME NEW c \in Callback, RegisterFill(c) PROVE TimerInv'
    BY <1>1 DEF RegisterFill, TimerInv, TypeOK, PendingInv, LagInv, Reachable, LoopLength
  <1>2. CASE UNCHANGED vars
    BY <1>2 DEF vars, TimerInv, TypeOK, PendingInv, LagInv, Reachable, LoopLength
  <1> QED BY <1>1, <1>2, PublishInv, TickInv DEF Next

\* The invariant holds in every behaviour of the timer.
THEOREM TimerInvariant == Spec => []TimerInv
  BY TimerInit, TimerStep, PTL DEF Spec

\* A callback that the loop of timer_handler can reach never waits longer than its period,
\* across the wrap of jiffies and whatever is registered meanwhile (timer.c:37-52).
THEOREM NeverLateHolds == Spec => []NeverLate
  <1>1. TimerInv => NeverLate
    <2> SUFFICES ASSUME TimerInv, NEW i \in 1 .. Len(list), Reachable(i), Offset[list[i]] # 0
                 PROVE  since[list[i]] <= Offset[list[i]]
      BY DEF NeverLate
    <2>1. /\ list[i] \in Callback /\ since[list[i]] \in Nat /\ jiffies \in Nat
          /\ Offset[list[i]] \in Nat \ {0}
      BY TimerAssumption DEF TimerInv, TypeOK
    <2>2. jiffies % Offset[list[i]] \in 0 .. Offset[list[i]] - 1
      <3>1. jiffies \in Int
        BY <2>1
      <3> QED BY <2>1, <3>1, ModRange
    <2>3. since[list[i]] <= jiffies % Offset[list[i]]
      BY DEF TimerInv, LagInv
    <2> QED BY <2>1, <2>2, <2>3
  <1> QED BY <1>1, TimerInvariant, PTL

\* No tick between the two halves of a registration loses a callback: whatever is in the list
\* stays in it (timer.c:25-35).
THEOREM NeverForgottenHolds == Spec => NeverForgotten
  <1>1. TimerInv /\ [Next]_vars =>
          [\A i \in 1 .. Len(list) : \E k \in 1 .. Len(list') : list'[k] = list[i]]_vars
    <2> SUFFICES ASSUME TimerInv, [Next]_vars, NEW i \in 1 .. Len(list)
                 PROVE  \E k \in 1 .. Len(list') : list'[k] = list[i]
      OBVIOUS
    <2>1. CASE RegisterPublish
      <3>1. /\ node[1] \in Callback /\ list \in Seq(Callback) /\ list' = <<node[1]>> \o list
        BY <2>1, TimerAssumption DEF TimerInv, TypeOK, PendingInv, RegisterPublish
      <3>2. i + 1 \in 1 .. Len(list') /\ list'[i + 1] = list[i]
        BY <3>1, Front
      <3> QED BY <3>2
    <2>2. CASE list' = list
      BY <2>2
    <2> QED BY <2>1, <2>2 DEF Next, timer_handler, RegisterFill, vars
  <1> QED BY <1>1, TimerInvariant, PTL DEF Spec, NeverForgotten
=============================================================================
