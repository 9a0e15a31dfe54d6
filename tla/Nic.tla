-------------------------------- MODULE Nic --------------------------------
(***************************************************************************)
(* The network path: ethernet.c over the RTL8139 driver (rtl8139.c) on two *)
(* hosts that run this kernel, one that sends and one that receives, and   *)
(* the two cards and the wire between them (external).                     *)
(*                                                                         *)
(* Sending runs in processes, with interrupts enabled: every access to     *)
(* tx_cur or to a register is a step, and other senders run between any    *)
(* two (rtl8139.c:83-86, with the argument tx_cur++ stored before the call *)
(* of outl).  The card sends a descriptor once its length is stored, in    *)
(* the order of the descriptors, and appends the CRC.                      *)
(*                                                                         *)
(* The receiving card appends frames to a ring of RX_BUF_SIZE bytes, each  *)
(* after a header of 4 bytes, padded to 4, a frame at the end running on   *)
(* past it (the WRAP bit), and raises ROK; the handler takes one frame an  *)
(* interrupt.  A frame is [id, type, len]: type is the field as it lies in *)
(* the frame, len its bytes, from the wire on with the CRC, as in the      *)
(* length the header gives.  Frames are too long for the card to pad.      *)
(***************************************************************************)
EXTENDS Integers, Sequences

CONSTANTS RX_BUF_SIZE, Lengths,
          Senders, Protocols,   \* the processes that send, the protocols they use
          Descriptors,          \* how many of them: 4
          MaxFrames             \* bound on the frames sent

ASSUME NicAssumption ==
  /\ {RX_BUF_SIZE, Descriptors} \subseteq Nat \ {0} /\ RX_BUF_SIZE % 4 = 0
  /\ Lengths \subseteq Nat /\ Protocols \subseteq {n \in Nat : n < 65536} /\ MaxFrames \in Nat

VARIABLES tx_cur,      \* the driver's next descriptor
          tsad, tsd,   \* of each descriptor: the frame at its address, with the length in
                       \* its length register; whether it is to be sent
          sender,      \* sender[p]: what p does next in a send, the index it read, its frame
          tx_next,     \* the card's next descriptor
          wire,        \* the frames under way, oldest first
          ring, cbr,   \* the receiver's buffer, by offset of a header; the card's offset
          free,        \* bytes of the ring the card may use
          status,      \* the interrupt status register
          handler,     \* "out", or the part of rtl8139_handler that comes next
          current_packet_ptr,
          sent,        \* what is to be handled of the frames given to ethernet_send_packet,
                       \* in order (history)
          taken,       \* the number of the last of them that was handled (history)
          wrong,       \* whether something else was handled (history)
          excused      \* see Excuses (history)
txVars == <<tx_cur, tsad, tsd, sender, tx_next, sent>>
rxVars == <<ring, cbr, free, status, handler, current_packet_ptr, taken, wrong>>
nicVars == <<txVars, rxVars, wire, excused>>

NoFrame == [id |-> 0, type |-> 0, len |-> 0]
Idle == [stage |-> "idle", at |-> 0, frame |-> NoFrame]
CRC == 4

\* The stages of a send in which a descriptor is filled in.
Filling == {"address", "read", "advance", "length"}
ETHERNET_TYPE_ARP == 2054
ETHERNET_TYPE_IP == 2048

\* The cases of ethernet_handle_packet: 0 for a frame it does not support.
Known(protocol) == IF protocol \in {ETHERNET_TYPE_ARP, ETHERNET_TYPE_IP} THEN protocol ELSE 0

flip_short(n) == (n % 256) * 256 + n \div 256
htons(n) == flip_short(n)
ntohs(n) == flip_short(n)

Padded(n) == ((n + 4 + 3) \div 4) * 4

NicInit ==
  /\ tx_cur = 0 /\ tx_next = 0
  /\ tsad = [d \in 0 .. Descriptors - 1 |-> NoFrame]
  /\ tsd = [d \in 0 .. Descriptors - 1 |-> FALSE]
  /\ sender = [p \in Senders |-> Idle]
  /\ wire = <<>> /\ ring = [i \in {} |-> NoFrame] /\ cbr = 0 /\ free = RX_BUF_SIZE
  /\ status = {} /\ handler = "out" /\ current_packet_ptr = 0
  /\ sent = <<>> /\ taken = 0 /\ wrong = FALSE /\ excused = FALSE
----------------------------------------------------------------------------
(***************************************************************************)
(* ethernet_send_packet and, in it, rtl8139_send_packet, with the copies   *)
(* they make, up to the first read of tx_cur.                              *)
(***************************************************************************)
ethernet_send_packet(p, protocol, len) ==
  LET frame == [id |-> Len(sent) + 1, type |-> htons(protocol), len |-> len]
  IN /\ sender[p].stage = "idle" /\ Len(sent) < MaxFrames
     /\ sent' = Append(sent, [protocol |-> Known(protocol), len |-> len + CRC])
     /\ sender' = [sender EXCEPT ![p] = [stage |-> "address", at |-> tx_cur, frame |-> frame]]
     /\ excused' = (excused \/ tx_cur \notin DOMAIN tsad \/ \E q \in Senders : sender[q].stage \in Filling)
     /\ UNCHANGED <<tx_cur, tsad, tsd, tx_next, wire, rxVars>>

(***************************************************************************)
(* The address is stored, and the length register keeps what it holds.     *)
(* The descriptor is not tested: one still to be sent is overwritten.  The *)
(* index can lie past TSAD_array, behind which the build puts TSD_array:   *)
(* the address is then some length, and starts another descriptor.         *)
(***************************************************************************)
StoreAddress(p) ==
  LET at == sender[p].at
  IN /\ sender[p].stage = "address"
     /\ \E n \in Lengths :
          tsad' = [d \in DOMAIN tsad |-> IF d = at THEN [sender[p].frame EXCEPT !.len = tsad[d].len]
                                        ELSE IF d = at - Descriptors THEN [tsad[d] EXCEPT !.len = n]
                                        ELSE tsad[d]]
     /\ tsd' = [d \in DOMAIN tsd |-> tsd[d] \/ d = at - Descriptors]
     /\ sender' = [sender EXCEPT ![p].stage = "read"]
     /\ excused' = (excused \/ (at \in DOMAIN tsd /\ tsd[at]))
     /\ UNCHANGED <<tx_cur, tx_next, wire, sent, rxVars>>

\* tx_cur++, which is a read and a store.
ReadAgain(p) ==
  /\ sender[p].stage = "read"
  /\ sender' = [sender EXCEPT ![p].stage = "advance", ![p].at = tx_cur]
  /\ UNCHANGED <<tx_cur, tsad, tsd, tx_next, wire, sent, rxVars, excused>>

Advance(p) ==
  /\ sender[p].stage = "advance"
  /\ tx_cur' = sender[p].at + 1
  /\ sender' = [sender EXCEPT ![p].stage = "length"]
  /\ UNCHANGED <<tsad, tsd, tx_next, wire, sent, rxVars, excused>>

\* The length is stored, from where on the card may send the descriptor; past TSD_array
\* lies current_fg, whose value names no register of the descriptors.
StoreLength(p) ==
  LET at == sender[p].at
  IN /\ sender[p].stage = "length"
     /\ tsad' = [d \in DOMAIN tsad |->
                    IF d = at THEN [tsad[d] EXCEPT !.len = sender[p].frame.len] ELSE tsad[d]]
     /\ tsd' = [d \in DOMAIN tsd |-> tsd[d] \/ d = at]
     /\ sender' = [sender EXCEPT ![p].stage = "wrap", ![p].frame = NoFrame]
     /\ UNCHANGED <<tx_cur, tx_next, wire, sent, rxVars, excused>>

TestWrap(p) ==
  /\ sender[p].stage = "wrap"
  /\ sender' = [sender EXCEPT ![p].stage = IF tx_cur > Descriptors - 1 THEN "reset" ELSE "idle"]
  /\ UNCHANGED <<tx_cur, tsad, tsd, tx_next, wire, sent, rxVars, excused>>

Reset(p) ==
  /\ sender[p].stage = "reset"
  /\ tx_cur' = 0
  /\ sender' = [sender EXCEPT ![p].stage = "idle"]
  /\ excused' = (excused \/ tx_cur \notin {0, Descriptors})
  /\ UNCHANGED <<tsad, tsd, tx_next, wire, sent, rxVars>>

rtl8139_send_packet(p) ==
  StoreAddress(p) \/ ReadAgain(p) \/ Advance(p) \/ StoreLength(p) \/ TestWrap(p) \/ Reset(p)

\* The sending card (external).
OnWire(frame) == [frame EXCEPT !.len = frame.len + CRC]

Transmit ==
  /\ tsd[tx_next]
  /\ tsd' = [tsd EXCEPT ![tx_next] = FALSE]
  /\ tx_next' = (tx_next + 1) % Descriptors
  /\ wire' = Append(wire, OnWire(tsad[tx_next]))
  /\ UNCHANGED <<tx_cur, tsad, sender, sent, rxVars, excused>>

\* The wire loses a frame (external).
Lose ==
  /\ wire # <<>> /\ wire' = Tail(wire)
  /\ UNCHANGED <<txVars, rxVars, excused>>

(***************************************************************************)
(* The receiving card (external) stores a frame it has room for, and drops *)
(* any other.                                                              *)
(***************************************************************************)
Store ==
  LET n == Padded(Head(wire).len)
  IN /\ wire # <<>> /\ n < free
     /\ wire' = Tail(wire)
     /\ ring' = [i \in DOMAIN ring \cup {cbr} |-> IF i = cbr THEN Head(wire) ELSE ring[i]]
     /\ cbr' = (cbr + n) % RX_BUF_SIZE
     /\ free' = free - n
     /\ status' = status \cup {"ROK"}
     /\ excused' = (excused \/ cbr + n = RX_BUF_SIZE)
     /\ UNCHANGED <<txVars, handler, current_packet_ptr, taken, wrong>>
----------------------------------------------------------------------------
(***************************************************************************)
(* rtl8139_handler, with interrupts off; the card works on meanwhile.      *)
(***************************************************************************)
ReadStatus ==
  /\ handler = "out" /\ status # {}
  /\ handler' = "receive"
  /\ UNCHANGED <<txVars, wire, ring, cbr, free, status, current_packet_ptr, taken, wrong, excused>>

\* ethernet_handle_packet: the branch a frame takes, and the length it is given, which is
\* the header's: that of the frame and the CRC.
Handled(frame) ==
  [protocol |-> Known(ntohs(frame.type)), len |-> frame.len]

(***************************************************************************)
(* receive_packet: the frame at current_packet_ptr is copied and handled,  *)
(* and the pointer advanced, to be compared with the size by >.  Where no  *)
(* header lies the length read is anything.                                *)
(***************************************************************************)
\* Mutant: the pointer is not brought back to the start.
Advanced_NoWrap(ptr, len) == Padded(ptr + len)

Advanced(ptr, len) ==
  LET next == Padded(ptr + len) IN IF next > RX_BUF_SIZE THEN next - RX_BUF_SIZE ELSE next

receive_packet ==
  LET there == current_packet_ptr \in DOMAIN ring
      frame == ring[current_packet_ptr]
  IN /\ handler = "receive"
     /\ handler' = "ack"
     /\ \/ /\ there
           /\ current_packet_ptr' = Advanced(current_packet_ptr, frame.len)
           /\ free' = free + Padded(frame.len)
           /\ ring' = [i \in DOMAIN ring \ {current_packet_ptr} |-> ring[i]]
           /\ taken' = frame.id
           /\ wrong' = (wrong \/ frame.id <= taken \/ Handled(frame) # sent[frame.id])
        \/ /\ ~there
           /\ \E len \in Lengths : current_packet_ptr' = Advanced(current_packet_ptr, len)
           /\ wrong' = TRUE
           /\ UNCHANGED <<free, ring, taken>>
     /\ UNCHANGED <<txVars, wire, cbr, status, excused>>

\* The handler's last store clears both bits, whatever arrived meanwhile.
Acknowledge ==
  /\ handler = "ack"
  /\ handler' = "out" /\ status' = {}
  /\ UNCHANGED <<txVars, wire, ring, cbr, free, current_packet_ptr, taken, wrong, excused>>

NicNext ==
  \/ \E p \in Senders : \/ \E t \in Protocols, len \in Lengths : ethernet_send_packet(p, t, len)
                        \/ rtl8139_send_packet(p)
  \/ Transmit \/ Lose \/ Store
  \/ ReadStatus \/ receive_packet \/ Acknowledge

NicSpec == NicInit /\ [][NicNext]_nicVars
----------------------------------------------------------------------------
(***************************************************************************)
(* Excuses, from where on nothing is stated, as each can break what        *)
(* follows.  A send read tx_cur while another was filling in a descriptor, *)
(* or while it was past the last (rtl8139.c:83-86); a reset of tx_cur      *)
(* undid another send's advance (line 86); an address went to a descriptor *)
(* still to be sent, which line 83 does not look at; or a frame ended      *)
(* exactly at the end of the ring, where the card goes on at 0 and the     *)
(* driver, comparing with > (rtl8139.c:37), at RX_BUF_SIZE.                *)
(*                                                                         *)
(* Until then, although the ends of sends overlap others, and frames are   *)
(* lost, arrive while the handler runs and outlast the interrupt that      *)
(* announced them, the receiver handles frames that were sent, in the      *)
(* order they were sent, each once, under its own protocol, and with its   *)
(* length and the CRC's (rtl8139.c:19-57, ethernet.c:10-55).               *)
(***************************************************************************)
FramesInOrder == ~excused => ~wrong
============================================================================
