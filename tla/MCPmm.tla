-------------------------------- MODULE MCPmm -------------------------------
(***************************************************************************)
(* Instances of Pmm for TLC, with blocks of 4 bytes and words of 4 bits.   *)
(***************************************************************************)
EXTENDS Pmm

\* Low memory with a partial last block, and extended memory.
MemoryMap == {<<0, 11>>, <<16, 40>>}

\* The kernel's physical range, and what kmain should pass for it and for its heap.
KernelPhys == <<16, 8>>
HeapPhys == <<24, 8>>
PhysicalDeinits == {KernelPhys, HeapPhys}

\* What kmain passes (kernel.c:146-148), linked at Virt.  The first call is given the
\* virtual address of the kernel, and its length in words: &__kernel_end and &__kernel_start
\* are pointers to uint32_t, and their difference counts elements.  The length of the second,
\* 0x400000 - (uint32_t)&__kernel_end, is in bytes and wraps around, and the region reaches
\* past the end of the address space by the size of the physical area.  The address space
\* ends at 4 * Capacity.
Virt == 80
KernelVirt == <<16 + Virt, KernelPhys[2] \div 4>>
HeapVirt == <<24 + Virt, (32 - (24 + Virt)) % (4 * Capacity)>>
KmainDeinits == {KernelVirt, HeapVirt}

\* kernel.c:145 says that the memory the kernel occupies is marked occupied: no block of its
\* image is ever handed out.
KernelReserved == Reserved(KernelPhys)
=============================================================================
