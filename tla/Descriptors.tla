---------------------------- MODULE Descriptors -----------------------------
(***************************************************************************)
(* The two tables that stand between an interrupt and its handler: how     *)
(* gdt.c and idt.c fill them and load them into the processor, step by     *)
(* step in the order of _start, and what the processor reads in them.      *)
(*                                                                         *)
(* Addresses have eight bytes, and BYTE is how many values a byte of an    *)
(* address has. All other numbers are those of the code.                   *)
(***************************************************************************)
EXTENDS Integers, Sequences

CONSTANTS
  BYTE,         \* 256 in the code
  isr_table,    \* the address of the stub of each vector (isr_stubs.S)
  tss_address,  \* &tss
  kernel_stack  \* &kernel_stack[KERNEL_STACK_SIZE]

WORD  == BYTE * BYTE
DWORD == WORD * WORD

Vectors   == 0 .. 255
Addresses == 0 .. DWORD * DWORD - 1

ASSUME AddressAssumption ==
  /\ BYTE \in Nat \ {0}
  /\ isr_table \in [Vectors -> Addresses]
  /\ \A v, w \in Vectors : isr_table[v] = isr_table[w] => v = w
  /\ tss_address \in Addresses /\ kernel_stack \in Addresses

VARIABLES
  step,         \* what _start does next, or "fault"
  loop,         \* the loop variable of idt_init
  gdt, tss, idt,
  gdtr, idtr,   \* the limits of the loaded tables; -1: still the bootloader's
  cs, ss, tr    \* selectors; the bootloader's are not known

tableVars == <<step, loop, gdt, tss, idt, gdtr, idtr, cs, ss, tr>>

-----------------------------------------------------------------------------
(* The entries. *)

(* gdt.c's set_entry; flags | 0x0F. *)
gdt_entry(access, flags) ==
  [limit_low |-> 65535, base_low |-> 0, base_mid |-> 0, access |-> access,
   flags_limit |-> flags - (flags % 16) + 15, base_high |-> 0]

(* The two halves of the TSS descriptor, which fills two entries. *)
TssSize == 104

tss_descriptor(base) ==
  << [limit_low   |-> (TssSize - 1) % 65536,
      base_low    |-> base % WORD,
      base_mid    |-> (base \div WORD) % BYTE,
      access      |-> 137,
      flags_limit |-> ((TssSize - 1) \div 65536) % 16,
      base_high   |-> (base \div (WORD * BYTE)) % BYTE],
     [base_upper |-> (base \div DWORD) % DWORD, reserved |-> 0] >>

(* The middle of the address is lost: shifted by a byte too few. *)
BadGate(addr, flags) ==
  [offset_low |-> addr % WORD, selector |-> 8, ist |-> 0, flags |-> flags,
   offset_mid |-> (addr \div BYTE) % WORD, offset_high |-> (addr \div DWORD) % DWORD,
   reserved |-> 0]

(* idt.c's set_entry. *)
Gate(addr, flags) ==
  [offset_low |-> addr % WORD, selector |-> 8, ist |-> 0, flags |-> flags,
   offset_mid |-> (addr \div WORD) % WORD, offset_high |-> (addr \div DWORD) % DWORD,
   reserved |-> 0]

(* The static tables, before anything is written. *)
NoEntry == [limit_low |-> 0, base_low |-> 0, base_mid |-> 0, access |-> 0,
            flags_limit |-> 0, base_high |-> 0]
NoGate  == [offset_low |-> 0, selector |-> 0, ist |-> 0, flags |-> 0,
            offset_mid |-> 0, offset_high |-> 0, reserved |-> 0]

-----------------------------------------------------------------------------
(* The processor. *)

Bit(byte, weight) == (byte \div weight) % 2 = 1

Privilege(byte) == (byte \div 32) % 4

Inside(selector, size) == selector > 0 /\ selector % 8 = 0 /\ selector + size - 1 <= gdtr

Entry(selector) == gdt[selector \div 8]

(* A present code segment of ring 0, for 64-bit code. *)
IsKernelCode(selector) ==
  /\ Inside(selector, 8)
  /\ LET e == Entry(selector)
     IN /\ Bit(e.access, 128) /\ Privilege(e.access) = 0 /\ Bit(e.access, 16) /\ Bit(e.access, 8)
        /\ Bit(e.flags_limit, 32) /\ ~Bit(e.flags_limit, 64)

(* A present, writable data segment of ring 0. *)
IsKernelData(selector) ==
  /\ Inside(selector, 8)
  /\ LET e == Entry(selector)
     IN /\ Bit(e.access, 128) /\ Privilege(e.access) = 0 /\ Bit(e.access, 16)
        /\ ~Bit(e.access, 8) /\ Bit(e.access, 2)

(* A present task state segment that is not busy. *)
IsFreeTss(selector) ==
  /\ Inside(selector, 16)
  /\ LET e == Entry(selector)
     IN Bit(e.access, 128) /\ ~Bit(e.access, 16) /\ e.access % 16 = 9

TssBase(selector) ==
  LET e == Entry(selector)
  IN e.base_low + WORD * e.base_mid + WORD * BYTE * e.base_high
       + DWORD * gdt[(selector \div 8) + 1].base_upper

Offset(gate) == gate.offset_low + WORD * gate.offset_mid + DWORD * gate.offset_high

(* The processor finds a gate for the vector: present, of type interrupt   *)
(* (14) or trap (15), to kernel code; with no stack of its own, which the  *)
(* TSS does not supply.                                                    *)
HasGate(v) ==
  /\ 16 * v + 15 <= idtr
  /\ Bit(idt[v].flags, 128) /\ idt[v].flags % 32 \in {14, 15}
  /\ IsKernelCode(idt[v].selector)
  /\ idt[v].ist = 0

Masks(v) == idt[v].flags % 32 = 14

-----------------------------------------------------------------------------
(* The steps of _start. *)

TablesInit ==
  /\ step = "gdt" /\ loop = 0
  /\ gdt = [e \in 0 .. 6 |-> NoEntry]
  /\ tss = [rsp0 |-> 0, iopb_offset |-> 0]
  /\ idt = [v \in Vectors |-> NoGate]
  /\ gdtr = -1 /\ idtr = -1
  /\ cs = -1 /\ ss = -1 /\ tr = -1

(* Access and flags of the entries of gdt_init: null, kernel code and      *)
(* data, user code and data.                                               *)
Segments == << <<0, 0>>, <<154, 160>>, <<146, 192>>, <<250, 160>>, <<242, 192>> >>

(* gdt_init writes the entries, ... *)
FillGdt ==
  /\ step = "gdt"
  /\ tss' = [rsp0 |-> 0, iopb_offset |-> TssSize]
  /\ gdt' = [e \in 0 .. 6 |-> IF e < 5 THEN gdt_entry(Segments[e + 1][1], Segments[e + 1][2])
                              ELSE tss_descriptor(tss_address)[e - 4]]
  /\ step' = "lgdt"
  /\ UNCHANGED <<loop, idt, gdtr, idtr, cs, ss, tr>>

(* ... loads the table, ... *)
lgdt ==
  /\ step = "lgdt"
  /\ gdtr' = 8 * 7 - 1
  /\ step' = "lretq"
  /\ UNCHANGED <<loop, gdt, tss, idt, idtr, cs, ss, tr>>

(* ... then the code segment, by a far return, ... *)
lretq ==
  /\ step = "lretq"
  /\ IF IsKernelCode(8) THEN cs' = 8 /\ step' = "mov" ELSE step' = "fault" /\ UNCHANGED cs
  /\ UNCHANGED <<loop, gdt, tss, idt, gdtr, idtr, ss, tr>>

(* ... the data segments, of which ss is one, ... *)
MovSs ==
  /\ step = "mov"
  /\ IF IsKernelData(16) THEN ss' = 16 /\ step' = "ltr" ELSE step' = "fault" /\ UNCHANGED ss
  /\ UNCHANGED <<loop, gdt, tss, idt, gdtr, idtr, cs, tr>>

(* ... and the task register, which makes the descriptor busy. *)
ltr ==
  /\ step = "ltr"
  /\ IF IsFreeTss(40)
     THEN tr' = 40 /\ gdt' = [gdt EXCEPT ![5].access = @ + 2] /\ step' = "idt"
     ELSE step' = "fault" /\ UNCHANGED <<tr, gdt>>
  /\ UNCHANGED <<loop, tss, idt, gdtr, idtr, cs, ss>>

(* idt_init: one turn of its loop over the vectors. *)
SetGate ==
  /\ step = "idt" /\ loop < 256
  /\ idt' = [idt EXCEPT ![loop] = Gate(isr_table[loop], 142)]
  /\ loop' = loop + 1
  /\ UNCHANGED <<step, gdt, tss, gdtr, idtr, cs, ss, tr>>

lidt ==
  /\ step = "idt" /\ loop = 256
  /\ idtr' = 16 * 256 - 1
  /\ step' = "stack"
  /\ UNCHANGED <<loop, gdt, tss, idt, gdtr, cs, ss, tr>>

gdt_set_kernel_stack ==
  /\ step = "stack"
  /\ tss' = [tss EXCEPT !.rsp0 = kernel_stack]
  /\ step' = "sti"
  /\ UNCHANGED <<loop, gdt, idt, gdtr, idtr, cs, ss, tr>>

Load == FillGdt \/ lgdt \/ lretq \/ MovSs \/ ltr \/ SetGate \/ lidt \/ gdt_set_kernel_stack

-----------------------------------------------------------------------------
(* Properties. *)

(* Loading the tables never faults, and once they are loaded every vector  *)
(* has a gate that masks interrupts and leads to its own stub; the         *)
(* segments an iretq returns to are there, and the task register names the *)
(* TSS.                                                                    *)
TablesLead ==
  /\ step # "fault"
  /\ idtr # -1 =>
       /\ \A v \in Vectors : HasGate(v) /\ Masks(v) /\ Offset(idt[v]) = isr_table[v]
       /\ IsKernelCode(8) /\ IsKernelData(16) /\ TssBase(tr) = tss_address
=============================================================================
