--------------------------- MODULE IsrFrameProofs ---------------------------
(***************************************************************************)
(* Proofs about the descriptor tables, for addresses of every byte size    *)
(* and every placement of the stubs, and about the interrupt frames, for   *)
(* any vectors, any depth of interrupts and any stack below them.          *)
(***************************************************************************)
EXTENDS IsrFrame, SequenceTheorems, TLAPS

-----------------------------------------------------------------------------
(* Arithmetic. *)

(* Division leaves a remainder smaller than the divisor. *)
LEMMA DivMod ==
  ASSUME NEW a \in Nat, NEW b \in Nat \ {0}
  PROVE  /\ a \div b \in Nat /\ a % b \in Nat
         /\ a = b * (a \div b) + (a % b)
PROOF BY Z3

(* Dividing twice is dividing by the product. *)
LEMMA DivTwice ==
  ASSUME NEW a \in Nat, NEW b \in Nat \ {0}, NEW c \in Nat \ {0}
  PROVE  a \div (b * c) = (a \div b) \div c
PROOF BY Z3

(* A number below a product is divided to a number below a factor. *)
LEMMA DivBelow ==
  ASSUME NEW b \in Nat \ {0}, NEW c \in Nat \ {0}, NEW a \in 0 .. b * c - 1
  PROVE  a \div b \in 0 .. c - 1
PROOF
<1>1. a \in Nat /\ a < b * c
  <2>1. b * c \in Nat
    BY Z3
  <2> QED
    BY <2>1
<1>2. a \div b \in Nat /\ a % b \in Nat /\ a = b * (a \div b) + (a % b)
  BY <1>1, DivMod, Zenon
<1>3. \A d, r \in Nat : d >= c => b * d + r >= b * c
  BY Z3
<1>4. ~(a \div b >= c)
  BY <1>1, <1>2, <1>3
<1> QED
  BY <1>2, <1>4

-----------------------------------------------------------------------------
(* The parts of an address. *)

(* The constants that addresses are measured by are positive.              *)
LEMMA Units == WORD \in Nat \ {0} /\ DWORD \in Nat \ {0} /\ WORD * BYTE \in Nat \ {0}
PROOF
<1>1. BYTE \in Nat \ {0}
  BY AddressAssumption
<1>2. \A a, b \in Nat \ {0} : a * b \in Nat \ {0}
  BY Z3
<1> QED
  BY <1>1, <1>2 DEF WORD, DWORD

(* An address is put together again from its low word, its high double     *)
(* word, and the word between.                                             *)
LEMMA OffsetOfGate ==
  ASSUME NEW addr \in Addresses, NEW flags
  PROVE  Offset(Gate(addr, flags)) = addr
PROOF
<1> DEFINE q == addr \div WORD
<1>1. addr \in Nat /\ WORD \in Nat \ {0} /\ DWORD \in Nat \ {0}
  BY Units DEF Addresses
<1>2. q \in Nat /\ addr % WORD \in Nat /\ addr = WORD * q + (addr % WORD)
  BY <1>1, DivMod, Zenon
<1>3. /\ q \div WORD \in Nat /\ q % WORD \in Nat
      /\ q = WORD * (q \div WORD) + (q % WORD)
  BY <1>1, <1>2, DivMod, Zenon
<1>4. addr \div DWORD = q \div WORD
  BY <1>1, DivTwice DEF DWORD
<1>5. addr \div DWORD \in 0 .. DWORD - 1
  BY <1>1, DivBelow DEF Addresses
<1>6. (addr \div DWORD) % DWORD = addr \div DWORD
  BY <1>1, <1>5, Z3
<1> HIDE DEF q
<1>7. addr = (addr % WORD) + WORD * (q % WORD) + (WORD * WORD) * (q \div WORD)
  <2>1. WORD * q = WORD * (WORD * (q \div WORD)) + WORD * (q % WORD)
    BY <1>1, <1>3, Z3
  <2>2. WORD * (WORD * (q \div WORD)) = (WORD * WORD) * (q \div WORD)
    BY <1>1, <1>3, Z3
  <2>3. /\ WORD * q \in Int /\ WORD * (q % WORD) \in Int
        /\ (WORD * WORD) * (q \div WORD) \in Int
    BY <1>1, <1>2, <1>3, Z3
  <2> QED
    BY <1>2, <2>1, <2>2, <2>3
<1>8. Offset(Gate(addr, flags)) = (addr % WORD) + WORD * (q % WORD) + DWORD * (addr \div DWORD)
  BY <1>6 DEF Offset, Gate, q
<1> QED
  BY <1>4, <1>7, <1>8 DEF DWORD

(* The base of the TSS, whose low double word is spread over three fields. *)
LEMMA BaseOfTss ==
  LET d == tss_descriptor(tss_address)
  IN d[1].base_low + WORD * d[1].base_mid + (WORD * BYTE) * d[1].base_high
       + DWORD * d[2].base_upper = tss_address
PROOF
<1> DEFINE a == tss_address
           q == a \div WORD
           h == q \div BYTE
           u == h \div BYTE
<1>1. a \in Nat /\ a \in 0 .. DWORD * DWORD - 1
  BY AddressAssumption, Units DEF Addresses
<1>2. BYTE \in Nat \ {0} /\ WORD \in Nat \ {0} /\ DWORD \in Nat \ {0}
  BY AddressAssumption, Units
<1> HIDE DEF a
<1>3. q \in Nat /\ a % WORD \in Nat /\ a = WORD * q + (a % WORD)
  BY <1>1, <1>2, DivMod, Zenon
<1>4. h \in Nat /\ q % BYTE \in Nat /\ q = BYTE * h + (q % BYTE)
  BY <1>2, <1>3, DivMod, Zenon
<1>5. u \in Nat /\ h % BYTE \in Nat /\ h = BYTE * u + (h % BYTE)
  BY <1>2, <1>4, DivMod, Zenon
<1>6. a \div (WORD * BYTE) = h
  BY <1>1, <1>2, DivTwice, Zenon
<1>7. a \div DWORD = u
  <2>1. a \div (WORD * WORD) = q \div WORD
    BY <1>1, <1>2, DivTwice, Zenon
  <2>2. q \div (BYTE * BYTE) = u
    BY <1>2, <1>3, DivTwice, Zenon
  <2> QED
    BY <2>1, <2>2, Zenon DEF DWORD, WORD
<1>8. u % DWORD = u
  <2>1. u \in 0 .. DWORD - 1
    BY <1>1, <1>2, <1>7, DivBelow, Zenon
  <2> QED
    BY <1>2, <2>1, Z3
<1> HIDE DEF q, h, u
<1>9. a = (a % WORD) + WORD * (q % BYTE) + (WORD * BYTE) * (h % BYTE) + DWORD * u
  <2>1. WORD * q = WORD * (BYTE * h) + WORD * (q % BYTE)
    BY <1>2, <1>4, Z3
  <2>2. WORD * (BYTE * h) = (WORD * BYTE) * (BYTE * u) + (WORD * BYTE) * (h % BYTE)
    BY <1>2, <1>5, Z3
  <2>3. (WORD * BYTE) * (BYTE * u) = (WORD * (BYTE * BYTE)) * u
    BY <1>2, <1>5, Z3
  <2>4. (WORD * (BYTE * BYTE)) * u = DWORD * u
    BY Zenon DEF DWORD, WORD
  <2>5. WORD * q \in Int /\ WORD * (q % BYTE) \in Int /\ (WORD * BYTE) * (h % BYTE) \in Int /\ DWORD * u \in Int
    BY <1>2, <1>3, <1>4, <1>5, Z3
  <2> QED
    BY <1>3, <2>1, <2>2, <2>3, <2>4, <2>5
<1> DEFINE d == tss_descriptor(a)
<1>10. /\ d[1].base_low = a % WORD
       /\ d[1].base_mid = q % BYTE
       /\ d[1].base_high = (a \div (WORD * BYTE)) % BYTE
       /\ d[2].base_upper = (a \div DWORD) % DWORD
  BY DEF tss_descriptor, q
<1>11. d[1].base_high = h % BYTE /\ d[2].base_upper = u
  BY <1>6, <1>7, <1>8, <1>10, Zenon
<1> HIDE DEF d
<1>12. d[1].base_low + WORD * d[1].base_mid + (WORD * BYTE) * d[1].base_high
         + DWORD * d[2].base_upper = a
  BY <1>9, <1>10, <1>11, Zenon
<1> QED
  BY <1>12 DEF a, d

-----------------------------------------------------------------------------
(* The tables while _start fills and loads them.                           *)

(* What gdt_init wrote, and the task register made of it. *)
Filled(access) ==
  /\ gdt[1] = gdt_entry(154, 160)
  /\ gdt[2] = gdt_entry(146, 192)
  /\ gdt[5] = [tss_descriptor(tss_address)[1] EXCEPT !.access = access]
  /\ gdt[6] = tss_descriptor(tss_address)[2]
  /\ DOMAIN gdt = 0 .. 6

GatesBelow(n) == \A v \in Vectors : v < n => idt[v] = Gate(isr_table[v], 142)

(* How far the tables are at each step.                                    *)
Progress ==
  /\ DOMAIN idt = Vectors
  /\ step \in {"gdt", "lgdt", "lretq", "mov", "ltr"} => loop = 0
  /\ \/ step \in {"gdt", "lgdt", "lretq", "mov", "ltr"} /\ idtr = -1
     \/ step = "idt" /\ loop \in 0 .. 256 /\ GatesBelow(loop) /\ idtr = -1
     \/ step \in {"stack", "sti", "kernel_main"} /\ GatesBelow(256) /\ idtr = 4095
  /\ step \in {"lgdt", "lretq", "mov", "ltr"} => Filled(137)
  /\ step \in {"lretq", "mov", "ltr"} => gdtr = 55
  /\ step \notin {"gdt", "lgdt", "lretq", "mov", "ltr"} =>
       Filled(139) /\ gdtr = 55 /\ tr = 40

(* The segments that gdt_init and the gates name are what they must be.    *)
LEMMA SegmentsOK ==
  ASSUME NEW access \in Int, Filled(access), gdtr = 55
  PROVE  IsKernelCode(8) /\ IsKernelData(16) /\ (access = 137 => IsFreeTss(40))
PROOF
<1>1. 8 \div 8 = 1 /\ 16 \div 8 = 2 /\ 40 \div 8 = 5
  BY Z3
<1>2. gdt[1].access = 154 /\ gdt[1].flags_limit = 175
  BY DEF Filled, gdt_entry
<1>3. gdt[2].access = 146 /\ gdt[2].flags_limit = 207
  BY DEF Filled, gdt_entry
<1>4. access = 137 => gdt[5].access = 137
  BY DEF Filled, tss_descriptor
<1>5. IsKernelCode(8)
  BY <1>1, <1>2 DEF IsKernelCode, Inside, Entry, Bit, Privilege
<1>6. IsKernelData(16)
  BY <1>1, <1>3 DEF IsKernelData, Inside, Entry, Bit, Privilege
<1>7. access = 137 => IsFreeTss(40)
  BY <1>1, <1>4 DEF IsFreeTss, Inside, Entry, Bit
<1> QED
  BY <1>5, <1>6, <1>7

(* Progress implies the property.                                          *)
LEMMA ProgressLeads == Progress => TablesLead
PROOF
<1> SUFFICES ASSUME Progress PROVE TablesLead
  OBVIOUS
<1>1. step # "fault"
  BY DEF Progress
<1>2. CASE idtr = -1
  BY <1>1, <1>2 DEF TablesLead
<1>3. CASE idtr # -1
  <2>1. /\ GatesBelow(256) /\ idtr = 4095
        /\ Filled(139) /\ gdtr = 55 /\ tr = 40
    BY <1>3 DEF Progress
  <2>2. IsKernelCode(8) /\ IsKernelData(16)
    BY <2>1, SegmentsOK
  <2>3. TssBase(tr) = tss_address
    <3>1. 40 \div 8 = 5
      BY Z3
    <3> DEFINE d == tss_descriptor(tss_address)
    <3>2. /\ gdt[5].base_low = d[1].base_low /\ gdt[5].base_mid = d[1].base_mid
          /\ gdt[5].base_high = d[1].base_high /\ gdt[6].base_upper = d[2].base_upper
      BY <2>1 DEF Filled, tss_descriptor
    <3> HIDE DEF d
    <3>3. TssBase(tr) = d[1].base_low + WORD * d[1].base_mid + (WORD * BYTE) * d[1].base_high
                          + DWORD * d[2].base_upper
      BY <2>1, <3>1, <3>2 DEF TssBase, Entry
    <3> QED
      BY <3>3, BaseOfTss DEF d
  <2>4. ASSUME NEW v \in Vectors
        PROVE  HasGate(v) /\ Masks(v) /\ Offset(idt[v]) = isr_table[v]
    <3>1. idt[v] = Gate(isr_table[v], 142)
      BY <2>1 DEF GatesBelow, Vectors
    <3>2. idt[v].flags = 142 /\ idt[v].selector = 8 /\ idt[v].ist = 0
      BY <3>1 DEF Gate
    <3>3. isr_table[v] \in Addresses
      BY AddressAssumption
    <3>4. Offset(idt[v]) = isr_table[v]
      BY <3>1, <3>3, OffsetOfGate
    <3>5. HasGate(v)
      BY <2>1, <2>2, <3>2 DEF HasGate, Bit, Vectors
    <3> QED
      BY <3>2, <3>4, <3>5 DEF Masks
  <2> QED
    BY <1>1, <2>2, <2>3, <2>4 DEF TablesLead
<1> QED
  BY <1>2, <1>3

(* Every step of _start leads from one of these states to the next.        *)
LEMMA LoadProgresses == Progress /\ Load => Progress'
PROOF
<1> SUFFICES ASSUME Progress, Load PROVE Progress'
  OBVIOUS
<1> USE DEF Progress
<1>1. CASE FillGdt
  <2>1. Filled(137)'
    BY <1>1 DEF FillGdt, Filled, Segments, gdt_entry, tss_descriptor
  <2> QED
    BY <1>1, <2>1 DEF FillGdt
<1>2. CASE lgdt
  BY <1>2 DEF lgdt, Filled
<1>3. CASE lretq
  <2>1. IsKernelCode(8)
    BY <1>3, SegmentsOK DEF lretq
  <2> QED
    BY <1>3, <2>1 DEF lretq, Filled
<1>4. CASE MovSs
  <2>1. IsKernelData(16)
    BY <1>4, SegmentsOK DEF MovSs
  <2> QED
    BY <1>4, <2>1 DEF MovSs, Filled
<1>5. CASE ltr
  <2>1. IsFreeTss(40)
    BY <1>5, SegmentsOK DEF ltr
  <2>2. Filled(139)'
    BY <1>5, <2>1 DEF ltr, Filled, tss_descriptor
  <2>3. GatesBelow(0)'
    BY DEF GatesBelow, Vectors
  <2> QED
    BY <1>5, <2>1, <2>2, <2>3 DEF ltr
<1>6. CASE SetGate
  <2>1. loop \in Vectors /\ step = "idt" /\ GatesBelow(loop) /\ idtr = -1 /\ loop' \in 0 .. 256
    BY <1>6 DEF SetGate, Vectors
  <2>2. GatesBelow(loop)'
    <3>1. /\ DOMAIN idt = Vectors /\ loop' = loop + 1
          /\ idt' = [idt EXCEPT ![loop] = Gate(isr_table[loop], 142)]
      BY <1>6 DEF SetGate
    <3>2. idt'[loop] = Gate(isr_table[loop], 142) /\ \A v \in Vectors : v # loop => idt'[v] = idt[v]
      BY <2>1, <3>1
    <3>3. \A v \in Vectors : v < loop' => v = loop \/ v < loop
      BY <2>1, <3>1 DEF Vectors
    <3> QED
      BY <2>1, <3>2, <3>3 DEF GatesBelow
  <2> QED
    BY <1>6, <2>1, <2>2 DEF SetGate, Filled
<1>7. CASE lidt
  BY <1>7 DEF lidt, Filled, GatesBelow
<1>8. CASE gdt_set_kernel_stack
  BY <1>8 DEF gdt_set_kernel_stack, Filled, GatesBelow
<1> QED
  BY <1>1, <1>2, <1>3, <1>4, <1>5, <1>6, <1>7, <1>8 DEF Load

(* All other steps leave the tables alone.                                 *)
LEMMA NextProgress == Progress /\ [Next]_vars => Progress'
PROOF
<1> SUFFICES ASSUME Progress, [Next]_vars PROVE Progress'
  OBVIOUS
<1>1. CASE _start
  BY <1>1, LoadProgresses DEF _start
<1>2. CASE Sti
  BY <1>2 DEF Sti, Progress, Filled, GatesBelow
<1>3. CASE UNCHANGED tables
  BY <1>3 DEF tables, Progress, Filled, GatesBelow
<1>4. CASE Push \/ Pop \/ Irq \/ Exception \/ Isr \/ interrupt_dispatch \/ UNCHANGED vars
  <2>1. UNCHANGED tables
    BY <1>4 DEF Push, Pop, Irq, Exception, Interrupted, Isr, PushNumber, PushRegister,
      MovRsp, Call, PopRegister, AddRsp, Iretq, interrupt_dispatch, vars, tableVars, tables
  <2> QED
    BY <1>3, <2>1
<1> QED
  BY <1>1, <1>2, <1>4 DEF Next

(* In every behaviour of the kernel, wherever the linker puts the stubs,   *)
(* loading the tables does not fault, and every vector's gate leads to its *)
(* own stub with interrupts masked.                                        *)
THEOREM TablesLeadAlways == Spec => []TablesLead
PROOF
<1>1. Init => Progress
  BY DEF Init, TablesInit, Progress
<1> QED
  BY <1>1, NextProgress, ProgressLeads, PTL DEF Spec

-----------------------------------------------------------------------------
(* The interrupt frames on the stack.                                      *)

IsSeq(s) == Len(s) \in Nat /\ s = [i \in 1 .. Len(s) |-> s[i]]

Typed(registers) ==
  /\ registers = [r \in Registers |-> registers[r]]
  /\ registers["rflags"] \in {Enabled, Disabled}
  /\ \A r \in Registers \ {"rflags"} :
       \/ registers[r] \in {<<"value", r>>, <<"changed", r>>}
       \/ r = "rdi" /\ registers[r][1] = "rsp"

(* Where the frame of an interrupt begins: above the padding.              *)
Base(c) == Len(c.stack) + (Len(c.stack) % 2)

StubLen(v) == IF v \in ISR_ERR THEN 1 ELSE 2

(* The words of the frame in the order in which they are pushed.           *)
Word(c, j) ==
  CASE j = 1 -> <<"selector", c.ss>>
    [] j = 2 -> <<"rsp", Len(c.stack)>>
    [] j = 3 -> c.regs["rflags"]
    [] j = 4 -> <<"selector", c.cs>>
    [] j = 5 -> c.ip
    [] j = 6 -> IF c.vector \in ISR_ERR THEN <<"error", c.vector>> ELSE <<"number", 0>>
    [] j = 7 -> <<"number", c.vector>>
    [] OTHER -> c.regs[Pushed[j - 7]]

(* Instructions are counted from the first of isr_common, so that the last *)
(* one of the stub has number 0.                                           *)
Instruction(v, q) ==
  CASE q = -1 -> [op |-> "pushq", arg |-> 0]
    [] q = 0 -> [op |-> "pushq", arg |-> v]
    [] q \in 1 .. 15 -> [op |-> "push", arg |-> Pushed[q]]
    [] q = 16 -> [op |-> "mov", arg |-> "rdi"]
    [] q = 17 -> [op |-> "call", arg |-> 0]
    [] q \in 18 .. 32 -> [op |-> "pop", arg |-> Popped[q - 17]]
    [] q = 33 -> [op |-> "add", arg |-> 2]
    [] q = 34 -> [op |-> "iretq", arg |-> 0]

(* How many words of the frame are on the stack before an instruction.     *)
Height(q) == IF q <= 16 THEN 6 + q ELSE IF q = 17 THEN 22 ELSE IF q <= 33 THEN 40 - q ELSE 5

(* The stack is that of the interrupted code, and above it n words of the  *)
(* frame.                                                                  *)
Holds(c, s, n) ==
  /\ \A i \in 1 .. Len(c.stack) : s[i] = c.stack[i]
  /\ \A j \in 1 .. n : s[Base(c) + j] = Word(c, j)

Exactly(c, s, n) == IsSeq(s) /\ Len(s) = Base(c) + n /\ Holds(c, s, n)

(* The registers are still, or again, those of the interrupted code.       *)
Kept(c, registers, q) ==
  /\ registers["sse"] = c.regs["sse"]
  /\ q <= 17 => \A r \in GeneralRegisters \ {"rdi"} : registers[r] = c.regs[r]
  /\ q <= 16 => registers["rdi"] = c.regs["rdi"]
  /\ q = 17 => registers["rdi"] = <<"rsp", Base(c) + 22>>
  /\ \A j \in 1 .. 15 : j <= q - 18 => registers[Popped[j]] = c.regs[Popped[j]]

(* A handler on the way: between two instructions of its stub and of       *)
(* isr_common, called, or halted.                                          *)
InStub(c, p, s, registers, q) ==
  /\ p = <<"isr", c.vector, q + StubLen(c.vector)>>
  /\ Exactly(c, s, Height(q))
  /\ Kept(c, registers, q)

InDispatch(c, p, s, registers) ==
  /\ p = <<"dispatch", <<"rsp", Base(c) + 22>>>>
  /\ Len(s) = Base(c) + 23
  /\ Holds(c, s, 22)
  /\ s[Base(c) + 23] = <<"isr", c.vector, 18 + StubLen(c.vector)>>
  /\ Kept(c, registers, 17)

Handling(c, p, s, registers) ==
  \/ \E q \in 1 - StubLen(c.vector) .. 34 : InStub(c, p, s, registers, q)
  \/ InDispatch(c, p, s, registers)
  \/ p = Hlt

ContextOK(c) ==
  /\ c.vector \in Exceptions \cup Irqs
  /\ c.cs = 8 /\ c.ss = 16
  /\ IsSeq(c.stack) /\ Typed(c.regs)

Selectors ==
  /\ step \notin {"gdt", "lgdt", "lretq"} => cs = 8
  /\ step \notin {"gdt", "lgdt", "lretq", "mov"} => ss = 16

(* Every interrupt on the stack handles the state that the next one found, *)
(* and the last one the state of the processor; the first one found        *)
(* kernel_main.                                                            *)
Nested ==
  /\ \A k \in 1 .. Len(contexts) : ContextOK(contexts[k])
  /\ \A k \in 1 .. Len(contexts) - 1 :
       Handling(contexts[k], contexts[k + 1].ip, contexts[k + 1].stack, contexts[k + 1].regs)
  /\ IF Len(contexts) = 0 THEN ip = Main
     ELSE contexts[1].ip = Main /\ Handling(contexts[Len(contexts)], ip, stack, regs)

Frames ==
  /\ IsSeq(contexts) /\ Len(contexts) <= MaxDepth
  /\ IsSeq(stack) /\ Typed(regs)
  /\ idtr = -1 => Len(contexts) = 0 /\ regs["rflags"] = Disabled
  /\ Selectors
  /\ Nested

(* A sequence is one over any set that holds its elements.                 *)
LEMMA OverElements ==
  ASSUME NEW s, IsSeq(s), NEW S, \A i \in 1 .. Len(s) : s[i] \in S
  PROVE  s \in Seq(S)
PROOF
<1>1. Len(s) \in Nat /\ s = [i \in 1 .. Len(s) |-> s[i]]
  BY DEF IsSeq
<1>2. s \in [1 .. Len(s) -> S]
  BY <1>1
<1> QED
  BY <1>1, <1>2

(* And a sequence over any set is one.                                     *)
LEMMA OverSet ==
  ASSUME NEW S, NEW s \in Seq(S)
  PROVE  IsSeq(s)
PROOF BY LenProperties DEF IsSeq

(* What a push leaves.                                                     *)
LEMMA Pushing ==
  ASSUME NEW s, IsSeq(s), NEW e
  PROVE  /\ IsSeq(Append(s, e))
         /\ Len(Append(s, e)) = Len(s) + 1
         /\ \A i \in 1 .. Len(s) : Append(s, e)[i] = s[i]
         /\ Append(s, e)[Len(s) + 1] = e
PROOF
<1> DEFINE S == {s[i] : i \in 1 .. Len(s)} \cup {e}
<1>1. (\A i \in 1 .. Len(s) : s[i] \in S) /\ e \in S
  OBVIOUS
<1> HIDE DEF S
<1>2. s \in Seq(S)
  BY <1>1, OverElements
<1>3. /\ Append(s, e) \in Seq(S)
      /\ Len(Append(s, e)) = Len(s) + 1
      /\ \A i \in 1 .. Len(s) : Append(s, e)[i] = s[i]
      /\ Append(s, e)[Len(s) + 1] = e
  BY <1>1, <1>2, AppendProperties
<1>4. IsSeq(Append(s, e))
  BY <1>3, OverSet, Zenon
<1> QED
  BY <1>3, <1>4

(* What pops leave.                                                        *)
LEMMA Popping ==
  ASSUME NEW s, IsSeq(s), NEW n \in 0 .. Len(s)
  PROVE  /\ IsSeq(SubSeq(s, 1, n))
         /\ Len(SubSeq(s, 1, n)) = n
         /\ \A i \in 1 .. n : SubSeq(s, 1, n)[i] = s[i]
PROOF
<1> DEFINE S == {s[i] : i \in 1 .. Len(s)}
<1>0. Len(s) \in Nat
  BY DEF IsSeq
<1>1. \A i \in 1 .. n : s[i] \in S
  BY <1>0
<1> HIDE DEF S
<1>2. /\ SubSeq(s, 1, n) \in Seq(S)
      /\ Len(SubSeq(s, 1, n)) = IF 1 <= n THEN n - 1 + 1 ELSE 0
      /\ \A i \in 1 .. n - 1 + 1 : SubSeq(s, 1, n)[i] = s[1 + i - 1]
  BY <1>0, <1>1, SubSeqProperties
<1>3. IsSeq(SubSeq(s, 1, n))
  BY <1>2, OverSet, Zenon
<1>4. n - 1 + 1 = n /\ \A i \in 1 .. n : 1 + i - 1 = i
  BY <1>0
<1> QED
  BY <1>0, <1>2, <1>3, <1>4

(* One pop.                                                                *)
LEMMA PoppingOne ==
  ASSUME NEW s, IsSeq(s), Len(s) > 0
  PROVE  /\ IsSeq(Front(s))
         /\ Len(Front(s)) = Len(s) - 1
         /\ \A i \in 1 .. Len(s) - 1 : Front(s)[i] = s[i]
         /\ Last(s) = s[Len(s)]
PROOF
<1>1. Len(s) \in Nat /\ Len(s) - 1 \in 0 .. Len(s)
  BY DEF IsSeq
<1> QED
  BY <1>1, Popping DEF Front, Last

(* One sequence after another.                                             *)
Joined(u, s, t) ==
  /\ IsSeq(u)
  /\ Len(u) = Len(s) + Len(t)
  /\ \A i \in 1 .. Len(s) : u[i] = s[i]
  /\ \A i \in 1 .. Len(t) : u[Len(s) + i] = t[i]

(* Concatenation is that.                                                  *)
LEMMA Joining ==
  ASSUME NEW s, IsSeq(s), NEW t, IsSeq(t)
  PROVE  Joined(s \o t, s, t)
PROOF
<1> DEFINE S == {s[i] : i \in 1 .. Len(s)} \cup {t[i] : i \in 1 .. Len(t)}
           u == s \o t
<1>0. Len(s) \in Nat /\ Len(t) \in Nat
  BY DEF IsSeq
<1>4. (\A i \in 1 .. Len(s) : s[i] \in S) /\ (\A i \in 1 .. Len(t) : t[i] \in S)
  OBVIOUS
<1> HIDE DEF S
<1>1. s \in Seq(S) /\ t \in Seq(S)
  BY <1>4, OverElements
<1>2. /\ u \in Seq(S)
      /\ Len(u) = Len(s) + Len(t)
      /\ \A i \in 1 .. Len(s) + Len(t) : u[i] = IF i <= Len(s) THEN s[i] ELSE t[i - Len(s)]
  BY <1>1, ConcatProperties
<1> HIDE DEF u
<1>3. \A i \in 1 .. Len(t) : u[Len(s) + i] = t[i]
  <2> SUFFICES ASSUME NEW i \in 1 .. Len(t) PROVE u[Len(s) + i] = t[i]
    OBVIOUS
  <2>1. Len(s) + i \in 1 .. Len(s) + Len(t) /\ ~(Len(s) + i <= Len(s)) /\ Len(s) + i - Len(s) = i
    BY <1>0
  <2> QED
    BY <1>2, <2>1
<1>5. IsSeq(u)
  BY <1>2, OverSet, Zenon
<1>6. /\ IsSeq(u)
      /\ Len(u) = Len(s) + Len(t)
      /\ \A i \in 1 .. Len(s) : u[i] = s[i]
      /\ \A i \in 1 .. Len(t) : u[Len(s) + i] = t[i]
  BY <1>0, <1>2, <1>3, <1>5
<1>7. Joined(u, s, t)
  BY <1>6 DEF Joined
<1> QED
  BY <1>7 DEF u

(* Sequences with the same elements are the same.                          *)
LEMMA SameSequence ==
  ASSUME NEW s, IsSeq(s), NEW t, IsSeq(t), Len(s) = Len(t), \A i \in 1 .. Len(s) : s[i] = t[i]
  PROVE  s = t
PROOF
<1>1. s = [i \in 1 .. Len(s) |-> s[i]] /\ t = [i \in 1 .. Len(s) |-> t[i]]
  BY DEF IsSeq
<1> QED
  BY <1>1

-----------------------------------------------------------------------------
(* The code. *)

(* Which exceptions need no dummy error code is what the processor says.   *)
LEMMA ErrorCodes == PushErrorCode = ISR_ERR
PROOF BY DEF PushErrorCode, ISR_ERR

Fifteen(code, op, registers) ==
  /\ IsSeq(code) /\ Len(code) = 15
  /\ \A i \in 1 .. 15 : code[i] = [op |-> op, arg |-> registers[i]]

(* The same instruction for fifteen registers.                             *)
LEMMA EachOfFifteen ==
  ASSUME NEW op, NEW registers, IsSeq(registers), Len(registers) = 15
  PROVE  Fifteen(Each(op, registers), op, registers)
PROOF
<1>1. registers = [i \in 1 .. 15 |-> registers[i]]
  BY DEF IsSeq
<1>2. DOMAIN registers = 1 .. 15
  BY <1>1
<1> DEFINE e == Each(op, registers)
           S == {e[i] : i \in 1 .. 15}
<1>3. e = [i \in 1 .. 15 |-> [op |-> op, arg |-> registers[i]]]
  BY <1>2 DEF Each
<1>4. \A i \in 1 .. 15 : e[i] = [op |-> op, arg |-> registers[i]]
  BY <1>3
<1>5. \A i \in 1 .. 15 : e[i] \in S
  OBVIOUS
<1> HIDE DEF S
<1>6. e \in [1 .. 15 -> S]
  BY <1>3, <1>5
<1>7. 15 \in Nat /\ DOMAIN e = 1 .. 15
  BY <1>6
<1>8. Len(e) = 15
  BY <1>6, <1>7
<1>9. IsSeq(e)
  BY <1>3, <1>4, <1>8 DEF IsSeq
<1> QED
  BY <1>4, <1>8, <1>9 DEF Fifteen

(* The register lists.                                                     *)
LEMMA RegisterLists ==
  /\ IsSeq(Pushed) /\ Len(Pushed) = 15 /\ IsSeq(Popped) /\ Len(Popped) = 15
  /\ \A j \in 1 .. 15 : Popped[j] = Pushed[16 - j] /\ Pushed[j] \in GeneralRegisters
  /\ \A r \in GeneralRegisters : \E j \in 1 .. 15 : Popped[j] = r
  /\ \A i, j \in 1 .. 15 : Popped[i] = Popped[j] => i = j
PROOF
<1>2. Len(Pushed) = 15 /\ Len(Popped) = 15
  BY DEF Pushed, Popped
<1>1. IsSeq(Pushed) /\ IsSeq(Popped)
  BY <1>2 DEF Pushed, Popped, IsSeq
<1>3. /\ Pushed[1] = "rax" /\ Pushed[2] = "rbx" /\ Pushed[3] = "rcx" /\ Pushed[4] = "rdx"
      /\ Pushed[5] = "rsi" /\ Pushed[6] = "rdi" /\ Pushed[7] = "rbp" /\ Pushed[8] = "r8"
      /\ Pushed[9] = "r9" /\ Pushed[10] = "r10" /\ Pushed[11] = "r11" /\ Pushed[12] = "r12"
      /\ Pushed[13] = "r13" /\ Pushed[14] = "r14" /\ Pushed[15] = "r15"
  BY DEF Pushed
<1>4. /\ Popped[15] = "rax" /\ Popped[14] = "rbx" /\ Popped[13] = "rcx" /\ Popped[12] = "rdx"
      /\ Popped[11] = "rsi" /\ Popped[10] = "rdi" /\ Popped[9] = "rbp" /\ Popped[8] = "r8"
      /\ Popped[7] = "r9" /\ Popped[6] = "r10" /\ Popped[5] = "r11" /\ Popped[4] = "r12"
      /\ Popped[3] = "r13" /\ Popped[2] = "r14" /\ Popped[1] = "r15"
  BY DEF Popped
<1>5. \A j \in 1 .. 15 : \/ j = 1 \/ j = 2 \/ j = 3 \/ j = 4 \/ j = 5 \/ j = 6 \/ j = 7 \/ j = 8
                         \/ j = 9 \/ j = 10 \/ j = 11 \/ j = 12 \/ j = 13 \/ j = 14 \/ j = 15
  OBVIOUS
<1>6. \A j \in 1 .. 15 : Popped[j] = Pushed[16 - j] /\ Pushed[j] \in GeneralRegisters
  BY <1>3, <1>4, <1>5 DEF GeneralRegisters
<1>7. \A r \in GeneralRegisters : \E j \in 1 .. 15 : Popped[j] = r
  BY <1>4 DEF GeneralRegisters
<1>8. \A i, j \in 1 .. 15 : Popped[i] = Popped[j] => i = j
  BY <1>4, <1>5
<1> QED
  BY <1>1, <1>2, <1>6, <1>7, <1>8

(* isr_common, instruction by instruction.                                 *)
LEMMA CommonCode ==
  ASSUME NEW v
  PROVE  /\ IsSeq(isr_common) /\ Len(isr_common) = 34
         /\ \A q \in 1 .. 34 : isr_common[q] = Instruction(v, q)
PROOF
<1> DEFINE a == Each("push", Pushed)
           b == <<[op |-> "mov", arg |-> "rdi"], [op |-> "call", arg |-> 0]>>
           c == Each("pop", Popped)
           d == <<[op |-> "add", arg |-> 2], [op |-> "iretq", arg |-> 0]>>
<1>1. /\ IsSeq(a) /\ Len(a) = 15
      /\ \A i \in 1 .. 15 : a[i] = [op |-> "push", arg |-> Pushed[i]]
  <2>1. Fifteen(a, "push", Pushed)
    BY EachOfFifteen, RegisterLists
  <2> HIDE DEF a
  <2> QED
    BY <2>1 DEF Fifteen
<1>2. /\ IsSeq(c) /\ Len(c) = 15
      /\ \A i \in 1 .. 15 : c[i] = [op |-> "pop", arg |-> Popped[i]]
  <2>1. Fifteen(c, "pop", Popped)
    BY EachOfFifteen, RegisterLists
  <2> HIDE DEF c
  <2> QED
    BY <2>1 DEF Fifteen
<1>3. /\ IsSeq(b) /\ Len(b) = 2
      /\ b[1] = [op |-> "mov", arg |-> "rdi"] /\ b[2] = [op |-> "call", arg |-> 0]
  <2>1. b \in Seq({b[1], b[2]}) /\ Len(b) = 2
    OBVIOUS
  <2> QED
    BY <2>1, OverSet
<1>4. /\ IsSeq(d) /\ Len(d) = 2
      /\ d[1] = [op |-> "add", arg |-> 2] /\ d[2] = [op |-> "iretq", arg |-> 0]
  <2>1. d \in Seq({d[1], d[2]}) /\ Len(d) = 2
    OBVIOUS
  <2> QED
    BY <2>1, OverSet
<1>5. isr_common = ((a \o b) \o c) \o d
  BY DEF isr_common
<1> HIDE DEF a, b, c, d
<1> DEFINE ab == a \o b
           abc == ab \o c
<1>6. /\ IsSeq(ab) /\ Len(ab) = 17
      /\ \A i \in 1 .. 15 : ab[i] = a[i]
      /\ \A i \in 1 .. 2 : ab[15 + i] = b[i]
  <2>1. Joined(ab, a, b)
    BY <1>1, <1>3, Joining, Zenon
  <2> HIDE DEF ab
  <2> QED
    BY <1>1, <1>3, <2>1 DEF Joined
<1> HIDE DEF ab
<1>7. /\ IsSeq(abc) /\ Len(abc) = 32
      /\ \A i \in 1 .. 17 : abc[i] = ab[i]
      /\ \A i \in 1 .. 15 : abc[17 + i] = c[i]
  <2>1. Joined(abc, ab, c)
    BY <1>2, <1>6, Joining, Zenon
  <2> HIDE DEF abc
  <2> QED
    BY <1>2, <1>6, <2>1 DEF Joined
<1>16. isr_common = abc \o d
  BY <1>5 DEF ab
<1> HIDE DEF abc
<1>8. /\ IsSeq(isr_common) /\ Len(isr_common) = 34
      /\ \A i \in 1 .. 32 : isr_common[i] = abc[i]
      /\ \A i \in 1 .. 2 : isr_common[32 + i] = d[i]
  <2>1. Joined(abc \o d, abc, d)
    BY <1>4, <1>7, Joining, Zenon
  <2>2. Joined(isr_common, abc, d)
    BY <1>16, <2>1
  <2> QED
    BY <1>4, <1>7, <2>2 DEF Joined
<1>9. ASSUME NEW q \in 1 .. 34
      PROVE  isr_common[q] = Instruction(v, q)
  <2>1. CASE q \in 1 .. 15
    <3>1. isr_common[q] = a[q]
      BY <1>6, <1>7, <1>8, <2>1
    <3> QED
      BY <1>1, <2>1, <3>1 DEF Instruction
  <2>2. CASE q \in 16 .. 17
    <3>1. q - 15 \in 1 .. 2 /\ 15 + (q - 15) = q
      BY <2>2
    <3>2. isr_common[q] = b[q - 15]
      BY <1>6, <1>7, <1>8, <2>2, <3>1
    <3> QED
      BY <1>3, <2>2, <3>2 DEF Instruction
  <2>3. CASE q \in 18 .. 32
    <3>1. q - 17 \in 1 .. 15 /\ 17 + (q - 17) = q
      BY <2>3
    <3>2. isr_common[q] = c[q - 17]
      BY <1>7, <1>8, <2>3, <3>1
    <3> QED
      BY <1>2, <2>3, <3>1, <3>2 DEF Instruction
  <2>4. CASE q \in 33 .. 34
    <3>1. q - 32 \in 1 .. 2 /\ 32 + (q - 32) = q
      BY <2>4
    <3>2. isr_common[q] = d[q - 32]
      BY <1>8, <2>4, <3>1
    <3> QED
      BY <1>4, <2>4, <3>2 DEF Instruction
  <2> QED
    BY <2>1, <2>2, <2>3, <2>4
<1> QED
  BY <1>8, <1>9

(* The stub of a vector and isr_common, which it jumps to.                 *)
LEMMA CodeOf ==
  ASSUME NEW v
  PROVE  /\ DOMAIN Code(v) = 1 .. 34 + StubLen(v)
         /\ \A q \in 1 - StubLen(v) .. 34 : Code(v)[q + StubLen(v)] = Instruction(v, q)
PROOF
<1>1. /\ IsSeq(Stub(v)) /\ Len(Stub(v)) = StubLen(v) /\ StubLen(v) \in {1, 2}
      /\ \A q \in 1 - StubLen(v) .. 0 : Stub(v)[q + StubLen(v)] = Instruction(v, q)
  <2> DEFINE n == <<[op |-> "pushq", arg |-> v]>>
             z == <<[op |-> "pushq", arg |-> 0]>>
  <2>1. IsSeq(n) /\ Len(n) = 1 /\ n[1] = [op |-> "pushq", arg |-> v]
    <3>1. n \in Seq({n[1]}) /\ Len(n) = 1
      OBVIOUS
    <3> QED
      BY <3>1, OverSet
  <2>2. IsSeq(z) /\ Len(z) = 1 /\ z[1] = [op |-> "pushq", arg |-> 0]
    <3>1. z \in Seq({z[1]}) /\ Len(z) = 1
      OBVIOUS
    <3> QED
      BY <3>1, OverSet
  <2>3. CASE v \in ISR_ERR
    <3>1. Stub(v) = << >> \o n
      BY <2>3 DEF Stub
    <3>2. n \in Seq({n[1]})
      OBVIOUS
    <3>3. Stub(v) = n
      BY <3>1, <3>2, ConcatEmptySeq
    <3>4. \A q \in 0 .. 0 : q = 0
      OBVIOUS
    <3> HIDE DEF n
    <3> QED
      BY <2>1, <2>3, <3>3, <3>4 DEF StubLen, Instruction
  <2>4. CASE v \notin ISR_ERR
    <3>1. Stub(v) = z \o n
      BY <2>4 DEF Stub
    <3> HIDE DEF n, z
    <3>2. /\ IsSeq(Stub(v)) /\ Len(Stub(v)) = 2
          /\ Stub(v)[1] = z[1] /\ Stub(v)[2] = n[1]
      <4>1. Joined(z \o n, z, n)
        BY <2>1, <2>2, Joining, Zenon
      <4>2. Joined(Stub(v), z, n)
        BY <3>1, <4>1
      <4>3. 1 \in 1 .. 1 /\ 1 + 1 = 2
        OBVIOUS
      <4> QED
        BY <2>1, <2>2, <4>2, <4>3 DEF Joined
    <3>3. StubLen(v) = 2 /\ \A q \in -1 .. 0 : q = -1 \/ q = 0
      BY <2>4 DEF StubLen
    <3>4. Stub(v)[1] = Instruction(v, -1) /\ Stub(v)[2] = Instruction(v, 0)
      BY <2>1, <2>2, <3>2 DEF Instruction
    <3> QED
      BY <3>2, <3>3, <3>4
  <2> QED
    BY <2>3, <2>4
<1>2. /\ IsSeq(isr_common) /\ Len(isr_common) = 34
      /\ \A q \in 1 .. 34 : isr_common[q] = Instruction(v, q)
  BY CommonCode
<1>3. /\ IsSeq(Code(v)) /\ Len(Code(v)) = StubLen(v) + 34
      /\ \A i \in 1 .. StubLen(v) : Code(v)[i] = Stub(v)[i]
      /\ \A i \in 1 .. 34 : Code(v)[StubLen(v) + i] = isr_common[i]
  <2>1. Joined(Code(v), Stub(v), isr_common)
    BY <1>1, <1>2, Joining, Zenon DEF Code
  <2> QED
    BY <1>1, <1>2, <2>1 DEF Joined
<1>4. DOMAIN Code(v) = 1 .. 34 + StubLen(v)
  <2>1. StubLen(v) + 34 = 34 + StubLen(v)
    BY <1>1
  <2>2. Code(v) = [i \in 1 .. Len(Code(v)) |-> Code(v)[i]]
    BY <1>3 DEF IsSeq
  <2>3. DOMAIN Code(v) = 1 .. Len(Code(v))
    BY <2>2
  <2> QED
    BY <1>3, <2>1, <2>3
<1>5. ASSUME NEW q \in 1 - StubLen(v) .. 34
      PROVE  Code(v)[q + StubLen(v)] = Instruction(v, q)
  <2>1. CASE q <= 0
    <3>1. q \in 1 - StubLen(v) .. 0 /\ q + StubLen(v) \in 1 .. StubLen(v)
      BY <1>1, <2>1
    <3>2. Stub(v)[q + StubLen(v)] = Instruction(v, q)
      BY <1>1, <3>1
    <3>3. Code(v)[q + StubLen(v)] = Stub(v)[q + StubLen(v)]
      BY <1>3, <3>1
    <3> QED
      BY <3>2, <3>3
  <2>2. CASE q > 0
    <3>1. q \in 1 .. 34 /\ q + StubLen(v) = StubLen(v) + q
      BY <1>1, <2>2
    <3>2. isr_common[q] = Instruction(v, q)
      BY <1>2, <3>1
    <3>3. Code(v)[StubLen(v) + q] = isr_common[q]
      BY <1>3, <3>1
    <3> QED
      BY <3>1, <3>2, <3>3
  <2> QED
    BY <1>1, <2>1, <2>2
<1> QED
  BY <1>4, <1>5

-----------------------------------------------------------------------------
(* The instructions of a handler on the way.                               *)

(* The lengths that a frame is measured by are natural numbers.            *)
LEMMA Sizes ==
  ASSUME NEW c, ContextOK(c)
  PROVE  /\ Len(c.stack) \in Nat /\ Base(c) \in Nat /\ Base(c) >= Len(c.stack)
         /\ Base(c) % 2 = 0
         /\ StubLen(c.vector) \in {1, 2}
PROOF
<1>1. Len(c.stack) \in Nat
  BY DEF ContextOK, IsSeq
<1>2. \A n \in Nat : n + (n % 2) \in Nat /\ n + (n % 2) >= n /\ (n + (n % 2)) % 2 = 0
  BY Z3
<1> QED
  BY <1>1, <1>2 DEF Base, StubLen

(* Pushing the next word of the frame.                                     *)
LEMMA Grows ==
  ASSUME NEW c, ContextOK(c), NEW n \in Nat, NEW s, Exactly(c, s, n)
  PROVE  Exactly(c, Append(s, Word(c, n + 1)), n + 1)
PROOF
<1> DEFINE e == Word(c, n + 1)
           t == Append(s, e)
<1> HIDE DEF e
<1>1. /\ IsSeq(t) /\ Len(t) = Len(s) + 1
      /\ \A i \in 1 .. Len(s) : t[i] = s[i]
      /\ t[Len(s) + 1] = e
  BY Pushing DEF Exactly
<1> HIDE DEF t
<1>2. Len(s) = Base(c) + n /\ Holds(c, s, n)
  BY DEF Exactly
<1>3. Len(t) = Base(c) + (n + 1) /\ t[Base(c) + (n + 1)] = e
  BY <1>1, <1>2, Sizes
<1>4. \A i \in 1 .. Len(c.stack) : t[i] = c.stack[i]
  BY <1>1, <1>2, Sizes DEF Holds
<1>5. \A j \in 1 .. n : t[Base(c) + j] = Word(c, j)
  BY <1>1, <1>2, Sizes DEF Holds
<1>6. \A j \in 1 .. n + 1 : t[Base(c) + j] = Word(c, j)
  <2>1. \A j \in 1 .. n + 1 : j \in 1 .. n \/ j = n + 1
    OBVIOUS
  <2> QED
    BY <1>3, <1>5, <2>1 DEF e
<1>7. Exactly(c, t, n + 1)
  BY <1>1, <1>3, <1>4, <1>6 DEF Exactly, Holds
<1> QED
  BY <1>7 DEF t, e

(* Popping words of the frame, and whatever is above.                      *)
LEMMA Shrinks ==
  ASSUME NEW c, ContextOK(c), NEW n \in Nat, NEW m \in 0 .. n, NEW s, IsSeq(s),
         Len(s) \in Nat, Len(s) >= Base(c) + n, Holds(c, s, n)
  PROVE  Exactly(c, SubSeq(s, 1, Base(c) + m), m)
PROOF
<1> DEFINE k == Base(c) + m
           t == SubSeq(s, 1, k)
<1>1. k \in 0 .. Len(s)
  BY Sizes
<1> HIDE DEF k
<1>2. IsSeq(t) /\ Len(t) = k /\ \A i \in 1 .. k : t[i] = s[i]
  BY <1>1, Popping
<1> HIDE DEF t
<1>3. \A i \in 1 .. Len(c.stack) : t[i] = c.stack[i]
  <2>1. \A i \in 1 .. Len(c.stack) : i \in 1 .. k
    BY Sizes DEF k
  <2>2. \A i \in 1 .. Len(c.stack) : s[i] = c.stack[i]
    BY DEF Holds
  <2> QED
    BY <1>2, <2>1, <2>2
<1>4. \A j \in 1 .. m : t[Base(c) + j] = Word(c, j)
  BY <1>2, Sizes DEF Holds, k
<1>5. Exactly(c, t, m)
  BY <1>2, <1>3, <1>4 DEF Exactly, Holds, k
<1> QED
  BY <1>5 DEF t, k

(* A handler between two instructions is about to execute one of them.     *)
LEMMA Executes ==
  ASSUME NEW c, ContextOK(c), NEW q \in 1 - StubLen(c.vector) .. 34,
         InStub(c, ip, stack, regs, q)
  PROVE  /\ ip = <<"isr", c.vector, q + StubLen(c.vector)>>
         /\ q \in -1 .. 34
         /\ Code(ip[2])[ip[3]] = Instruction(c.vector, q)
         /\ Following = <<"isr", c.vector, (q + 1) + StubLen(c.vector)>>
PROOF
<1>1. ip = <<"isr", c.vector, q + StubLen(c.vector)>>
  BY DEF InStub
<1>2. ip[1] = "isr" /\ ip[2] = c.vector /\ ip[3] = q + StubLen(c.vector)
  BY <1>1
<1>3. Code(c.vector)[q + StubLen(c.vector)] = Instruction(c.vector, q)
  BY CodeOf
<1>4. q \in -1 .. 34 /\ q + StubLen(c.vector) + 1 = (q + 1) + StubLen(c.vector)
  BY Sizes
<1> QED
  BY <1>1, <1>2, <1>3, <1>4 DEF Following

(* The operation of each instruction.                                      *)
LEMMA Operations ==
  ASSUME NEW v, NEW q \in -1 .. 34
  PROVE  /\ Instruction(v, q).op = "pushq" <=> q \in -1 .. 0
         /\ Instruction(v, q).op = "push" <=> q \in 1 .. 15
         /\ Instruction(v, q).op = "mov" <=> q = 16
         /\ Instruction(v, q).op = "call" <=> q = 17
         /\ Instruction(v, q).op = "pop" <=> q \in 18 .. 32
         /\ Instruction(v, q).op = "add" <=> q = 33
         /\ Instruction(v, q).op = "iretq" <=> q = 34
PROOF
<1>1. CASE q = -1
  BY <1>1 DEF Instruction
<1>2. CASE q = 0
  BY <1>2 DEF Instruction
<1>3. CASE q \in 1 .. 15
  BY <1>3 DEF Instruction
<1>4. CASE q = 16
  BY <1>4 DEF Instruction
<1>5. CASE q = 17
  BY <1>5 DEF Instruction
<1>6. CASE q \in 18 .. 32
  BY <1>6 DEF Instruction
<1>7. CASE q = 33
  BY <1>7 DEF Instruction
<1>8. CASE q = 34
  BY <1>8 DEF Instruction
<1>9. q = -1 \/ q = 0 \/ q \in 1 .. 15 \/ q = 16 \/ q = 17 \/ q \in 18 .. 32 \/ q = 33 \/ q = 34
  OBVIOUS
<1> QED
  BY <1>1, <1>2, <1>3, <1>4, <1>5, <1>6, <1>7, <1>8, <1>9

(* The stub's push of a number.                                            *)
LEMMA PushNumberOK ==
  ASSUME NEW c, ContextOK(c), NEW q \in 1 - StubLen(c.vector) .. 34,
         InStub(c, ip, stack, regs, q), PushNumber
  PROVE  InStub(c, ip', stack', regs', q + 1) /\ q + 1 \in 1 - StubLen(c.vector) .. 34
PROOF
<1>0. /\ ip = <<"isr", c.vector, q + StubLen(c.vector)>>
      /\ q \in -1 .. 34
      /\ Code(ip[2])[ip[3]] = Instruction(c.vector, q)
      /\ Following = <<"isr", c.vector, (q + 1) + StubLen(c.vector)>>
  BY Executes
<1>1. q \in -1 .. 0
  <2>1. Instruction(c.vector, q).op = "pushq"
    BY <1>0 DEF PushNumber, At
  <2> QED
    BY <1>0, <2>1, Operations
<1>2. Word(c, Height(q) + 1) = <<"number", Arg>>
  <2>1. CASE q = -1
    <3>1. c.vector \notin ISR_ERR
      BY <2>1 DEF StubLen
    <3>2. Arg = 0
      BY <1>0, <2>1 DEF Arg, Instruction
    <3>3. Height(q) + 1 = 6
      BY <2>1 DEF Height
    <3> QED
      BY <3>1, <3>2, <3>3 DEF Word
  <2>2. CASE q = 0
    <3>1. Arg = c.vector
      BY <1>0, <2>2 DEF Arg, Instruction
    <3>2. Height(q) + 1 = 7
      BY <2>2 DEF Height
    <3> QED
      BY <3>1, <3>2 DEF Word
  <2> QED
    BY <1>1, <2>1, <2>2
<1>3. Height(q) \in Nat /\ Height(q + 1) = Height(q) + 1
  BY <1>1 DEF Height
<1>4. Exactly(c, stack, Height(q))
  BY DEF InStub
<1>5. Exactly(c, stack', Height(q + 1))
  <2>1. Exactly(c, Append(stack, Word(c, Height(q) + 1)), Height(q) + 1)
    BY <1>3, <1>4, Grows
  <2> QED
    BY <1>2, <1>3, <2>1 DEF PushNumber
<1>6. ip' = <<"isr", c.vector, (q + 1) + StubLen(c.vector)>>
  BY <1>0 DEF PushNumber
<1>7. Kept(c, regs', q + 1)
  BY <1>1 DEF PushNumber, InStub, Kept
<1> QED
  BY <1>1, <1>5, <1>6, <1>7, Sizes DEF InStub

(* isr_common's push of a register.                                        *)
LEMMA PushRegisterOK ==
  ASSUME NEW c, ContextOK(c), NEW q \in 1 - StubLen(c.vector) .. 34,
         InStub(c, ip, stack, regs, q), PushRegister
  PROVE  InStub(c, ip', stack', regs', q + 1) /\ q + 1 \in 1 - StubLen(c.vector) .. 34
PROOF
<1>0. /\ ip = <<"isr", c.vector, q + StubLen(c.vector)>>
      /\ q \in -1 .. 34
      /\ Code(ip[2])[ip[3]] = Instruction(c.vector, q)
      /\ Following = <<"isr", c.vector, (q + 1) + StubLen(c.vector)>>
  BY Executes
<1>1. q \in 1 .. 15
  <2>1. Instruction(c.vector, q).op = "push"
    BY <1>0 DEF PushRegister, At
  <2> QED
    BY <1>0, <2>1, Operations
<1>2. Arg = Pushed[q]
  BY <1>0, <1>1 DEF Arg, Instruction
<1>3. Height(q) = 6 + q /\ Height(q + 1) = Height(q) + 1
  BY <1>1 DEF Height
<1>4. Word(c, Height(q) + 1) = regs[Arg]
  <2>1. Pushed[q] \in GeneralRegisters
    BY <1>1, RegisterLists
  <2>2. regs[Pushed[q]] = c.regs[Pushed[q]]
    BY <1>1, <2>1 DEF InStub, Kept
  <2>3. Height(q) + 1 = q + 7 /\ q + 7 \notin 1 .. 7 /\ (q + 7) - 7 = q
    BY <1>1, <1>3
  <2>4. \A j : j \notin 1 .. 7 => Word(c, j) = c.regs[Pushed[j - 7]]
    BY DEF Word
  <2>5. Word(c, q + 7) = c.regs[Pushed[(q + 7) - 7]]
    BY <2>3, <2>4, Zenon
  <2> QED
    BY <1>2, <2>2, <2>3, <2>5
<1>5. Exactly(c, stack', Height(q + 1))
  <2>1. Exactly(c, stack, Height(q)) /\ Height(q) \in Nat
    BY <1>1, <1>3 DEF InStub
  <2>2. Exactly(c, Append(stack, Word(c, Height(q) + 1)), Height(q) + 1)
    BY <2>1, Grows
  <2> QED
    BY <1>3, <1>4, <2>2 DEF PushRegister
<1>6. ip' = <<"isr", c.vector, (q + 1) + StubLen(c.vector)>>
  BY <1>0 DEF PushRegister
<1>7. Kept(c, regs', q + 1)
  BY <1>1 DEF PushRegister, InStub, Kept
<1> QED
  BY <1>1, <1>5, <1>6, <1>7, Sizes DEF InStub

(* The address of the frame goes to rdi.                                   *)
LEMMA MovRspOK ==
  ASSUME NEW c, ContextOK(c), NEW q \in 1 - StubLen(c.vector) .. 34,
         InStub(c, ip, stack, regs, q), Typed(regs), MovRsp
  PROVE  /\ InStub(c, ip', stack', regs', q + 1) /\ q + 1 \in 1 - StubLen(c.vector) .. 34
         /\ Typed(regs')
PROOF
<1>0. /\ ip = <<"isr", c.vector, q + StubLen(c.vector)>>
      /\ q \in -1 .. 34
      /\ Code(ip[2])[ip[3]] = Instruction(c.vector, q)
      /\ Following = <<"isr", c.vector, (q + 1) + StubLen(c.vector)>>
  BY Executes
<1>1. q = 16
  <2>1. Instruction(c.vector, q).op = "mov"
    BY <1>0 DEF MovRsp, At
  <2> QED
    BY <1>0, <2>1, Operations
<1>2. Arg = "rdi"
  BY <1>0, <1>1 DEF Arg, Instruction
<1>3. Height(q) = 22 /\ Height(q + 1) = 22
  BY <1>1 DEF Height
<1>4. Exactly(c, stack, 22) /\ Len(stack) = Base(c) + 22
  BY <1>3 DEF InStub, Exactly
<1>5. /\ regs' = [regs EXCEPT !["rdi"] = <<"rsp", Base(c) + 22>>]
      /\ stack' = stack /\ ip' = <<"isr", c.vector, (q + 1) + StubLen(c.vector)>>
  BY <1>0, <1>2, <1>4 DEF MovRsp
<1>6. /\ regs'["rdi"] = <<"rsp", Base(c) + 22>>
      /\ \A r \in Registers \ {"rdi"} : regs'[r] = regs[r]
  BY <1>5 DEF Typed, Registers, GeneralRegisters
<1>7. Kept(c, regs', q + 1)
  BY <1>1, <1>6 DEF InStub, Kept, Registers, GeneralRegisters
<1>8. Typed(regs')
  <2>1. regs' = [r \in Registers |-> regs'[r]]
    BY <1>5 DEF Typed
  <2>2. regs'["rflags"] = regs["rflags"]
    BY <1>6 DEF Registers
  <2>3. regs'["rdi"][1] = "rsp"
    BY <1>6
  <2> QED
    BY <1>6, <2>1, <2>2, <2>3 DEF Typed
<1> QED
  BY <1>1, <1>3, <1>4, <1>5, <1>7, <1>8, Sizes DEF InStub

(* The call of interrupt_dispatch.                                         *)
LEMMA CallOK ==
  ASSUME NEW c, ContextOK(c), NEW q \in 1 - StubLen(c.vector) .. 34,
         InStub(c, ip, stack, regs, q), Call
  PROVE  InDispatch(c, ip', stack', regs') /\ IsSeq(stack')
PROOF
<1>0. /\ ip = <<"isr", c.vector, q + StubLen(c.vector)>>
      /\ q \in -1 .. 34
      /\ Code(ip[2])[ip[3]] = Instruction(c.vector, q)
      /\ Following = <<"isr", c.vector, (q + 1) + StubLen(c.vector)>>
  BY Executes
<1>1. q = 17
  <2>1. Instruction(c.vector, q).op = "call"
    BY <1>0 DEF Call, At
  <2> QED
    BY <1>0, <2>1, Operations
<1>2. Height(q) = 22
  BY <1>1 DEF Height
<1>3. IsSeq(stack) /\ Len(stack) = Base(c) + 22 /\ Holds(c, stack, 22)
  BY <1>2 DEF InStub, Exactly
<1>4. Following = <<"isr", c.vector, 18 + StubLen(c.vector)>>
  BY <1>0, <1>1
<1>5. stack' = Append(stack, Following)
  BY DEF Call
<1>6. /\ IsSeq(stack') /\ Len(stack') = Len(stack) + 1
      /\ \A i \in 1 .. Len(stack) : stack'[i] = stack[i]
      /\ stack'[Len(stack) + 1] = Following
  BY <1>3, <1>5, Pushing
<1>7. Len(stack') = Base(c) + 23 /\ stack'[Base(c) + 23] = Following
  BY <1>3, <1>6, Sizes
<1>8. Holds(c, stack', 22)
  <2>1. /\ \A i \in 1 .. Len(c.stack) : i \in 1 .. Len(stack)
        /\ \A j \in 1 .. 22 : Base(c) + j \in 1 .. Len(stack)
    <3>1. Len(c.stack) \in Nat /\ Base(c) \in Nat /\ Base(c) >= Len(c.stack)
      BY Sizes
    <3>2. Len(stack) = Base(c) + 22
      BY <1>3
    <3>3. /\ \A i \in 1 .. Len(c.stack) : i \in 1 .. Base(c) + 22
          /\ \A j \in 1 .. 22 : Base(c) + j \in 1 .. Base(c) + 22
      <4>1. \A a, b \in Nat : b >= a => \A i \in 1 .. a : i \in 1 .. b + 22
        OBVIOUS
      <4>2. \A b \in Nat : \A j \in 1 .. 22 : b + j \in 1 .. b + 22
        OBVIOUS
      <4> QED
        BY <3>1, <4>1, <4>2
    <3> QED
      BY <3>2, <3>3
  <2> QED
    BY <1>3, <1>6, <2>1 DEF Holds
<1>9. Kept(c, regs', 17)
  BY <1>1 DEF Call, InStub
<1>10. ip' = <<"dispatch", <<"rsp", Base(c) + 22>>>>
  BY <1>1 DEF Call, InStub, Kept
<1> QED
  BY <1>4, <1>6, <1>7, <1>8, <1>9, <1>10 DEF InDispatch

(* interrupt_dispatch halts, or returns and has changed what it may.       *)
LEMMA DispatchOK ==
  ASSUME NEW c, ContextOK(c), InDispatch(c, ip, stack, regs), IsSeq(stack), Typed(regs),
         interrupt_dispatch
  PROVE  /\ Handling(c, ip', stack', regs')
         /\ IsSeq(stack') /\ Typed(regs')
PROOF
<1>1. CASE ip' = Hlt /\ UNCHANGED <<stack, regs>>
  BY <1>1 DEF Handling
<1>2. CASE /\ ip' = Last(stack) /\ stack' = Front(stack)
           /\ regs' = [r \in Registers |->
                         IF r \in CallerSaved \ {"sse"} THEN <<"changed", r>> ELSE regs[r]]
  <2>1. Len(stack) = Base(c) + 23 /\ Holds(c, stack, 22) /\ Kept(c, regs, 17)
    BY DEF InDispatch
  <2>2. Len(stack) > 0 /\ Len(stack) - 1 = Base(c) + 22
    BY <2>1, Sizes
  <2>3. ip' = <<"isr", c.vector, 18 + StubLen(c.vector)>>
    BY <1>2, <2>1, <2>2, PoppingOne DEF InDispatch
  <2>4. stack' = SubSeq(stack, 1, Base(c) + 22)
    BY <1>2, <2>2 DEF Front
  <2>5. Exactly(c, stack', 22)
    <3>1. Len(stack) \in Nat /\ Len(stack) >= Base(c) + 22 /\ 22 \in Nat /\ 22 \in 0 .. 22
      BY <2>1, Sizes
    <3> QED
      BY <2>1, <2>4, <3>1, Shrinks
  <2>6. Kept(c, regs', 18)
    <3>1. regs'["sse"] = regs["sse"]
      BY <1>2 DEF Registers
    <3>2. regs["sse"] = c.regs["sse"]
      BY <2>1 DEF Kept
    <3> QED
      BY <3>1, <3>2 DEF Kept
  <2>7. InStub(c, ip', stack', regs', 18)
    <3>1. Height(18) = 22
      BY DEF Height
    <3> QED
      BY <2>3, <2>5, <2>6, <3>1 DEF InStub
  <2>8. 18 \in 1 - StubLen(c.vector) .. 34
    BY Sizes
  <2>9. Typed(regs')
    <3>1. regs' = [r \in Registers |-> regs'[r]]
      BY <1>2
    <3>2. regs'["rflags"] = regs["rflags"]
      BY <1>2 DEF Registers, CallerSaved
    <3>3. \A r \in Registers : regs'[r] = <<"changed", r>> \/ regs'[r] = regs[r]
      BY <1>2
    <3> QED
      BY <3>1, <3>2, <3>3 DEF Typed
  <2>10. IsSeq(stack')
    BY <2>5 DEF Exactly
  <2> QED
    BY <2>7, <2>8, <2>9, <2>10 DEF Handling
<1> QED
  BY <1>1, <1>2 DEF interrupt_dispatch

(* A pop gives a register back.                                            *)
LEMMA PopRegisterOK ==
  ASSUME NEW c, ContextOK(c), NEW q \in 1 - StubLen(c.vector) .. 34,
         InStub(c, ip, stack, regs, q), Typed(regs), PopRegister
  PROVE  /\ InStub(c, ip', stack', regs', q + 1) /\ q + 1 \in 1 - StubLen(c.vector) .. 34
         /\ Typed(regs')
PROOF
<1>0. /\ ip = <<"isr", c.vector, q + StubLen(c.vector)>>
      /\ q \in -1 .. 34
      /\ Code(ip[2])[ip[3]] = Instruction(c.vector, q)
      /\ Following = <<"isr", c.vector, (q + 1) + StubLen(c.vector)>>
  BY Executes
<1>1. q \in 18 .. 32
  <2>1. Instruction(c.vector, q).op = "pop"
    BY <1>0 DEF PopRegister, At
  <2> QED
    BY <1>0, <2>1, Operations
<1> DEFINE p == Popped[q - 17]
<1>2. Arg = p
  BY <1>0, <1>1 DEF Arg, Instruction
<1>3. Height(q) = 40 - q /\ Height(q + 1) = 39 - q
  BY <1>1 DEF Height
<1>4. IsSeq(stack) /\ Len(stack) = Base(c) + (40 - q) /\ Holds(c, stack, 40 - q)
  BY <1>3 DEF InStub, Exactly
<1>5. Len(stack) \in Nat /\ Len(stack) > 0 /\ Len(stack) - 1 = Base(c) + (39 - q)
  BY <1>1, <1>4, Sizes
<1>6. Last(stack) = c.regs[p]
  <2>1. Last(stack) = stack[Base(c) + (40 - q)]
    BY <1>4, <1>5, PoppingOne
  <2>2. stack[Base(c) + (40 - q)] = Word(c, 40 - q)
    BY <1>1, <1>4 DEF Holds
  <2>3. 40 - q \notin 1 .. 7 /\ (40 - q) - 7 = 16 - (q - 17)
    BY <1>1
  <2>4. \A j : j \notin 1 .. 7 => Word(c, j) = c.regs[Pushed[j - 7]]
    BY DEF Word
  <2>5. Word(c, 40 - q) = c.regs[Pushed[(40 - q) - 7]]
    BY <2>3, <2>4, Zenon
  <2>6. p = Pushed[16 - (q - 17)]
    BY <1>1, RegisterLists
  <2> QED
    BY <2>1, <2>2, <2>3, <2>5, <2>6
<1>7. Exactly(c, stack', 39 - q)
  <2>1. stack' = SubSeq(stack, 1, Base(c) + (39 - q))
    BY <1>5 DEF PopRegister, Front
  <2>2. 40 - q \in Nat /\ 39 - q \in 0 .. 40 - q /\ Len(stack) >= Base(c) + (40 - q)
    BY <1>1, <1>4, <1>5
  <2> QED
    BY <1>4, <1>5, <2>1, <2>2, Shrinks
<1>8. p \in GeneralRegisters
  <2>1. q - 17 \in 1 .. 15 /\ 16 - (q - 17) \in 1 .. 15
    BY <1>1
  <2> QED
    BY <2>1, RegisterLists
<1>9. regs' = [regs EXCEPT ![p] = c.regs[p]]
  BY <1>2, <1>6 DEF PopRegister
<1> HIDE DEF p
<1>10. regs'[p] = c.regs[p] /\ \A r \in Registers \ {p} : regs'[r] = regs[r]
  BY <1>8, <1>9 DEF Typed, Registers
<1>11. Kept(c, regs', q + 1)
  <2>1. regs'["sse"] = c.regs["sse"]
    BY <1>8, <1>10 DEF InStub, Kept, Registers, GeneralRegisters
  <2>2. ASSUME NEW j \in 1 .. 15, j <= (q + 1) - 18
        PROVE  regs'[Popped[j]] = c.regs[Popped[j]]
    <3>1. CASE j = q - 17
      BY <1>10, <3>1 DEF p
    <3>2. CASE j # q - 17
      <4>1. j <= q - 18
        BY <1>1, <2>2, <3>2
      <4>2. regs[Popped[j]] = c.regs[Popped[j]]
        BY <4>1 DEF InStub, Kept
      <4>3. Popped[j] \in GeneralRegisters
        <5>1. 16 - j \in 1 .. 15
          OBVIOUS
        <5> QED
          BY <5>1, RegisterLists
      <4>4. Popped[j] \in Registers
        BY <4>3 DEF Registers
      <4> QED
        BY <1>10, <4>2, <4>4
    <3> QED
      BY <3>1, <3>2
  <2> QED
    BY <1>1, <2>1, <2>2 DEF Kept
<1>12. Typed(regs')
  <2>1. regs' = [r \in Registers |-> regs'[r]]
    BY <1>9 DEF Typed
  <2>2. p # "rflags" /\ p \in Registers
    BY <1>8 DEF GeneralRegisters, Registers
  <2>3. regs'["rflags"] = regs["rflags"]
    BY <1>10, <2>2 DEF Registers
  <2>4. \A r \in Registers : regs'[r] = regs[r] \/ regs'[r] = c.regs[r]
    BY <1>10
  <2> QED
    BY <2>1, <2>3, <2>4 DEF Typed, ContextOK
<1>13. ip' = <<"isr", c.vector, (q + 1) + StubLen(c.vector)>>
  BY <1>0 DEF PopRegister
<1> QED
  BY <1>1, <1>3, <1>7, <1>11, <1>12, <1>13, Sizes DEF InStub

(* The vector number and the error code are dropped.                       *)
LEMMA AddRspOK ==
  ASSUME NEW c, ContextOK(c), NEW q \in 1 - StubLen(c.vector) .. 34,
         InStub(c, ip, stack, regs, q), AddRsp
  PROVE  InStub(c, ip', stack', regs', q + 1) /\ q + 1 \in 1 - StubLen(c.vector) .. 34
PROOF
<1>0. /\ ip = <<"isr", c.vector, q + StubLen(c.vector)>>
      /\ q \in -1 .. 34
      /\ Code(ip[2])[ip[3]] = Instruction(c.vector, q)
      /\ Following = <<"isr", c.vector, (q + 1) + StubLen(c.vector)>>
  BY Executes
<1>1. q = 33
  <2>1. Instruction(c.vector, q).op = "add"
    BY <1>0 DEF AddRsp, At
  <2> QED
    BY <1>0, <2>1, Operations
<1>2. Arg = 2
  BY <1>0, <1>1 DEF Arg, Instruction
<1>3. Height(q) = 7 /\ Height(q + 1) = 5
  BY <1>1 DEF Height
<1>4. IsSeq(stack) /\ Len(stack) = Base(c) + 7 /\ Holds(c, stack, 7)
  BY <1>3 DEF InStub, Exactly
<1>5. Exactly(c, stack', 5)
  <2>1. Len(stack) - 2 = Base(c) + 5 /\ Len(stack) \in Nat /\ Len(stack) >= Base(c) + 7
    BY <1>4, Sizes
  <2>2. stack' = SubSeq(stack, 1, Base(c) + 5)
    BY <1>2, <2>1 DEF AddRsp
  <2>3. 7 \in Nat /\ 5 \in 0 .. 7
    OBVIOUS
  <2> QED
    BY <1>4, <2>1, <2>2, <2>3, Shrinks
<1>6. ip' = <<"isr", c.vector, (q + 1) + StubLen(c.vector)>>
  BY <1>0 DEF AddRsp
<1>7. Kept(c, regs', q + 1)
  BY <1>1 DEF AddRsp, InStub, Kept
<1> QED
  BY <1>1, <1>3, <1>5, <1>6, <1>7, Sizes DEF InStub

(* iretq brings back what the interrupted code had.                        *)
LEMMA IretqOK ==
  ASSUME NEW c, ContextOK(c), NEW q \in 1 - StubLen(c.vector) .. 34,
         InStub(c, ip, stack, regs, q), Typed(regs), Iretq,
         IsKernelCode(8), IsKernelData(16)
  PROVE  /\ ip' = c.ip /\ stack' = c.stack /\ regs' = c.regs
         /\ cs' = c.cs /\ ss' = c.ss
PROOF
<1>0. /\ ip = <<"isr", c.vector, q + StubLen(c.vector)>>
      /\ q \in -1 .. 34
      /\ Code(ip[2])[ip[3]] = Instruction(c.vector, q)
      /\ Following = <<"isr", c.vector, (q + 1) + StubLen(c.vector)>>
  BY Executes
<1>1. q = 34
  <2>1. Instruction(c.vector, q).op = "iretq"
    BY <1>0 DEF Iretq, At
  <2> QED
    BY <1>0, <2>1, Operations
<1>2. Height(q) = 5
  BY <1>1 DEF Height
<1>3. IsSeq(stack) /\ Len(stack) = Base(c) + 5 /\ Holds(c, stack, 5)
  BY <1>2 DEF InStub, Exactly
<1> DEFINE top(i) == stack[Len(stack) + 1 - i]
<1>4. /\ top(1) = c.ip /\ top(2) = <<"selector", c.cs>> /\ top(3) = c.regs["rflags"]
      /\ top(4) = <<"rsp", Len(c.stack)>> /\ top(5) = <<"selector", c.ss>>
  <2>1. \A i \in 1 .. 5 : Len(stack) + 1 - i = Base(c) + (6 - i) /\ 6 - i \in 1 .. 5
    BY <1>3, Sizes
  <2>2. \A j \in 1 .. 5 : stack[Base(c) + j] = Word(c, j)
    BY <1>3 DEF Holds
  <2>3. \A i \in 1 .. 5 : top(i) = Word(c, 6 - i)
    BY <2>1, <2>2
  <2>4. /\ top(1) = Word(c, 5) /\ top(2) = Word(c, 4) /\ top(3) = Word(c, 3)
        /\ top(4) = Word(c, 2) /\ top(5) = Word(c, 1)
    BY <2>3
  <2> HIDE DEF top
  <2> QED
    BY <2>4 DEF Word
<1>5. /\ ip' = IF IsKernelCode(top(2)[2]) /\ IsKernelData(top(5)[2]) THEN top(1) ELSE Fault
      /\ cs' = top(2)[2] /\ ss' = top(5)[2]
      /\ regs' = [regs EXCEPT !["rflags"] = top(3)]
      /\ stack' = SubSeq(stack, 1, top(4)[2])
  BY DEF Iretq
<1> HIDE DEF top
<1>6. /\ ip' = c.ip /\ cs' = c.cs /\ ss' = c.ss
      /\ regs' = [regs EXCEPT !["rflags"] = c.regs["rflags"]]
      /\ stack' = SubSeq(stack, 1, Len(c.stack))
  <2>1. c.cs = 8 /\ c.ss = 16
    BY DEF ContextOK
  <2>2. top(2)[2] = c.cs /\ top(5)[2] = c.ss /\ top(4)[2] = Len(c.stack)
    BY <1>4
  <2>3. IsKernelCode(top(2)[2]) /\ IsKernelData(top(5)[2])
    BY <2>1, <2>2
  <2> QED
    BY <1>4, <1>5, <2>2, <2>3
<1>7. stack' = c.stack
  <2>1. Len(c.stack) \in 0 .. Len(stack)
    BY <1>3, Sizes
  <2>2. /\ IsSeq(stack') /\ Len(stack') = Len(c.stack)
        /\ \A i \in 1 .. Len(c.stack) : stack'[i] = stack[i]
    BY <1>3, <1>6, <2>1, Popping
  <2>3. \A i \in 1 .. Len(c.stack) : stack[i] = c.stack[i]
    BY <1>3 DEF Holds
  <2>4. IsSeq(c.stack)
    BY DEF ContextOK
  <2> QED
    BY <2>2, <2>3, <2>4, SameSequence
<1>8. regs' = c.regs
  <2>1. c.regs = [r \in Registers |-> c.regs[r]] /\ regs = [r \in Registers |-> regs[r]]
    BY DEF ContextOK, Typed
  <2>2. \A j \in 1 .. 15 : regs[Popped[j]] = c.regs[Popped[j]]
    BY <1>1 DEF InStub, Kept
  <2>3. \A r \in GeneralRegisters : regs[r] = c.regs[r]
    BY <2>2, RegisterLists
  <2>4. regs["sse"] = c.regs["sse"]
    BY DEF InStub, Kept
  <2>5. \A r \in Registers : r = "rflags" \/ regs[r] = c.regs[r]
    BY <2>3, <2>4 DEF Registers
  <2> QED
    BY <1>6, <2>1, <2>5
<1> QED
  BY <1>6, <1>7, <1>8

-----------------------------------------------------------------------------
(* The processor's entry.                                                  *)

(* An interrupt finds its stub.                                            *)
LEMMA TargetIsStub ==
  ASSUME Progress, idtr # -1, NEW v \in Vectors
  PROVE  Target(v) = <<"isr", v, 1>> /\ idt[v].selector = 8 /\ Masks(v)
PROOF
<1>1. HasGate(v) /\ Masks(v) /\ Offset(idt[v]) = isr_table[v]
  BY ProgressLeads DEF TablesLead
<1>2. { w \in Vectors : isr_table[w] = Offset(idt[v]) } = {v}
  BY <1>1, AddressAssumption
<1>3. (CHOOSE w \in {v} : TRUE) = v
  OBVIOUS
<1>4. Target(v) = <<"isr", v, 1>>
  BY <1>1, <1>2, <1>3 DEF Target
<1>5. idt[v].selector = 8
  <2>1. idt[v] = Gate(isr_table[v], 142)
    BY DEF Progress, GatesBelow, Vectors
  <2> QED
    BY <2>1 DEF Gate
<1> QED
  BY <1>1, <1>4, <1>5

(* The processor's words are the first of the frame, and the stub is at    *)
(* the instruction that pushes the next.                                   *)
LEMMA Enters ==
  ASSUME Progress, idtr # -1, NEW v \in Exceptions \cup Irqs, Interrupted(v),
         IsSeq(stack), Typed(regs), cs = 8, ss = 16,
         NEW c, c = [vector |-> v, ip |-> ip, stack |-> stack, regs |-> regs,
                     cs |-> cs, ss |-> ss]
  PROVE  /\ ContextOK(c) /\ Handling(c, ip', stack', regs')
         /\ IsSeq(stack') /\ Typed(regs')
         /\ cs' = 8 /\ ss' = 16
PROOF
<1>1. v \in Vectors
  BY VectorAssumption DEF Vectors
<1>2. /\ c.vector = v /\ c.ip = ip /\ c.stack = stack /\ c.regs = regs
      /\ c.cs = cs /\ c.ss = ss
  OBVIOUS
<1>3. ContextOK(c)
  BY <1>2 DEF ContextOK
<1>4. ip' = <<"isr", v, 1>> /\ cs' = 8 /\ ss' = 16
  BY <1>1, TargetIsStub DEF Interrupted
<1>5. regs' = [regs EXCEPT !["rflags"] = Disabled]
  BY <1>1, TargetIsStub DEF Interrupted
<1>6. Typed(regs')
  <2>1. regs' = [r \in Registers |-> regs'[r]]
    BY <1>5 DEF Typed
  <2>2. regs'["rflags"] = Disabled
    BY <1>5 DEF Typed, Registers
  <2>3. \A r \in Registers \ {"rflags"} : regs'[r] = regs[r]
    BY <1>5 DEF Typed
  <2> QED
    BY <2>1, <2>2, <2>3 DEF Typed
<1> DEFINE padding == IF Len(stack) % 2 = 1 THEN << <<"padding">> >> ELSE << >>
           words == << <<"selector", ss>>, <<"rsp", Len(stack)>>, regs["rflags"],
                       <<"selector", cs>>, ip >>
           error == IF v \in PushErrorCode THEN << <<"error", v>> >> ELSE << >>
           n == IF v \in ISR_ERR THEN 6 ELSE 5
<1>7. stack' = ((stack \o padding) \o words) \o error
  BY DEF Interrupted
<1>8. IsSeq(padding) /\ Len(padding) = Len(stack) % 2
  <2>0. Len(stack) % 2 = 0 \/ Len(stack) % 2 = 1
    <3>1. \A k \in Nat : k % 2 = 0 \/ k % 2 = 1
      BY Z3
    <3> QED
      BY <3>1 DEF IsSeq
  <2>1. IsSeq(<< >>) /\ Len(<< >>) = 0
    BY DEF IsSeq
  <2>2. IsSeq(<< <<"padding">> >>) /\ Len(<< <<"padding">> >>) = 1
    <3> DEFINE w == <<"padding">>
    <3> HIDE DEF w
    <3>1. <<w>> \in Seq({w}) /\ Len(<<w>>) = 1
      OBVIOUS
    <3>2. IsSeq(<<w>>) /\ Len(<<w>>) = 1
      BY <3>1, OverSet
    <3> QED
      BY <3>2 DEF w
  <2> QED
    BY <2>0, <2>1, <2>2
<1>9. /\ IsSeq(words) /\ Len(words) = 5
      /\ \A j \in 1 .. 5 : words[j] = Word(c, j)
  <2>1. words \in Seq({words[1], words[2], words[3], words[4], words[5]}) /\ Len(words) = 5
    OBVIOUS
  <2>2. IsSeq(words)
    BY <2>1, OverSet
  <2>3. /\ words[1] = <<"selector", c.ss>> /\ words[2] = <<"rsp", Len(c.stack)>>
        /\ words[3] = c.regs["rflags"] /\ words[4] = <<"selector", c.cs>> /\ words[5] = c.ip
    BY <1>2
  <2> HIDE DEF words
  <2>4. \A j \in 1 .. 5 : j = 1 \/ j = 2 \/ j = 3 \/ j = 4 \/ j = 5
    OBVIOUS
  <2> QED
    BY <2>1, <2>2, <2>3, <2>4 DEF Word
<1>10. /\ IsSeq(error) /\ Len(error) = n - 5 /\ n \in {5, 6}
       /\ \A j \in 1 .. n - 5 : error[j] = Word(c, 5 + j)
  <2>1. CASE v \in ISR_ERR
    <3>1. error = << <<"error", v>> >> /\ n = 6
      BY <2>1, ErrorCodes
    <3> DEFINE w == <<"error", v>>
    <3>2. Word(c, 6) = w
      BY <1>2, <2>1 DEF Word
    <3> HIDE DEF w
    <3>3. <<w>> \in Seq({w}) /\ Len(<<w>>) = 1 /\ <<w>>[1] = w
      OBVIOUS
    <3>4. IsSeq(<<w>>)
      BY <3>3, OverSet
    <3>5. error = <<w>>
      BY <3>1 DEF w
    <3>6. \A j \in 1 .. 1 : j = 1 /\ 5 + j = 6
      OBVIOUS
    <3> HIDE DEF error, n
    <3> QED
      BY <3>1, <3>2, <3>3, <3>4, <3>5, <3>6
  <2>2. CASE v \notin ISR_ERR
    <3>1. error = << >> /\ n = 5
      BY <2>2, ErrorCodes
    <3>2. IsSeq(<< >>) /\ Len(<< >>) = 0
      BY DEF IsSeq
    <3> HIDE DEF error, n
    <3> QED
      BY <3>1, <3>2
  <2> QED
    BY <2>1, <2>2
<1> HIDE DEF padding, words, error
<1> DEFINE s1 == stack \o padding
           s2 == s1 \o words
<1>11. Joined(s1, stack, padding)
  BY <1>8, Joining, Zenon
<1> HIDE DEF s1
<1>12. IsSeq(s1) /\ Len(s1) = Base(c) /\ \A i \in 1 .. Len(stack) : s1[i] = stack[i]
  BY <1>2, <1>8, <1>11 DEF Joined, Base
<1>13. Joined(s2, s1, words)
  BY <1>9, <1>12, Joining, Zenon
<1> HIDE DEF s2
<1>14. /\ IsSeq(s2) /\ Len(s2) = Base(c) + 5
       /\ \A i \in 1 .. Base(c) : s2[i] = s1[i]
       /\ \A j \in 1 .. 5 : s2[Base(c) + j] = words[j]
  BY <1>9, <1>12, <1>13 DEF Joined
<1>15. stack' = s2 \o error
  BY <1>7 DEF s1, s2
<1>16. Joined(s2 \o error, s2, error)
  BY <1>10, <1>14, Joining, Zenon
<1>17. Joined(stack', s2, error)
  BY <1>15, <1>16
<1> HIDE DEF n
<1>18. /\ IsSeq(stack') /\ Len(stack') = Base(c) + 5 + (n - 5)
       /\ \A i \in 1 .. Base(c) + 5 : stack'[i] = s2[i]
       /\ \A j \in 1 .. n - 5 : stack'[Base(c) + 5 + j] = error[j]
  BY <1>10, <1>14, <1>17 DEF Joined
<1>19. Len(c.stack) \in Nat /\ Base(c) \in Nat /\ Base(c) >= Len(c.stack)
  BY <1>3, Sizes
<1>20. \A i \in 1 .. Len(c.stack) : stack'[i] = c.stack[i]
  <2>1. \A i \in 1 .. Len(stack) : i \in 1 .. Base(c) /\ i \in 1 .. Base(c) + 5
    BY <1>2, <1>19
  <2>2. \A i \in 1 .. Len(stack) : stack'[i] = s2[i] /\ s2[i] = s1[i] /\ s1[i] = stack[i]
    BY <1>12, <1>14, <1>18, <2>1
  <2> QED
    BY <1>2, <2>2
<1>21. ASSUME NEW j \in 1 .. n
       PROVE  stack'[Base(c) + j] = Word(c, j)
  <2>1. CASE j \in 1 .. 5
    <3>1. Base(c) + j \in 1 .. Base(c) + 5
      BY <1>19, <2>1
    <3> QED
      BY <1>9, <1>14, <1>18, <2>1, <3>1
  <2>2. CASE j \notin 1 .. 5
    <3>1. j - 5 \in 1 .. n - 5 /\ 5 + (j - 5) = j /\ Base(c) + 5 + (j - 5) = Base(c) + j
      BY <1>10, <1>19, <2>2
    <3> QED
      BY <1>10, <1>18, <3>1
  <2> QED
    BY <2>1, <2>2
<1>22. Exactly(c, stack', n)
  <2>1. Base(c) + 5 + (n - 5) = Base(c) + n
    BY <1>10, <1>19
  <2> QED
    BY <1>18, <1>20, <1>21, <2>1 DEF Exactly, Holds
<1> DEFINE q == n - 6
<1>23. /\ q \in 1 - StubLen(c.vector) .. 34 /\ q + StubLen(c.vector) = 1
       /\ Height(q) = n /\ q <= 0
  BY <1>2 DEF n, StubLen, Height
<1> HIDE DEF q
<1>24. Kept(c, regs', q)
  <2>1. \A r \in Registers \ {"rflags"} : regs'[r] = c.regs[r]
    BY <1>2, <1>5 DEF Typed
  <2>2. q <= 16 /\ q <= 17 /\ q # 17 /\ \A j \in 1 .. 15 : ~(j <= q - 18)
    BY <1>23
  <2> QED
    BY <2>1, <2>2 DEF Kept, Registers, GeneralRegisters
<1>25. InStub(c, ip', stack', regs', q)
  BY <1>2, <1>4, <1>22, <1>23, <1>24 DEF InStub
<1>26. IsSeq(stack')
  BY <1>18
<1> QED
  BY <1>3, <1>4, <1>6, <1>23, <1>25, <1>26 DEF Handling

-----------------------------------------------------------------------------
(* Every step keeps the frames.                                            *)

(* Outside kernel_main a handler is on the way.                            *)
LEMMA InHandler ==
  ASSUME Frames, ip # Main
  PROVE  /\ Len(contexts) \in Nat /\ Len(contexts) > 0 /\ idtr # -1
         /\ ContextOK(contexts[Len(contexts)])
         /\ Handling(contexts[Len(contexts)], ip, stack, regs)
PROOF
<1>1. Len(contexts) \in Nat /\ Len(contexts) # 0
  BY DEF Frames, IsSeq, Nested
<1>2. Len(contexts) > 0 /\ Len(contexts) \in 1 .. Len(contexts)
  BY <1>1
<1> QED
  BY <1>1, <1>2 DEF Frames, Nested

(* And in kernel_main there is none.                                       *)
LEMMA MainAlone ==
  ASSUME Frames, ip = Main
  PROVE  Len(contexts) = 0
PROOF
<1> DEFINE c == contexts[Len(contexts)]
<1>1. ~InDispatch(c, ip, stack, regs) /\ ip # Hlt
  BY DEF InDispatch, Main, Hlt
<1>2. ~\E q \in 1 - StubLen(c.vector) .. 34 : InStub(c, ip, stack, regs, q)
  BY DEF InStub, Main
<1>3. ~Handling(c, ip, stack, regs)
  BY <1>1, <1>2 DEF Handling
<1> QED
  BY <1>3 DEF Frames, Nested

(* In a stub, one instruction is next; in interrupt_dispatch, its frame    *)
(* is on the stack.                                                        *)
LEMMA WhereHandling ==
  ASSUME NEW c, Handling(c, ip, stack, regs)
  PROVE  /\ ip[1] = "isr" => \E q \in 1 - StubLen(c.vector) .. 34 : InStub(c, ip, stack, regs, q)
         /\ ip[1] = "dispatch" => InDispatch(c, ip, stack, regs)
PROOF
<1>1. ASSUME NEW q \in 1 - StubLen(c.vector) .. 34, InStub(c, ip, stack, regs, q)
      PROVE  ip[1] = "isr"
  BY <1>1 DEF InStub
<1>2. InDispatch(c, ip, stack, regs) => ip[1] = "dispatch"
  BY DEF InDispatch
<1>3. ip = Hlt => ip[1] = "hlt"
  BY DEF Hlt
<1> QED
  BY <1>1, <1>2, <1>3 DEF Handling

(* The last handler goes on, and the others wait.                          *)
LEMMA GoesOn ==
  ASSUME Frames, Len(contexts) > 0, UNCHANGED <<tableVars, contexts>>,
         Handling(contexts[Len(contexts)], ip', stack', regs'),
         IsSeq(stack'), Typed(regs')
  PROVE  Frames'
PROOF
<1>1. /\ step' = step /\ idtr' = idtr /\ cs' = cs /\ ss' = ss /\ contexts' = contexts
  BY DEF tableVars
<1>2. Nested'
  <2>1. Len(contexts) # 0 /\ Len(contexts) \in Nat
    BY DEF Frames, IsSeq
  <2>2. /\ \A k \in 1 .. Len(contexts) : ContextOK(contexts[k])
        /\ \A k \in 1 .. Len(contexts) - 1 :
             Handling(contexts[k], contexts[k + 1].ip, contexts[k + 1].stack, contexts[k + 1].regs)
        /\ contexts[1].ip = Main
    BY <2>1 DEF Frames, Nested
  <2> QED
    BY <1>1, <2>1, <2>2 DEF Nested
<1>3. idtr # -1
  BY DEF Frames
<1> QED
  BY <1>1, <1>2, <1>3 DEF Frames, Selectors

(* In kernel_main and in _start.                                           *)
LEMMA StaysAlone ==
  ASSUME Frames, Len(contexts) = 0, contexts' = contexts, ip' = Main, Selectors',
         idtr' = -1 => regs'["rflags"] = Disabled,
         IsSeq(stack'), Typed(regs')
  PROVE  Frames'
PROOF
<1>1. IsSeq(contexts) /\ Len(contexts) <= MaxDepth
  BY DEF Frames
<1>2. Len(contexts') = 0 /\ IsSeq(contexts')
  BY <1>1
<1>3. Nested'
  <2>1. \A k \in 1 .. Len(contexts') : FALSE
    BY <1>2
  <2>2. \A k \in 1 .. Len(contexts') - 1 : FALSE
    BY <1>2
  <2> QED
    BY <1>2, <2>1, <2>2 DEF Nested
<1> QED
  BY <1>1, <1>2, <1>3 DEF Frames

(* The steps of _start load the selectors one after the other.             *)
LEMMA LoadSelects ==
  ASSUME Progress, Selectors, Load
  PROVE  Selectors' /\ (idtr' = -1 => idtr = -1)
PROOF
<1>1. CASE lretq
  <2>1. IsKernelCode(8)
    BY <1>1, SegmentsOK DEF lretq, Progress
  <2> QED
    BY <1>1, <2>1 DEF lretq, Selectors
<1>2. CASE MovSs
  <2>1. IsKernelData(16)
    BY <1>2, SegmentsOK DEF MovSs, Progress
  <2> QED
    BY <1>2, <2>1 DEF MovSs, Selectors
<1>3. CASE ltr
  <2>1. IsFreeTss(40)
    BY <1>3, SegmentsOK DEF ltr, Progress
  <2> QED
    BY <1>3, <2>1 DEF ltr, Selectors
<1>4. CASE FillGdt \/ lgdt
  BY <1>4 DEF FillGdt, lgdt, Selectors
<1>5. CASE SetGate \/ gdt_set_kernel_stack
  BY <1>5 DEF SetGate, gdt_set_kernel_stack, Selectors
<1>6. CASE lidt
  BY <1>6 DEF lidt, Selectors, Progress
<1> QED
  BY <1>1, <1>2, <1>3, <1>4, <1>5, <1>6 DEF Load

(* An interrupt or an exception is handled on top of what was there.       *)
LEMMA InterruptedOK ==
  ASSUME Frames, Progress, idtr # -1, NEW v \in Exceptions \cup Irqs, Interrupted(v)
  PROVE  Frames'
PROOF
<1> DEFINE n == Len(contexts)
           c == [vector |-> v, ip |-> ip, stack |-> stack, regs |-> regs, cs |-> cs, ss |-> ss]
<1>1. n \in Nat /\ n < MaxDepth /\ IsSeq(contexts) /\ IsSeq(stack) /\ Typed(regs) /\ Nested /\ Selectors
  BY DEF Frames, IsSeq, Interrupted
<1>2. step \in {"stack", "sti", "kernel_main"}
  BY DEF Progress
<1>3. cs = 8 /\ ss = 16
  BY <1>1, <1>2 DEF Selectors
<1>4. /\ ContextOK(c) /\ Handling(c, ip', stack', regs')
      /\ IsSeq(stack') /\ Typed(regs')
      /\ cs' = 8 /\ ss' = 16
  BY <1>1, <1>3, Enters
<1>5. c.ip = ip /\ c.stack = stack /\ c.regs = regs
  OBVIOUS
<1>6. contexts' = Append(contexts, c) /\ step' = step /\ idtr' = idtr
  BY DEF Interrupted, tables
<1> HIDE DEF c
<1>7. /\ IsSeq(contexts') /\ Len(contexts') = n + 1
      /\ \A k \in 1 .. n : contexts'[k] = contexts[k]
      /\ contexts'[n + 1] = c
  BY <1>1, <1>6, Pushing
<1>8. \A k \in 1 .. n + 1 : ContextOK(contexts'[k])
  <2>1. \A k \in 1 .. n + 1 : k \in 1 .. n \/ k = n + 1
    BY <1>1
  <2> QED
    BY <1>1, <1>4, <1>7, <2>1 DEF Nested
<1>9. ASSUME NEW k \in 1 .. n
      PROVE  Handling(contexts'[k], contexts'[k + 1].ip, contexts'[k + 1].stack,
                      contexts'[k + 1].regs)
  <2>1. CASE k = n
    <3>1. n # 0
      BY <1>1, <2>1
    <3>2. Handling(contexts[n], ip, stack, regs)
      BY <1>1, <3>1 DEF Nested
    <3> QED
      BY <1>5, <1>7, <2>1, <3>2
  <2>2. CASE k # n
    <3>1. k \in 1 .. n - 1 /\ k + 1 \in 1 .. n
      BY <1>1, <2>2
    <3>2. Handling(contexts[k], contexts[k + 1].ip, contexts[k + 1].stack, contexts[k + 1].regs)
      BY <1>1, <3>1 DEF Nested
    <3>3. contexts'[k] = contexts[k] /\ contexts'[k + 1] = contexts[k + 1]
      BY <1>7, <3>1
    <3> QED
      BY <3>2, <3>3
  <2> QED
    BY <2>1, <2>2
<1>10. contexts'[1].ip = Main
  <2>1. CASE n = 0
    <3>1. ip = Main
      BY <1>1, <2>1 DEF Nested
    <3> QED
      BY <1>5, <1>7, <2>1, <3>1
  <2>2. CASE n # 0
    <3>1. contexts[1].ip = Main /\ 1 \in 1 .. n
      BY <1>1, <2>2 DEF Nested
    <3> QED
      BY <1>7, <3>1
  <2> QED
    BY <2>1, <2>2
<1>11. Nested'
  <2>1. n + 1 # 0 /\ (n + 1) - 1 = n
    BY <1>1
  <2> QED
    BY <1>4, <1>7, <1>8, <1>9, <1>10, <2>1 DEF Nested
<1>12. Len(contexts') <= MaxDepth
  BY <1>1, <1>7, BoundAssumption
<1> QED
  BY <1>4, <1>6, <1>7, <1>11, <1>12 DEF Frames, Selectors

(* The end of a handler: the one before it, or kernel_main, goes on where  *)
(* it was.                                                                 *)
LEMMA Returned ==
  ASSUME Frames, Progress, Len(contexts) > 0, UNCHANGED tables,
         contexts' = Front(contexts),
         ip' = contexts[Len(contexts)].ip, stack' = contexts[Len(contexts)].stack,
         regs' = contexts[Len(contexts)].regs,
         cs' = contexts[Len(contexts)].cs, ss' = contexts[Len(contexts)].ss
  PROVE  Frames'
PROOF
<1> DEFINE n == Len(contexts)
           c == contexts[n]
<1>1. n \in Nat /\ n > 0 /\ n <= MaxDepth /\ IsSeq(contexts) /\ Nested /\ idtr # -1
  BY DEF Frames, IsSeq
<1>2. ContextOK(c)
  BY <1>1 DEF Nested
<1>3. /\ IsSeq(contexts') /\ Len(contexts') = n - 1
      /\ \A k \in 1 .. n - 1 : contexts'[k] = contexts[k]
  BY <1>1, PoppingOne
<1>4. \A k \in 1 .. n - 1 : ContextOK(contexts'[k])
  <2>1. \A k \in 1 .. n - 1 : k \in 1 .. n
    BY <1>1
  <2> QED
    BY <1>1, <1>3, <2>1 DEF Nested
<1>5. ASSUME NEW k \in 1 .. (n - 1) - 1
      PROVE  Handling(contexts'[k], contexts'[k + 1].ip, contexts'[k + 1].stack,
                      contexts'[k + 1].regs)
  <2>1. k \in 1 .. n - 1 /\ k + 1 \in 1 .. n - 1
    BY <1>1
  <2>2. Handling(contexts[k], contexts[k + 1].ip, contexts[k + 1].stack, contexts[k + 1].regs)
    BY <1>1, <2>1 DEF Nested
  <2>3. contexts'[k] = contexts[k] /\ contexts'[k + 1] = contexts[k + 1]
    BY <1>3, <2>1
  <2> QED
    BY <2>2, <2>3
<1>6. IF n - 1 = 0 THEN ip' = Main
      ELSE contexts'[1].ip = Main /\ Handling(contexts'[n - 1], ip', stack', regs')
  <2>1. contexts[1].ip = Main
    BY <1>1 DEF Nested
  <2>2. CASE n - 1 = 0
    <3>1. n = 1
      BY <1>1, <2>2
    <3> QED
      BY <2>1, <2>2, <3>1
  <2>3. CASE n - 1 # 0
    <3>1. n - 1 \in 1 .. n - 1 /\ 1 \in 1 .. n - 1 /\ (n - 1) + 1 = n
      <4>1. \A a \in Nat : a > 0 /\ a - 1 # 0
                           => a - 1 \in 1 .. a - 1 /\ 1 \in 1 .. a - 1 /\ (a - 1) + 1 = a
        OBVIOUS
      <4> HIDE DEF n
      <4> QED
        BY <1>1, <2>3, <4>1
    <3>2. Handling(contexts[n - 1], contexts[(n - 1) + 1].ip, contexts[(n - 1) + 1].stack,
                   contexts[(n - 1) + 1].regs)
      BY <1>1, <3>1 DEF Nested
    <3>3. Handling(contexts[n - 1], ip', stack', regs')
      BY <3>1, <3>2
    <3> QED
      BY <1>3, <2>1, <2>3, <3>1, <3>3
  <2> QED
    BY <2>2, <2>3
<1>7. Nested'
  BY <1>3, <1>4, <1>5, <1>6 DEF Nested
<1>8. Len(contexts') <= MaxDepth
  BY <1>1, <1>3, BoundAssumption
<1>9. cs' = 8 /\ ss' = 16 /\ IsSeq(stack') /\ Typed(regs')
  BY <1>2 DEF ContextOK
<1>10. idtr' = idtr
  BY DEF tables
<1> QED
  BY <1>1, <1>3, <1>7, <1>8, <1>9, <1>10 DEF Frames, Selectors

(* The instructions of the stubs and of isr_common, and the handler.       *)
LEMMA HandlerSteps ==
  ASSUME Frames, Progress, Isr \/ interrupt_dispatch
  PROVE  Frames'
PROOF
<1> DEFINE n == Len(contexts)
           c == contexts[n]
<1>1. ip[1] = "isr" \/ ip[1] = "dispatch"
  BY DEF Isr, PushNumber, PushRegister, MovRsp, Call, PopRegister, AddRsp, Iretq, At,
    interrupt_dispatch
<1>2. ip # Main
  BY <1>1 DEF Main
<1>3. n > 0 /\ idtr # -1 /\ ContextOK(c) /\ Handling(c, ip, stack, regs)
  BY <1>2, InHandler
<1>4. IsSeq(stack) /\ Typed(regs)
  BY DEF Frames
<1>5. /\ ip[1] = "isr" => \E q \in 1 - StubLen(c.vector) .. 34 : InStub(c, ip, stack, regs, q)
      /\ ip[1] = "dispatch" => InDispatch(c, ip, stack, regs)
  BY <1>3, WhereHandling, Zenon
<1>6. CASE interrupt_dispatch
  <2>1. InDispatch(c, ip, stack, regs)
    BY <1>5, <1>6 DEF interrupt_dispatch
  <2> HIDE DEF c
  <2>2. Handling(c, ip', stack', regs') /\ IsSeq(stack') /\ Typed(regs')
    BY <1>3, <1>4, <1>6, <2>1, DispatchOK
  <2>3. UNCHANGED <<tableVars, contexts>>
    BY <1>6 DEF interrupt_dispatch
  <2> QED
    BY <1>3, <2>2, <2>3, GoesOn DEF c
<1>7. CASE Isr
  <2>1. PICK q \in 1 - StubLen(c.vector) .. 34 : InStub(c, ip, stack, regs, q)
    BY <1>5, <1>7 DEF Isr, PushNumber, PushRegister, MovRsp, Call, PopRegister, AddRsp, Iretq, At
  <2> HIDE DEF c
  <2>2. ASSUME InStub(c, ip', stack', regs', q + 1), q + 1 \in 1 - StubLen(c.vector) .. 34,
               Typed(regs'), UNCHANGED <<tableVars, contexts>>
        PROVE  Frames'
    <3>1. Handling(c, ip', stack', regs')
      BY <2>2, Zenon DEF Handling
    <3>2. IsSeq(stack')
      BY <2>2 DEF InStub, Exactly
    <3> QED
      BY <1>3, <2>2, <3>1, <3>2, GoesOn DEF c
  <2>3. CASE PushNumber
    <3>1. InStub(c, ip', stack', regs', q + 1) /\ q + 1 \in 1 - StubLen(c.vector) .. 34
      BY <1>3, <2>1, <2>3, PushNumberOK
    <3>2. UNCHANGED <<tableVars, regs, contexts>>
      BY <2>3 DEF PushNumber
    <3>3. Typed(regs')
      BY <1>4, <3>2 DEF Typed
    <3> QED
      BY <2>2, <3>1, <3>2, <3>3
  <2>4. CASE PushRegister
    <3>1. InStub(c, ip', stack', regs', q + 1) /\ q + 1 \in 1 - StubLen(c.vector) .. 34
      BY <1>3, <2>1, <2>4, PushRegisterOK
    <3>2. UNCHANGED <<tableVars, regs, contexts>>
      BY <2>4 DEF PushRegister
    <3>3. Typed(regs')
      BY <1>4, <3>2 DEF Typed
    <3> QED
      BY <2>2, <3>1, <3>2, <3>3
  <2>5. CASE MovRsp
    <3>1. /\ InStub(c, ip', stack', regs', q + 1) /\ q + 1 \in 1 - StubLen(c.vector) .. 34
          /\ Typed(regs')
      BY <1>3, <1>4, <2>1, <2>5, MovRspOK
    <3>2. UNCHANGED <<tableVars, contexts>>
      BY <2>5 DEF MovRsp
    <3> QED
      BY <2>2, <3>1, <3>2
  <2>6. CASE Call
    <3>1. InDispatch(c, ip', stack', regs') /\ IsSeq(stack')
      BY <1>3, <2>1, <2>6, CallOK
    <3>2. Handling(c, ip', stack', regs')
      BY <3>1 DEF Handling
    <3>3. UNCHANGED <<tableVars, regs, contexts>>
      BY <2>6 DEF Call
    <3>4. Typed(regs')
      BY <1>4, <3>3 DEF Typed
    <3> QED
      BY <1>3, <3>1, <3>2, <3>3, <3>4, GoesOn DEF c
  <2>7. CASE PopRegister
    <3>1. /\ InStub(c, ip', stack', regs', q + 1) /\ q + 1 \in 1 - StubLen(c.vector) .. 34
          /\ Typed(regs')
      BY <1>3, <1>4, <2>1, <2>7, PopRegisterOK
    <3>2. UNCHANGED <<tableVars, contexts>>
      BY <2>7 DEF PopRegister
    <3> QED
      BY <2>2, <3>1, <3>2
  <2>8. CASE AddRsp
    <3>1. InStub(c, ip', stack', regs', q + 1) /\ q + 1 \in 1 - StubLen(c.vector) .. 34
      BY <1>3, <2>1, <2>8, AddRspOK
    <3>2. UNCHANGED <<tableVars, regs, contexts>>
      BY <2>8 DEF AddRsp
    <3>3. Typed(regs')
      BY <1>4, <3>2 DEF Typed
    <3> QED
      BY <2>2, <3>1, <3>2, <3>3
  <2>9. CASE Iretq
    <3>1. IsKernelCode(8) /\ IsKernelData(16)
      BY <1>3, SegmentsOK DEF Progress
    <3>2. /\ ip' = c.ip /\ stack' = c.stack /\ regs' = c.regs
          /\ cs' = c.cs /\ ss' = c.ss
      BY <1>3, <1>4, <2>1, <2>9, <3>1, IretqOK
    <3>3. contexts' = Front(contexts) /\ UNCHANGED tables
      BY <2>9 DEF Iretq
    <3> QED
      BY <1>3, <3>2, <3>3, Returned DEF c
  <2> QED
    BY <1>7, <2>3, <2>4, <2>5, <2>6, <2>7, <2>8, <2>9 DEF Isr
<1> QED
  BY <1>6, <1>7

(* The bootloader leaves no interrupt behind.                              *)
LEMMA InitFrames == Init => Progress /\ Frames
PROOF
<1> SUFFICES ASSUME Init PROVE Progress /\ Frames
  OBVIOUS
<1>1. Progress
  BY DEF Init, TablesInit, Progress
<1>2. IsSeq(<< >>) /\ Len(<< >>) = 0
  BY DEF IsSeq
<1>3. stack = << >> /\ contexts = << >> /\ ip = Main
  BY DEF Init
<1>4. Typed(regs)
  BY DEF Init, Typed, Registers, GeneralRegisters
<1>5. Selectors
  BY DEF Init, TablesInit, Selectors
<1>6. regs["rflags"] = Disabled
  BY DEF Init, Registers
<1>7. Nested
  <2>1. Len(contexts) = 0
    BY <1>2, <1>3
  <2>2. (\A k \in 1 .. Len(contexts) : FALSE) /\ (\A k \in 1 .. Len(contexts) - 1 : FALSE)
    BY <2>1
  <2> QED
    BY <1>3, <2>1, <2>2 DEF Nested
<1> QED
  BY <1>1, <1>2, <1>3, <1>4, <1>5, <1>6, <1>7, BoundAssumption DEF Frames

(* One case for each action.                                               *)
LEMMA NextFrames == Progress /\ Frames /\ [Next]_vars => Progress' /\ Frames'
PROOF
<1> SUFFICES ASSUME Progress, Frames, [Next]_vars PROVE Progress' /\ Frames'
  OBVIOUS
<1>1. Progress'
  BY NextProgress
<1>2. CASE _start
  <2>1. ip = Main /\ Load /\ UNCHANGED <<ip, stack, regs, contexts>>
    BY <1>2 DEF _start
  <2>2. Len(contexts) = 0
    BY <2>1, MainAlone
  <2>3. Selectors' /\ (idtr' = -1 => idtr = -1)
    BY <2>1, LoadSelects DEF Frames
  <2>4. IsSeq(stack') /\ Typed(regs')
    BY <2>1 DEF Frames, Typed
  <2>5. idtr' = -1 => regs'["rflags"] = Disabled
    BY <2>1, <2>3 DEF Frames
  <2>6. Frames'
    BY <2>1, <2>2, <2>3, <2>4, <2>5, StaysAlone
  <2> QED
    BY <1>1, <2>6
<1>3. CASE Sti
  <2>1. ip = Main /\ ip' = Main /\ stack' = stack /\ contexts' = contexts
    BY <1>3 DEF Sti
  <2>2. Len(contexts) = 0
    BY <2>1, MainAlone
  <2>3. Selectors' /\ idtr' # -1
    BY <1>3 DEF Sti, Frames, Selectors, Progress
  <2>4. regs' = [regs EXCEPT !["rflags"] = Enabled]
    BY <1>3 DEF Sti
  <2>5. Typed(regs')
    <3>1. regs' = [r \in Registers |-> regs'[r]]
      BY <2>4 DEF Frames, Typed
    <3>2. regs'["rflags"] = Enabled /\ \A r \in Registers \ {"rflags"} : regs'[r] = regs[r]
      BY <2>4 DEF Frames, Typed, Registers
    <3> QED
      BY <3>1, <3>2 DEF Frames, Typed
  <2>6. IsSeq(stack')
    BY <2>1 DEF Frames
  <2>7. Frames'
    BY <2>1, <2>2, <2>3, <2>5, <2>6, StaysAlone
  <2> QED
    BY <1>1, <2>7
<1>4. CASE Push \/ Pop
  <2>1. ip = Main /\ ip' = Main /\ UNCHANGED <<tableVars, regs, contexts>>
    BY <1>4 DEF Push, Pop
  <2>2. Len(contexts) = 0
    BY <2>1, MainAlone
  <2>3. IsSeq(stack')
    <3>1. CASE Push
      BY <3>1, Pushing DEF Push, Frames
    <3>2. CASE Pop
      <4>1. stack' = Front(stack) /\ stack # << >> /\ IsSeq(stack)
        BY <3>2 DEF Pop, Frames
      <4>2. Len(stack) > 0
        <5>1. Len(stack) = 0 => stack = << >>
          <6>1. << >> = [i \in 1 .. 0 |-> stack[i]]
            OBVIOUS
          <6> QED
            BY <4>1, <6>1 DEF IsSeq
        <5> QED
          BY <4>1, <5>1 DEF IsSeq
      <4> QED
        BY <4>1, <4>2, PoppingOne
    <3> QED
      BY <1>4, <3>1, <3>2
  <2>4. Selectors' /\ Typed(regs')
    BY <2>1 DEF tableVars, Frames, Selectors, Typed
  <2>5. idtr' = -1 => regs'["rflags"] = Disabled
    BY <2>1 DEF tableVars, Frames
  <2>6. Frames'
    BY <2>1, <2>2, <2>3, <2>4, <2>5, StaysAlone
  <2> QED
    BY <1>1, <2>6
<1>5. CASE Irq
  <2>1. PICK v \in Irqs : Interrupted(v)
    BY <1>5 DEF Irq
  <2>2. idtr # -1
    BY <1>5 DEF Irq, Frames, Enabled, Disabled
  <2> QED
    BY <1>1, <2>1, <2>2, InterruptedOK
<1>6. CASE Exception
  <2>1. PICK v \in Exceptions : Interrupted(v)
    BY <1>6 DEF Exception
  <2>2. idtr # -1
    BY <1>6 DEF Exception
  <2> QED
    BY <1>1, <2>1, <2>2, InterruptedOK
<1>7. CASE Isr \/ interrupt_dispatch
  BY <1>1, <1>7, HandlerSteps
<1>8. CASE UNCHANGED vars
  <2>1. UNCHANGED <<tableVars, ip, stack, regs, contexts>>
    BY <1>8 DEF vars
  <2>2. UNCHANGED <<step, idtr, cs, ss>>
    BY <2>1 DEF tableVars
  <2>3. Nested' /\ Selectors' /\ Typed(regs')
    BY <2>1, <2>2 DEF Frames, Nested, Selectors, Typed
  <2>4. Frames'
    BY <2>1, <2>2, <2>3 DEF Frames
  <2> QED
    BY <1>1, <2>4
<1> QED
  BY <1>2, <1>3, <1>4, <1>5, <1>6, <1>7, <1>8 DEF Next

-----------------------------------------------------------------------------
(* What the frames imply. *)

(* Where interrupt_frame_t has its fields.                                 *)
LEMMA FieldsAt ==
  ASSUME NEW i \in 1 .. 22
  PROVE  /\ i \in DOMAIN interrupt_frame_t
         /\ (CHOOSE n \in DOMAIN interrupt_frame_t : interrupt_frame_t[n] = interrupt_frame_t[i]) = i
PROOF
<1> DEFINE f == interrupt_frame_t
<1>1. DOMAIN f = 1 .. 22
  BY DEF interrupt_frame_t
<1>2. /\ f[1] = "r15" /\ f[2] = "r14" /\ f[3] = "r13" /\ f[4] = "r12" /\ f[5] = "r11"
      /\ f[6] = "r10" /\ f[7] = "r9" /\ f[8] = "r8" /\ f[9] = "rbp" /\ f[10] = "rdi"
      /\ f[11] = "rsi" /\ f[12] = "rdx" /\ f[13] = "rcx" /\ f[14] = "rbx" /\ f[15] = "rax"
      /\ f[16] = "int_num" /\ f[17] = "error_code" /\ f[18] = "rip" /\ f[19] = "cs"
      /\ f[20] = "rflags" /\ f[21] = "rsp" /\ f[22] = "ss"
  BY DEF interrupt_frame_t
<1>3. \A j \in 1 .. 22 : \/ j = 1 \/ j = 2 \/ j = 3 \/ j = 4 \/ j = 5 \/ j = 6 \/ j = 7 \/ j = 8
                         \/ j = 9 \/ j = 10 \/ j = 11 \/ j = 12 \/ j = 13 \/ j = 14 \/ j = 15
                         \/ j = 16 \/ j = 17 \/ j = 18 \/ j = 19 \/ j = 20 \/ j = 21 \/ j = 22
  OBVIOUS
<1> HIDE DEF f
<1>4. \A j \in 1 .. 22 : f[j] = f[i] => j = i
  BY <1>2, <1>3
<1>5. (CHOOSE n \in DOMAIN f : f[n] = f[i]) = i
  BY <1>1, <1>4
<1> QED
  BY <1>1, <1>5 DEF f

(* A field of the structure is a word of the frame.                        *)
LEMMA FieldIsWord ==
  ASSUME NEW c, ContextOK(c), InDispatch(c, ip, stack, regs), NEW i \in 1 .. 22
  PROVE  Field(interrupt_frame_t[i]) = Word(c, 23 - i)
PROOF
<1>1. ip[2][2] = Base(c) + 22 /\ Holds(c, stack, 22)
  BY DEF InDispatch
<1>2. Field(interrupt_frame_t[i]) = stack[ip[2][2] + 1 - i]
  BY FieldsAt DEF Field
<1>3. 23 - i \in 1 .. 22 /\ Base(c) + 22 + 1 - i = Base(c) + (23 - i)
  BY Sizes
<1>4. stack[Base(c) + (23 - i)] = Word(c, 23 - i)
  BY <1>1, <1>3 DEF Holds
<1> QED
  BY <1>1, <1>2, <1>3, <1>4

(* interrupt_dispatch reads what the processor and the stub pushed.        *)
LEMMA FramesMatch == Frames => FrameMatchesStruct
PROOF
<1> SUFFICES ASSUME Frames, ip[1] = "dispatch" PROVE FrameMatchesStruct
  BY DEF FrameMatchesStruct
<1> DEFINE c == contexts[Len(contexts)]
           f == interrupt_frame_t
<1>1. ip # Main
  BY DEF Main
<1>2. ContextOK(c) /\ Handling(c, ip, stack, regs) /\ Last(contexts) = c
  BY <1>1, InHandler DEF Last
<1>3. InDispatch(c, ip, stack, regs)
  BY <1>2, WhereHandling
<1> HIDE DEF c
<1>4. \A i \in 1 .. 22 : Field(f[i]) = Word(c, 23 - i)
  BY <1>2, <1>3, FieldIsWord
<1>5. /\ f[16] = "int_num" /\ f[17] = "error_code" /\ f[18] = "rip" /\ f[19] = "cs"
      /\ f[20] = "rflags" /\ f[21] = "rsp" /\ f[22] = "ss"
  BY DEF interrupt_frame_t
<1>6. /\ f[1] = Popped[1] /\ f[2] = Popped[2] /\ f[3] = Popped[3] /\ f[4] = Popped[4]
      /\ f[5] = Popped[5] /\ f[6] = Popped[6] /\ f[7] = Popped[7] /\ f[8] = Popped[8]
      /\ f[9] = Popped[9] /\ f[10] = Popped[10] /\ f[11] = Popped[11] /\ f[12] = Popped[12]
      /\ f[13] = Popped[13] /\ f[14] = Popped[14] /\ f[15] = Popped[15]
  BY DEF interrupt_frame_t, Popped
<1> HIDE DEF f
<1>7. \A j \in 1 .. 15 : f[j] = Popped[j]
  <2>1. \A j \in 1 .. 15 : \/ j = 1 \/ j = 2 \/ j = 3 \/ j = 4 \/ j = 5 \/ j = 6 \/ j = 7 \/ j = 8
                           \/ j = 9 \/ j = 10 \/ j = 11 \/ j = 12 \/ j = 13 \/ j = 14 \/ j = 15
    OBVIOUS
  <2> QED
    BY <1>6, <2>1
<1>8. ASSUME NEW r \in GeneralRegisters
      PROVE  Field(r) = c.regs[r]
  <2>1. PICK j \in 1 .. 15 : Popped[j] = r
    BY RegisterLists
  <2>2. j \in 1 .. 22 /\ 23 - j \notin 1 .. 7 /\ (23 - j) - 7 = 16 - j
    OBVIOUS
  <2>3. Field(r) = Word(c, 23 - j)
    BY <1>4, <1>7, <2>1, <2>2
  <2>4. \A k : k \notin 1 .. 7 => Word(c, k) = c.regs[Pushed[k - 7]]
    BY DEF Word
  <2>5. Word(c, 23 - j) = c.regs[Pushed[(23 - j) - 7]]
    BY <2>2, <2>4, Zenon
  <2>6. Popped[j] = Pushed[16 - j]
    BY RegisterLists
  <2> QED
    BY <2>1, <2>2, <2>3, <2>5, <2>6
<1>9. /\ Field("int_num") = Word(c, 7) /\ Field("error_code") = Word(c, 6)
      /\ Field("rip") = Word(c, 5) /\ Field("cs") = Word(c, 4) /\ Field("rflags") = Word(c, 3)
      /\ Field("rsp") = Word(c, 2) /\ Field("ss") = Word(c, 1)
  <2>1. /\ Field(f[16]) = Word(c, 7) /\ Field(f[17]) = Word(c, 6)
        /\ Field(f[18]) = Word(c, 5) /\ Field(f[19]) = Word(c, 4) /\ Field(f[20]) = Word(c, 3)
        /\ Field(f[21]) = Word(c, 2) /\ Field(f[22]) = Word(c, 1)
    BY <1>4
  <2> QED
    BY <1>5, <2>1
<1>10. /\ Word(c, 7) = <<"number", c.vector>> /\ Word(c, 5) = c.ip
       /\ Word(c, 4) = <<"selector", c.cs>> /\ Word(c, 3) = c.regs["rflags"]
       /\ Word(c, 2) = <<"rsp", Len(c.stack)>> /\ Word(c, 1) = <<"selector", c.ss>>
       /\ Word(c, 6) = IF c.vector \in PushErrorCode
                       THEN <<"error", c.vector>> ELSE <<"number", 0>>
  BY ErrorCodes DEF Word
<1>11. \A r \in GeneralRegisters \cup {"rflags"} : Field(r) = c.regs[r]
  BY <1>8, <1>9, <1>10
<1> QED
  BY <1>2, <1>9, <1>10, <1>11 DEF FrameMatchesStruct

(* The frame and the return address make an odd number of words.           *)
LEMMA FramesAlign == Frames => StackAligned
PROOF
<1> SUFFICES ASSUME Frames, ip[1] = "dispatch" PROVE Len(stack) % 2 = 1
  BY DEF StackAligned
<1> DEFINE c == contexts[Len(contexts)]
<1>1. ip # Main
  BY DEF Main
<1>2. ContextOK(c) /\ Handling(c, ip, stack, regs)
  BY <1>1, InHandler
<1>3. InDispatch(c, ip, stack, regs)
  BY <1>2, WhereHandling
<1> HIDE DEF c
<1>4. Len(stack) = Base(c) + 23 /\ Base(c) \in Nat /\ Base(c) % 2 = 0
  BY <1>2, <1>3, Sizes DEF InDispatch
<1>5. \A b \in Nat : b % 2 = 0 => (b + 23) % 2 = 1
  BY Z3
<1> QED
  BY <1>4, <1>5

(* Each instruction is one of the code, each register holds its own value. *)
LEMMA FramesType == Frames => TypeOK
PROOF
<1> SUFFICES ASSUME Frames PROVE TypeOK
  OBVIOUS
<1> DEFINE c == contexts[Len(contexts)]
<1>1. \/ ip \in {Main, Hlt}
      \/ ip[1] = "dispatch" /\ ip[2][1] = "rsp"
      \/ ip[1] = "isr" /\ ip[2] \in Exceptions \cup Irqs /\ ip[3] \in DOMAIN Code(ip[2])
  <2>1. CASE ip = Main
    BY <2>1
  <2>2. CASE ip # Main
    <3>1. ContextOK(c) /\ Handling(c, ip, stack, regs)
      BY <2>2, InHandler
    <3> HIDE DEF c
    <3>2. CASE InDispatch(c, ip, stack, regs)
      BY <3>2 DEF InDispatch
    <3>3. ASSUME NEW q \in 1 - StubLen(c.vector) .. 34, InStub(c, ip, stack, regs, q)
          PROVE  ip[1] = "isr" /\ ip[2] \in Exceptions \cup Irqs /\ ip[3] \in DOMAIN Code(ip[2])
      <4>1. ip[1] = "isr" /\ ip[2] = c.vector /\ ip[3] = q + StubLen(c.vector)
        BY <3>3 DEF InStub
      <4>2. q + StubLen(c.vector) \in 1 .. 34 + StubLen(c.vector)
        BY <3>1, Sizes
      <4>3. DOMAIN Code(c.vector) = 1 .. 34 + StubLen(c.vector)
        BY CodeOf
      <4> QED
        BY <3>1, <4>1, <4>2, <4>3 DEF ContextOK
    <3> QED
      BY <3>1, <3>2, <3>3 DEF Handling
  <2> QED
    BY <2>1, <2>2
<1>2. regs["rflags"] \in {Enabled, Disabled}
  BY DEF Frames, Typed
<1>3. \A r \in Registers \ {"rflags"} :
        regs[r] \in {<<"value", r>>, <<"changed", r>>} \/ (r = "rdi" /\ regs[r][1] = "rsp")
  BY DEF Frames, Typed
<1>4. Len(contexts) <= MaxDepth
  BY DEF Frames
<1> QED
  BY <1>1, <1>2, <1>3, <1>4 DEF TypeOK

(* iretq returns to what the last handler interrupted.                     *)
LEMMA FramesReturn ==
  ASSUME Frames, Progress, Iretq
  PROVE  LET context == Last(contexts)
         IN /\ ip' = context.ip /\ stack' = context.stack /\ regs' = context.regs
            /\ cs' = context.cs /\ ss' = context.ss
PROOF
<1> DEFINE c == contexts[Len(contexts)]
<1>1. ip[1] = "isr" /\ ip # Main
  BY DEF Iretq, At, Main
<1>2. idtr # -1 /\ ContextOK(c) /\ Handling(c, ip, stack, regs) /\ Last(contexts) = c
  BY <1>1, InHandler DEF Last
<1> HIDE DEF c
<1>3. PICK q \in 1 - StubLen(c.vector) .. 34 : InStub(c, ip, stack, regs, q)
  BY <1>1, <1>2, WhereHandling
<1>4. IsKernelCode(8) /\ IsKernelData(16)
  BY <1>2, SegmentsOK DEF Progress
<1>5. Typed(regs)
  BY DEF Frames
<1>6. /\ ip' = c.ip /\ stack' = c.stack /\ regs' = c.regs
      /\ cs' = c.cs /\ ss' = c.ss
  BY <1>2, <1>3, <1>4, <1>5, IretqOK
<1> QED
  BY <1>2, <1>6

-----------------------------------------------------------------------------
(* The properties, for any vectors and any number of nested interrupts.    *)

(* The processor never leaves the code, and every register holds what was  *)
(* once its own.                                                           *)
THEOREM TypeCorrect == Spec => []TypeOK
PROOF BY InitFrames, NextFrames, FramesType, PTL DEF Spec

(* Whatever was interrupted, interrupt_dispatch finds in each field of     *)
(* interrupt_frame_t what the field is named for.                          *)
THEOREM FrameAlwaysMatches == Spec => []FrameMatchesStruct
PROOF BY InitFrames, NextFrames, FramesMatch, PTL DEF Spec

(* Whatever was interrupted, the stack is aligned when isr_common calls.   *)
THEOREM StackAlwaysAligned == Spec => []StackAligned
PROOF BY InitFrames, NextFrames, FramesAlign, PTL DEF Spec

(* Every iretq of every handler goes back to the state that was            *)
(* interrupted: registers, stack, selectors and instruction.               *)
THEOREM AlwaysTransparent == Spec => Transparent
PROOF
<1>1. Frames /\ Progress /\ [Next]_vars
        => [Iretq => LET context == Last(contexts)
                     IN /\ ip' = context.ip /\ stack' = context.stack /\ regs' = context.regs
                        /\ cs' = context.cs /\ ss' = context.ss]_vars
  BY FramesReturn
<1> QED
  BY <1>1, InitFrames, NextFrames, PTL DEF Spec, Transparent
=============================================================================
