------------------------------ MODULE IsrFrame ------------------------------
(***************************************************************************)
(* The way into an interrupt handler and out of it, one instruction at a   *)
(* time (kernel/arch/x86_64/isr_stubs.S), against the structure through    *)
(* which the handler sees it (interrupt_frame_t in idt.h). Exceptions and  *)
(* the non-maskable interrupt come between any two instructions, once      *)
(* _start has loaded the tables of Descriptors, which the processor reads  *)
(* at each entry and each return.                                          *)
(*                                                                         *)
(* The stack is a sequence of 8-byte words that grows at its end, so its   *)
(* length stands for rsp: nothing is kept beyond it, because the kernel is *)
(* compiled without a red zone. Its base is aligned to 16 bytes.           *)
(***************************************************************************)
EXTENDS Descriptors, SequencesExt

CONSTANTS
  Exceptions,      \* vectors below 32, the non-maskable interrupt 2 included
  Irqs,            \* vectors of the interrupt controllers
  MaxDepth,        \* how many interrupts may be on the stack
  MaxLocals        \* how many words kernel_main may push

ASSUME VectorAssumption == Exceptions \subseteq 0 .. 31 /\ Irqs \subseteq 32 .. 255

ASSUME BoundAssumption == MaxDepth \in Nat /\ MaxLocals \in Nat

(* From the lowest address up.                                             *)
interrupt_frame_t ==
  <<"r15", "r14", "r13", "r12", "r11", "r10", "r9", "r8",
    "rbp", "rdi", "rsi", "rdx", "rcx", "rbx", "rax",
    "int_num", "error_code", "rip", "cs", "rflags", "rsp", "ss">>

GeneralRegisters ==
  {"rax", "rbx", "rcx", "rdx", "rsi", "rdi", "rbp", "r8", "r9", "r10", "r11",
   "r12", "r13", "r14", "r15"}

(* "sse" stands for all the SSE registers.                                 *)
Registers == GeneralRegisters \cup {"rflags", "sse"}

(* The calling convention: what a C function may leave changed.            *)
CallerSaved == {"rax", "rcx", "rdx", "rsi", "rdi", "r8", "r9", "r10", "r11", "sse"}

(* The processor: which exceptions push an error code.                     *)
PushErrorCode == {8} \cup 10 .. 14 \cup {17, 21, 29, 30}

-----------------------------------------------------------------------------
(* The program. *)

ISR_ERR == {8, 10, 11, 12, 13, 14, 17, 21, 29, 30}

(* Forgets the dummy error code. *)
BadStub(v) == <<[op |-> "pushq", arg |-> v]>>

Stub(v) ==
  (IF v \in ISR_ERR THEN << >> ELSE <<[op |-> "pushq", arg |-> 0]>>)
    \o <<[op |-> "pushq", arg |-> v]>>

(* rdi and rbp swapped. *)
BadPushed ==
  <<"rax", "rbx", "rcx", "rdx", "rsi", "rbp", "rdi", "r8", "r9", "r10", "r11",
    "r12", "r13", "r14", "r15">>

Pushed ==
  <<"rax", "rbx", "rcx", "rdx", "rsi", "rdi", "rbp", "r8", "r9", "r10", "r11",
    "r12", "r13", "r14", "r15">>

(* rbx and rax swapped. *)
BadPopped ==
  <<"r15", "r14", "r13", "r12", "r11", "r10", "r9", "r8", "rbp", "rdi", "rsi",
    "rdx", "rcx", "rax", "rbx">>

Popped ==
  <<"r15", "r14", "r13", "r12", "r11", "r10", "r9", "r8", "rbp", "rdi", "rsi",
    "rdx", "rcx", "rbx", "rax">>

Each(op, registers) == [i \in DOMAIN registers |-> [op |-> op, arg |-> registers[i]]]

isr_common ==
  Each("push", Pushed)
    \o <<[op |-> "mov", arg |-> "rdi"], [op |-> "call", arg |-> 0]>>
    \o Each("pop", Popped)
    \o <<[op |-> "add", arg |-> 2], [op |-> "iretq", arg |-> 0]>>

Code(v) == Stub(v) \o isr_common

-----------------------------------------------------------------------------
VARIABLES
  ip,              \* <<"main">>, which stands for _start too, <<"isr", vector, i>>,
                   \* <<"dispatch", frame>>, <<"hlt">> or Fault
  stack,
  regs,
  contexts         \* history: what each interrupt on the stack found

vars == <<tableVars, ip, stack, regs, contexts>>

tables == <<step, loop, gdt, tss, idt, gdtr, idtr, tr>>

Main     == <<"main">>
Fault    == <<"fault">>
Hlt      == <<"hlt">>
Enabled  == <<"flags", TRUE>>
Disabled == <<"flags", FALSE>>

(* As the bootloader leaves the machine. *)
Init ==
  /\ TablesInit
  /\ ip = Main
  /\ stack = << >>
  /\ regs = [r \in Registers |-> IF r = "rflags" THEN Disabled ELSE <<"value", r>>]
  /\ contexts = << >>

_start ==
  /\ ip = Main
  /\ Load
  /\ UNCHANGED <<ip, stack, regs, contexts>>

Sti ==
  /\ ip = Main /\ step = "sti"
  /\ step' = "kernel_main"
  /\ regs' = [regs EXCEPT !["rflags"] = Enabled]
  /\ UNCHANGED <<loop, gdt, tss, idt, gdtr, idtr, cs, ss, tr, ip, stack, contexts>>

(* kernel_main and what it calls push and pop: the stack may have either   *)
(* parity when an interrupt comes.                                         *)
Push ==
  /\ ip = Main /\ step = "kernel_main"
  /\ Len(stack) < MaxLocals
  /\ stack' = Append(stack, <<"local", Len(stack)>>)
  /\ UNCHANGED <<tableVars, ip, regs, contexts>>

Pop ==
  /\ ip = Main /\ step = "kernel_main"
  /\ stack # << >>
  /\ stack' = Front(stack)
  /\ UNCHANGED <<tableVars, ip, regs, contexts>>

(* Where the gate of a vector leads. *)
Target(v) ==
  LET leads == { w \in Vectors : isr_table[w] = Offset(idt[v]) }
  IN IF HasGate(v) /\ leads # {} THEN <<"isr", CHOOSE w \in leads : TRUE, 1>> ELSE Fault

(* The processor's entry: it aligns the stack, pushes five words and       *)
(* perhaps an error code, and an interrupt gate clears the interrupt flag. *)
Interrupted(v) ==
  /\ Len(contexts) < MaxDepth
  /\ contexts' = Append(contexts, [vector |-> v, ip |-> ip, stack |-> stack, regs |-> regs,
                                   cs |-> cs, ss |-> ss])
  /\ stack' = stack \o (IF Len(stack) % 2 = 1 THEN << <<"padding">> >> ELSE << >>)
                    \o << <<"selector", ss>>, <<"rsp", Len(stack)>>, regs["rflags"], <<"selector", cs>>, ip >>
                    \o (IF v \in PushErrorCode THEN << <<"error", v>> >> ELSE << >>)
  /\ ip' = Target(v)
  /\ cs' = idt[v].selector
  /\ regs' = [regs EXCEPT !["rflags"] = IF Masks(v) THEN Disabled ELSE @]
  /\ UNCHANGED <<tables, ss>>

Irq == regs["rflags"] = Enabled /\ \E v \in Irqs : Interrupted(v)

(* Before lidt, exceptions are the bootloader's. A second non-maskable     *)
(* interrupt waits for an iretq.                                           *)
Exception ==
  /\ idtr # -1
  /\ \E v \in Exceptions :
       /\ v = 2 => \A i \in DOMAIN contexts : contexts[i].vector # 2
       /\ Interrupted(v)

At(op) == ip[1] = "isr" /\ Code(ip[2])[ip[3]].op = op

Arg == Code(ip[2])[ip[3]].arg

Following == <<"isr", ip[2], ip[3] + 1>>

PushNumber ==
  /\ At("pushq")
  /\ stack' = Append(stack, <<"number", Arg>>)
  /\ ip' = Following
  /\ UNCHANGED <<tableVars, regs, contexts>>

PushRegister ==
  /\ At("push")
  /\ stack' = Append(stack, regs[Arg])
  /\ ip' = Following
  /\ UNCHANGED <<tableVars, regs, contexts>>

MovRsp ==
  /\ At("mov")
  /\ regs' = [regs EXCEPT ![Arg] = <<"rsp", Len(stack)>>]
  /\ ip' = Following
  /\ UNCHANGED <<tableVars, stack, contexts>>

Call ==
  /\ At("call")
  /\ stack' = Append(stack, Following)
  /\ ip' = <<"dispatch", regs["rdi"]>>
  /\ UNCHANGED <<tableVars, regs, contexts>>

(* What interrupt_dispatch reads: frame->field.                            *)
Field(field) ==
  LET i == CHOOSE n \in DOMAIN interrupt_frame_t : interrupt_frame_t[n] = field
  IN stack[ip[2][2] + 1 - i]

(* A vector below 32 halts. Otherwise the handler returns, and has changed *)
(* what a C function may; as compiled, none of them uses SSE registers.    *)
interrupt_dispatch ==
  /\ ip[1] = "dispatch"
  /\ IF Field("int_num")[2] < 32
     THEN ip' = Hlt /\ UNCHANGED <<stack, regs>>
     ELSE /\ ip' = Last(stack)
          /\ stack' = Front(stack)
          /\ regs' = [r \in Registers |->
                        IF r \in CallerSaved \ {"sse"} THEN <<"changed", r>> ELSE regs[r]]
  /\ UNCHANGED <<tableVars, contexts>>

PopRegister ==
  /\ At("pop")
  /\ regs' = [regs EXCEPT ![Arg] = Last(stack)]
  /\ stack' = Front(stack)
  /\ ip' = Following
  /\ UNCHANGED <<tableVars, contexts>>

AddRsp ==
  /\ At("add")
  /\ stack' = SubSeq(stack, 1, Len(stack) - Arg)
  /\ ip' = Following
  /\ UNCHANGED <<tableVars, regs, contexts>>

(* The processor's return: it pops what its entry pushed.                  *)
Iretq ==
  /\ At("iretq")
  /\ LET top(i) == stack[Len(stack) + 1 - i]
     IN /\ ip' = IF IsKernelCode(top(2)[2]) /\ IsKernelData(top(5)[2]) THEN top(1) ELSE Fault
        /\ cs' = top(2)[2] /\ ss' = top(5)[2]
        /\ regs' = [regs EXCEPT !["rflags"] = top(3)]
        /\ stack' = SubSeq(stack, 1, top(4)[2])
  /\ contexts' = Front(contexts)
  /\ UNCHANGED tables

Isr == PushNumber \/ PushRegister \/ MovRsp \/ Call \/ PopRegister \/ AddRsp \/ Iretq

Next == _start \/ Sti \/ Push \/ Pop \/ Irq \/ Exception \/ Isr \/ interrupt_dispatch

Spec == Init /\ [][Next]_vars

-----------------------------------------------------------------------------
(* Properties. *)

(* The processor always executes code, and a register holds what was once  *)
(* its own, except for the address of the frame in rdi.                    *)
TypeOK ==
  /\ \/ ip \in {Main, Hlt}
     \/ ip[1] = "dispatch" /\ ip[2][1] = "rsp"
     \/ ip[1] = "isr" /\ ip[2] \in Exceptions \cup Irqs /\ ip[3] \in DOMAIN Code(ip[2])
  /\ regs["rflags"] \in {Enabled, Disabled}
  /\ \A r \in Registers \ {"rflags"} :
       regs[r] \in {<<"value", r>>, <<"changed", r>>} \/ (r = "rdi" /\ regs[r][1] = "rsp")
  /\ Len(contexts) <= MaxDepth

(* Through interrupt_frame_t, interrupt_dispatch reads the vector, the     *)
(* error code, if there is one, and what the interrupted code had in every *)
(* register, whatever was interrupted: kernel_main, or another handler     *)
(* between two of its instructions.                                        *)
FrameMatchesStruct ==
  ip[1] = "dispatch" =>
    LET context == Last(contexts)
    IN /\ \A r \in GeneralRegisters \cup {"rflags"} : Field(r) = context.regs[r]
       /\ Field("cs") = <<"selector", context.cs>> /\ Field("ss") = <<"selector", context.ss>>
       /\ Field("int_num") = <<"number", context.vector>>
       /\ Field("error_code") = IF context.vector \in PushErrorCode
                                THEN <<"error", context.vector>> ELSE <<"number", 0>>
       /\ Field("rip") = context.ip
       /\ Field("rsp") = <<"rsp", Len(context.stack)>>

(* interrupt_dispatch finds the stack as the calling convention demands:   *)
(* before the call it was aligned to 16 bytes. Nothing in isr_common       *)
(* aligns it: the processor's six or five words, the stub's one or two and *)
(* the fifteen registers add up to an even number.                         *)
StackAligned == ip[1] = "dispatch" => Len(stack) % 2 = 1

(* An interrupt is not noticed: iretq goes back to the interrupted         *)
(* instruction with every register and the whole stack as they were.       *)
Transparent ==
  [][ Iretq => LET context == Last(contexts)
               IN /\ ip' = context.ip /\ stack' = context.stack /\ regs' = context.regs
                  /\ cs' = context.cs /\ ss' = context.ss ]_vars

(* isr_stubs.S on isr_common: "saves all regs". At the call, what C may    *)
(* change is on the stack.                                                 *)
SavesAllRegs ==
  ip[1] = "dispatch" =>
    \A r \in CallerSaved :
      \E i \in Len(Last(contexts).stack) + 1 .. Len(stack) : stack[i] = Last(contexts).regs[r]
=============================================================================
