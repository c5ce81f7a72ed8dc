----------------------------- MODULE Interrupts -----------------------------
(***************************************************************************)
(* Interrupts from the first instruction of _start to the handlers:        *)
(* the order of the initialisations (kernel/kernel/kernel.c), the table of *)
(* handlers and the dispatcher (idt.c), the exception handlers             *)
(* (exceptions.c), and the programming of the two interrupt controllers    *)
(* and their acknowledgement (irq.c).                                      *)
(*                                                                         *)
(* The devices act whenever they like: before the controllers are set up,  *)
(* between two writes of pic_remap, and between two steps of a handler.    *)
(***************************************************************************)
EXTENDS Pic, Sequences

CONSTANTS
  Exceptions,   \* the exception vectors that can be raised
  SlaveLines,   \* the lines of the second controller that have a device
  MaxDepth      \* bound on nested interrupt frames

ASSUME ConstantsAssumption ==
  /\ Exceptions \subseteq 0 .. 31
  /\ SlaveLines \subseteq Lines
  /\ MaxDepth \in Nat \ {0}

VARIABLES
  boot,         \* the index in Start of the next initialisation
  remap,        \* the index in pic_remap of the next port write
  gdt, idt,     \* whether the kernel's descriptor tables are loaded
  handlers,     \* idt.c's table: the handler of each vector that has one
  iflag,        \* the processor's interrupt flag
  frames,       \* the interrupt frames on the stack, innermost last
  halted,       \* the processor is in an endless hlt loop
  pic1, pic2,   \* the controllers; pic2 raises line 2 of pic1
  obf,          \* the keyboard controller holds a byte: its line is high
  early,        \* it held one when pic1 was initialised, which forgot the edge
  ran           \* kernel_main has run since the last tick

tables  == <<gdt, idt, handlers>>
devices == <<obf, early, ran>>
vars    == <<boot, remap, gdt, idt, handlers, iflag, frames, halted,
             pic1, pic2, obf, early, ran>>

-----------------------------------------------------------------------------
(* Variants named Bad... hold a plausible mistake; no specification uses   *)
(* one. They show which mistakes the properties below would notice.        *)

BadStartTableLate ==
  << "terminal_initialize", "serial_init", "video_initialize", "sse",
     "gdt_init", "exceptions_init", "irq_init", "idt_init", "keyboard_init",
     "gdt_set_kernel_stack", "terminal_clear", "sti" >>

(* _start: the initialisations in order, each run once. *)
Start ==
  << "terminal_initialize", "serial_init", "video_initialize", "sse",
     "gdt_init", "idt_init", "exceptions_init", "irq_init", "keyboard_init",
     "gdt_set_kernel_stack", "terminal_clear", "sti" >>

(* The writes that initialise both controllers and then set their masks. *)
RemapWrites(base1, base2, mask1, mask2) ==
  << <<"cmd1", 17>>, <<"cmd2", 17>>, <<"data1", base1>>, <<"data2", base2>>,
     <<"data1", 4>>, <<"data2", 2>>, <<"data1", 1>>, <<"data2", 1>>,
     <<"data1", mask1>>, <<"data2", mask2>> >>

BadRemapMask == RemapWrites(32, 40, 250, 255)

(* The port writes of pic_remap, in order. *)
pic_remap == RemapWrites(32, 40, 248, 255)

(* A handler is named by the table that registers it and its number. These *)
(* two halt. Of the other exceptions, that of vector 0 clears the screen   *)
(* (Console), and the rest are empty.                                      *)
df_handler == <<"exception", 8>>
mc_handler == <<"exception", 18>>

Init ==
  /\ boot = 1 /\ remap = 1
  /\ gdt = FALSE /\ idt = FALSE
  /\ handlers = << >>
  /\ iflag = FALSE
  /\ frames = << >>
  /\ halted = FALSE
  /\ obf \in BOOLEAN
  /\ pic1 = Handover(8, IF obf THEN {1} ELSE {})
  /\ pic2 = Handover(112, {})
  /\ early = FALSE
  /\ ran = FALSE

-----------------------------------------------------------------------------
(* The initialisations. *)

Starting(name) ==
  /\ ~halted
  /\ frames = << >>
  /\ boot <= Len(Start)
  /\ Start[boot] = name

(* Those that change nothing interrupts depend on. *)
OtherInit ==
  /\ \E name \in {"terminal_initialize", "serial_init", "video_initialize", "sse",
                  "keyboard_init", "gdt_set_kernel_stack", "terminal_clear"} :
       Starting(name)
  /\ boot' = boot + 1
  /\ UNCHANGED <<remap, tables, iflag, frames, halted, pic1, pic2, devices>>

(* No usable framebuffer: _start calls kms, which never returns. *)
kms ==
  /\ Starting("video_initialize")
  /\ halted' = TRUE
  /\ UNCHANGED <<boot, remap, tables, iflag, frames, pic1, pic2, devices>>

gdt_init ==
  /\ Starting("gdt_init")
  /\ gdt' = TRUE
  /\ boot' = boot + 1
  /\ UNCHANGED <<remap, idt, handlers, iflag, frames, halted, pic1, pic2, devices>>

(* Empties the table of handlers, then loads the gates. *)
idt_init ==
  /\ Starting("idt_init")
  /\ handlers' = << >>
  /\ idt' = TRUE
  /\ boot' = boot + 1
  /\ UNCHANGED <<remap, gdt, iflag, frames, halted, pic1, pic2, devices>>

(* The table after idt_register_handler for these vectors, in order. *)
Registered(table, vectors, first) ==
  [v \in vectors \cup DOMAIN handlers |->
     IF v \in vectors THEN <<table, v - first>> ELSE handlers[v]]

exceptions_init ==
  /\ Starting("exceptions_init")
  /\ handlers' = Registered("exception", 0 .. 31, 0)
  /\ boot' = boot + 1
  /\ UNCHANGED <<remap, gdt, idt, iflag, frames, halted, pic1, pic2, devices>>

(* irq_init, first part: one port write of pic_remap. *)
RemapWrite ==
  /\ Starting("irq_init")
  /\ remap <= Len(pic_remap)
  /\ remap' = remap + 1
  /\ LET port == pic_remap[remap][1]
         byte == pic_remap[remap][2]
     IN /\ pic1' = CASE port = "cmd1"  -> WriteCommand(pic1, byte)
                     [] port = "data1" -> WriteData(pic1, byte)
                     [] OTHER          -> pic1
        /\ pic2' = CASE port = "cmd2"  -> WriteCommand(pic2, byte)
                     [] port = "data2" -> WriteData(pic2, byte)
                     [] OTHER          -> pic2
        /\ early' = (early \/ (port = "cmd1" /\ obf))
  /\ UNCHANGED <<boot, tables, iflag, frames, halted, obf, ran>>

BadRegisterIrqs ==
  /\ Starting("irq_init")
  /\ remap > Len(pic_remap)
  /\ handlers' = Registered("irq", 32 .. 48, 32)
  /\ boot' = boot + 1
  /\ UNCHANGED <<remap, gdt, idt, iflag, frames, halted, pic1, pic2, devices>>

(* irq_init, second part. *)
RegisterIrqs ==
  /\ Starting("irq_init")
  /\ remap > Len(pic_remap)
  /\ handlers' = Registered("irq", 32 .. 47, 32)
  /\ boot' = boot + 1
  /\ UNCHANGED <<remap, gdt, idt, iflag, frames, halted, pic1, pic2, devices>>

Sti ==
  /\ Starting("sti")
  /\ iflag' = TRUE
  /\ boot' = boot + 1
  /\ UNCHANGED <<remap, tables, frames, halted, pic1, pic2, devices>>

Initialise ==
  \/ OtherInit \/ kms \/ gdt_init \/ idt_init \/ exceptions_init
  \/ RemapWrite \/ RegisterIrqs \/ Sti

-----------------------------------------------------------------------------
(* Taking an interrupt. Every gate is an interrupt gate: the processor     *)
(* clears its interrupt flag, and iretq sets it again.                     *)

Ready == ~halted /\ Len(frames) < MaxDepth

(* kind: who interrupts; serves: the lines of pic1 this put in service;    *)
(* stage: where the frame's code is.                                       *)
Frame(vector, kind, serves) ==
  [vector |-> vector, kind |-> kind, serves |-> serves, stage |-> "dispatch"]

BadEnter(frame) == frames' = Append(frames, frame) /\ UNCHANGED iflag

Enter(frame) == frames' = Append(frames, frame) /\ iflag' = FALSE

(* The processor acknowledges the highest-priority request; for line 2 the *)
(* second controller supplies the vector.                                  *)
Interrupt ==
  /\ Ready
  /\ iflag
  /\ Requests(pic1) # {}
  /\ LET line   == Min(Requests(pic1))
         sub    == Min(Requests(pic2))
         second == line = 2 /\ Requests(pic2) # {}
     IN /\ pic1' = Acknowledge(pic1, line)
        /\ pic2' = IF second THEN Acknowledge(pic2, sub) ELSE pic2
        /\ Enter(IF line # 2 THEN Frame(pic1.base + line, "device", {line})
                 ELSE IF second THEN Frame(pic2.base + sub, "device", {2})
                 ELSE Frame(pic2.base + 7, "spurious", {2}))
  /\ UNCHANGED <<boot, remap, tables, halted, devices>>

(* Noise on a line that is low again at the acknowledgement: the           *)
(* controller supplies its vector 7 and puts nothing in service.           *)
Noise ==
  /\ Ready
  /\ iflag
  /\ pic1.icw = "ready"
  /\ Requests(pic1) = {}
  /\ Enter(Frame(pic1.base + 7, "spurious", {}))
  /\ UNCHANGED <<boot, remap, tables, halted, pic1, pic2, devices>>

(* The same between the controllers: line 2 is in service on pic1, and     *)
(* nothing is on pic2.                                                     *)
CascadeNoise ==
  /\ Ready
  /\ iflag
  /\ Requests(pic1) = {}
  /\ Requests(Edge(pic1, 2)) = {2}
  /\ pic1' = Acknowledge(pic1, 2)
  /\ Enter(Frame(pic2.base + 7, "spurious", {2}))
  /\ UNCHANGED <<boot, remap, tables, halted, pic2, devices>>

(* Any instruction may fault once the kernel's gates are loaded (before    *)
(* that, faults are the bootloader's). A non-maskable interrupt, vector 2, *)
(* and a machine check, vector 18, also end a hlt.                         *)
Raise ==
  /\ Len(frames) < MaxDepth
  /\ idt
  /\ \E v \in Exceptions :
       /\ halted => v \in {2, 18}
       /\ Enter(Frame(v, "exception", {}))
  /\ halted' = FALSE
  /\ UNCHANGED <<boot, remap, tables, pic1, pic2, devices>>

-----------------------------------------------------------------------------
(* The handlers. *)

Top == frames[Len(frames)]

At(stage) == ~halted /\ frames # << >> /\ Top.stage = stage

Goto(stage) == frames' = [frames EXCEPT ![Len(frames)].stage = stage]

(* After the handler, if there is one, a vector below 32 reaches the panic *)
(* message, and any other returns.                                         *)
AfterHandler(vector) == IF vector < 32 THEN "panic" ELSE "iret"

(* interrupt_dispatch calls the vector's handler, if any. The exception    *)
(* handlers do nothing here or halt; the interrupt handlers acknowledge.   *)
interrupt_dispatch ==
  /\ At("dispatch")
  /\ IF Top.vector \notin DOMAIN handlers
     THEN Goto(AfterHandler(Top.vector)) /\ UNCHANGED halted
     ELSE LET h == handlers[Top.vector]
          IN IF h \in {df_handler, mc_handler}
             THEN halted' = TRUE /\ UNCHANGED frames
             ELSE /\ CASE h[1] = "exception" -> Goto("panic")
                       [] h = <<"irq", 1>>   -> Goto("irq1")
                       [] OTHER              -> Goto("irq_eoi")
                  /\ UNCHANGED halted
  /\ UNCHANGED <<boot, remap, tables, iflag, pic1, pic2, devices>>

(* Any exception, with a handler or without, ends here. *)
Panic ==
  /\ At("panic")
  /\ halted' = TRUE
  /\ UNCHANGED <<boot, remap, tables, iflag, frames, pic1, pic2, devices>>

BadIrq1 ==
  /\ At("irq1")
  /\ Goto("irq_eoi")
  /\ UNCHANGED <<boot, remap, tables, iflag, halted, pic1, pic2, devices>>

(* irq1_keyboard reads the byte, which lowers the line, before it          *)
(* acknowledges: the next byte makes a new edge.                           *)
irq1_keyboard ==
  /\ At("irq1")
  /\ obf' = FALSE
  /\ Goto("irq_eoi")
  /\ UNCHANGED <<boot, remap, tables, iflag, halted, pic1, pic2, early, ran>>

BadEoiForgetsMaster ==
  /\ At("irq_eoi")
  /\ IF handlers[Top.vector][2] >= 8
     THEN pic2' = WriteCommand(pic2, 32) /\ Goto("iret") /\ UNCHANGED pic1
     ELSE Goto("eoi1") /\ UNCHANGED <<pic1, pic2>>
  /\ UNCHANGED <<boot, remap, tables, iflag, halted, devices>>

BadEoiForgetsTimer ==
  /\ At("irq_eoi")
  /\ IF handlers[Top.vector][2] = 0 THEN Goto("iret") ELSE Goto("eoi1")
  /\ UNCHANGED <<boot, remap, tables, iflag, halted, pic1, pic2, devices>>

(* irq_eoi notifies pic2 first if the handler is of its lines, ... *)
irq_eoi ==
  /\ At("irq_eoi")
  /\ pic2' = IF handlers[Top.vector][2] >= 8 THEN WriteCommand(pic2, 32) ELSE pic2
  /\ Goto("eoi1")
  /\ UNCHANGED <<boot, remap, tables, iflag, halted, pic1, devices>>

(* ... and always pic1. *)
EoiMaster ==
  /\ At("eoi1")
  /\ pic1' = WriteCommand(pic1, 32)
  /\ Goto("iret")
  /\ UNCHANGED <<boot, remap, tables, iflag, halted, pic2, devices>>

(* isr_common restores the registers and returns. *)
Iret ==
  /\ At("iret")
  /\ frames' = SubSeq(frames, 1, Len(frames) - 1)
  /\ iflag' = TRUE
  /\ UNCHANGED <<boot, remap, tables, halted, pic1, pic2, devices>>

Handle == interrupt_dispatch \/ Panic \/ irq1_keyboard \/ irq_eoi \/ EoiMaster \/ Iret

(* kernel_main runs an instruction, which a waiting interrupt would        *)
(* precede.                                                                *)
kernel_main ==
  /\ ~halted
  /\ frames = << >>
  /\ boot > Len(Start)
  /\ Requests(pic1) = {}
  /\ ran' = TRUE
  /\ UNCHANGED <<boot, remap, tables, iflag, frames, halted, pic1, pic2, obf, early>>

-----------------------------------------------------------------------------
(* The devices. *)

(* The timer's period is longer than the service of what is pending: it    *)
(* does not tick twice before kernel_main has run.                         *)
Tick ==
  /\ ran \/ boot <= Len(Start)
  /\ pic1' = Edge(pic1, 0)
  /\ ran' = FALSE
  /\ UNCHANGED <<boot, remap, tables, iflag, frames, halted, pic2, obf, early>>

(* The keyboard controller presents a byte; until it is read, the next     *)
(* bytes wait in the keyboard.                                             *)
KeyByte ==
  /\ ~obf
  /\ obf' = TRUE
  /\ pic1' = Edge(pic1, 1)
  /\ UNCHANGED <<boot, remap, tables, iflag, frames, halted, pic2, early, ran>>

(* A device of the second controller interrupts. *)
SlaveEdge ==
  /\ \E s \in SlaveLines : pic2' = Edge(pic2, s)
  /\ pic1' = IF Requests(pic2') = {} THEN pic1 ELSE Edge(pic1, 2)
  /\ UNCHANGED <<boot, remap, tables, iflag, frames, halted, devices>>

Processor == Initialise \/ Interrupt \/ Handle \/ kernel_main

Next ==
  \/ Processor
  \/ Noise \/ CascadeNoise \/ Raise
  \/ Tick \/ KeyByte \/ SlaveEdge

(* The processor always executes its next instruction or takes the         *)
(* interrupt that is due. Nothing is assumed of the devices.               *)
Spec == Init /\ [][Next]_vars /\ WF_vars(Processor)

-----------------------------------------------------------------------------
(* Properties. *)

Handlers == ({"exception"} \X (0 .. 31)) \cup ({"irq"} \X (0 .. 15))

Kinds == {"device", "spurious", "exception"}

Stages == {"dispatch", "irq1", "irq_eoi", "eoi1", "iret", "panic"}

Frames == [vector : 0 .. 255, kind : Kinds, serves : SUBSET Lines, stage : Stages]

(* Every variable has its type. *)
TypeOK ==
  /\ boot \in 1 .. Len(Start) + 1
  /\ remap \in 1 .. Len(pic_remap) + 1
  /\ gdt \in BOOLEAN /\ idt \in BOOLEAN
  /\ DOMAIN handlers \subseteq 0 .. 255
  /\ \A v \in DOMAIN handlers : handlers[v] \in Handlers
  /\ iflag \in BOOLEAN /\ halted \in BOOLEAN
  /\ frames \in Seq(Frames) /\ Len(frames) <= MaxDepth
  /\ pic1 \in Controllers /\ pic2 \in Controllers
  /\ obf \in BOOLEAN /\ early \in BOOLEAN /\ ran \in BOOLEAN

IsException(frame) == frame.kind = "exception"

(* Interrupts are enabled only when everything they need is set up (irq.c: *)
(* pic_remap must be done before enabling interrupts): every interrupt of  *)
(* a device comes through the kernel's gates and the segment they name,    *)
(* never on a vector of an exception, and finds its own handler in the     *)
(* table. So none stops the kernel or is dropped without acknowledgement.  *)
HandlerInstalled ==
  \A i \in 1 .. Len(frames) :
    LET frame == frames[i]
    IN frame.stage = "dispatch" /\ ~IsException(frame) =>
         /\ gdt /\ idt
         /\ frame.vector \in DOMAIN handlers
         /\ handlers[frame.vector] = <<"irq", frame.vector - 32>>

(* When no handler runs, nothing is left in service on either controller:  *)
(* no acknowledgement was lost, so no line is blocked (irq.c: or the PIC   *)
(* will stop sending further interrupts on that line).                     *)
NothingLeftInService == frames = << >> => pic1.isr = {} /\ pic2.isr = {}

(* Handlers of devices do not interrupt each other. *)
HandlersDoNotNest ==
  \A i, j \in 1 .. Len(frames) :
    ~IsException(frames[i]) /\ ~IsException(frames[j]) => i = j

(* An acknowledgement ends the service of the handler's own line only. It  *)
(* is non-specific, and spurious interrupts are acknowledged too, so this  *)
(* rests on handlers not nesting.                                          *)
OwnAcknowledge ==
  [][pic1.isr \ pic1'.isr \subseteq
       (IF frames = << >> THEN {} ELSE Top.serves)]_vars

(* Once interrupts are on, a byte in the keyboard controller is either     *)
(* announced by a latched edge or about to be read. Otherwise nothing      *)
(* would ever read it and the keyboard would be dead. The one exception is *)
(* a byte older than pic_remap, whose edge the initialisation forgets.     *)
KeyboardNotStuck ==
  iflag /\ obf => 1 \in pic1.irr \/ early

(* A byte in the keyboard controller is read, unless it is older than      *)
(* pic_remap or the kernel halts.                                          *)
KeyServed == (obf /\ ~early) ~> (~obf \/ early \/ halted)

(* A request of the timer or the keyboard is taken, unless the kernel      *)
(* halts.                                                                  *)
RequestServed ==
  \A line \in {0, 1} : (line \in pic1.irr) ~> (line \notin pic1.irr \/ halted)

(* What the comments of the source say and the code does not do.           *)

(* irq.c says of a spurious IRQ7 that it must not be acknowledged: the     *)
(* master is told only of lines that are in service.                       *)
SpuriousNotAcknowledged ==
  [][At("eoi1") /\ EoiMaster => Top.serves # {}]_vars

(* irq.c says of a spurious IRQ15 that only the master is told.            *)
SpuriousToMasterOnly ==
  [][At("irq_eoi") /\ irq_eoi /\ Top.kind = "spurious" =>
       handlers[Top.vector][2] < 8]_vars

(* exceptions.c says that a coprocessor segment overrun, vector 9, is safe *)
(* to ignore: once its handler, which is empty, is registered, no such     *)
(* interrupt stops the kernel.                                             *)
OverrunIgnored ==
  /\ frames # << >> /\ Top.vector = 9
  /\ 9 \in DOMAIN handlers /\ handlers[9] = <<"exception", 9>>
  => ~halted
=============================================================================
