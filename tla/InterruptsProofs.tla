-------------------------- MODULE InterruptsProofs ---------------------------
(***************************************************************************)
(* Proofs about interrupts, for every set of exceptions and of devices,    *)
(* and for any depth of nested interrupts.                                 *)
(***************************************************************************)
EXTENDS Interrupts, TLAPS

-----------------------------------------------------------------------------
(* The inductive invariant. *)

(* Interrupts are on exactly while kernel_main runs: handlers and          *)
(* exceptions run with them off, and only the handler of a device returns. *)
FlagInv == iflag <=> boot > 12 /\ frames = << >>

(* A vector that has a handler has its own.                                *)
TablesInv ==
  /\ DOMAIN handlers \subseteq 0 .. 47
  /\ \A v \in DOMAIN handlers :
       handlers[v] = IF v < 32 THEN <<"exception", v>> ELSE <<"irq", v - 32>>
  /\ boot > 5 => gdt = TRUE
  /\ boot > 6 => idt = TRUE
  /\ boot > 8 => 32 .. 47 \subseteq DOMAIN handlers

(* How far pic_remap has come with each controller.                        *)
PicsInv ==
  /\ boot < 8 => remap = 1
  /\ boot > 8 => remap = 11
  /\ remap \in {2, 3} => pic1.icw = "icw2"
  /\ remap \in {4, 5} => pic1.icw = "icw3"
  /\ remap \in {6, 7} => pic1.icw = "icw4"
  /\ remap \in 8 .. 11 => pic1.icw = "ready"
  /\ remap \in {3, 4} => pic2.icw = "icw2"
  /\ remap \in {5, 6} => pic2.icw = "icw3"
  /\ remap \in {7, 8} => pic2.icw = "icw4"
  /\ remap \in 9 .. 11 => pic2.icw = "ready"
  /\ remap > 3 => pic1.base = 32
  /\ remap > 4 => pic2.base = 40

(* An exception never returns, and a device is always at the bottom.       *)
FrameInv(i) ==
  LET frame == frames[i]
  IN IF IsException(frame)
     THEN frame.vector < 32 /\ frame.serves = {} /\ frame.stage \in {"dispatch", "panic"}
     ELSE /\ i = 1 /\ boot > 12
          /\ frame.vector \in 32 .. 47
          /\ frame.stage # "panic"
          /\ frame.stage = "irq1" => frame.vector = 33
          /\ frame.serves = {} \/ \E line \in Lines : frame.serves = {line}

FramesInv == \A i \in 1 .. Len(frames) : FrameInv(i)

(* What is in service belongs to the handler at the bottom.                *)
ServiceInv ==
  IF frames = << >> \/ IsException(frames[1])
  THEN pic1.isr = {} /\ pic2.isr = {}
  ELSE /\ pic1.isr = IF frames[1].stage = "iret" THEN {} ELSE frames[1].serves
       /\ \/ pic2.isr = {}
          \/ /\ frames[1].vector >= 40 /\ frames[1].stage \in {"dispatch", "irq_eoi"}
             /\ \E line \in Lines : pic2.isr = {line}

(* A byte is announced, older than pic_remap, or about to be read.         *)
KeyInv ==
  obf =>
    \/ 1 \in pic1.irr \/ early
    \/ /\ frames # << >> /\ frames[1].vector = 33
       /\ frames[1].stage \in {"dispatch", "irq1"}

Inv == TypeOK /\ FlagInv /\ TablesInv /\ PicsInv /\ FramesInv /\ ServiceInv /\ KeyInv

-----------------------------------------------------------------------------
(* The controllers. *)

(* Min of a set of lines is its least member.                              *)
LEMMA MinOf ==
  ASSUME NEW S \in SUBSET Lines, S # {}
  PROVE  Min(S) \in S /\ \A y \in S : Min(S) <= y
  <1>1. \E x \in S : \A y \in S : x <= y
    <2>1. CASE 0 \in S
      BY <2>1 DEF Lines
    <2>2. CASE 0 \notin S /\ 1 \in S
      BY <2>2 DEF Lines
    <2>3. CASE 0 \notin S /\ 1 \notin S /\ 2 \in S
      BY <2>3 DEF Lines
    <2>4. CASE 0 \notin S /\ 1 \notin S /\ 2 \notin S /\ 3 \in S
      BY <2>4 DEF Lines
    <2>5. CASE \A i \in 0 .. 3 : i \notin S
      <3>1. CASE 4 \in S
        BY <2>5, <3>1 DEF Lines
      <3>2. CASE 4 \notin S /\ 5 \in S
        BY <2>5, <3>2 DEF Lines
      <3>3. CASE 4 \notin S /\ 5 \notin S /\ 6 \in S
        BY <2>5, <3>3 DEF Lines
      <3>4. CASE 4 \notin S /\ 5 \notin S /\ 6 \notin S
        <4>1. \A y \in S : y = 7
          BY <2>5, <3>4 DEF Lines
        <4> QED BY <4>1
      <3> QED BY <3>1, <3>2, <3>3, <3>4
    <2> QED BY <2>1, <2>2, <2>3, <2>4, <2>5
  <1> QED BY <1>1 DEF Min

(* ICW1 and the end of an interrupt are told apart by bit 4.               *)
LEMMA CommandBits == 4 \in Bits(17) /\ 4 \notin Bits(32)
  BY DEF Bits, Lines, Weights

(* An edge only adds a request.                                            *)
LEMMA EdgeOf ==
  ASSUME NEW pic \in Controllers, NEW line \in Lines
  PROVE  /\ Edge(pic, line) \in Controllers
         /\ Edge(pic, line).icw = pic.icw
         /\ Edge(pic, line).base = pic.base
         /\ Edge(pic, line).isr = pic.isr
         /\ Edge(pic, line).irr = pic.irr \cup {line}
  BY DEF Edge, Controllers

(* Requests are lines.                                                     *)
LEMMA RequestsOf ==
  ASSUME NEW pic \in Controllers
  PROVE  Requests(pic) \in SUBSET Lines
  BY DEF Requests, Controllers

(* A request that is taken moves from one register to the other.           *)
LEMMA AcknowledgeOf ==
  ASSUME NEW pic \in Controllers, NEW line \in Lines
  PROVE  /\ Acknowledge(pic, line) \in Controllers
         /\ Acknowledge(pic, line).icw = pic.icw
         /\ Acknowledge(pic, line).base = pic.base
         /\ Acknowledge(pic, line).isr = pic.isr \cup {line}
         /\ Acknowledge(pic, line).irr = pic.irr \ {line}
  BY DEF Acknowledge, Controllers

(* ICW1.                                                                   *)
LEMMA InitialiseOf ==
  ASSUME NEW pic \in Controllers
  PROVE  /\ WriteCommand(pic, 17) \in Controllers
         /\ WriteCommand(pic, 17).icw = "icw2"
         /\ WriteCommand(pic, 17).isr = {}
         /\ WriteCommand(pic, 17).base = pic.base
  BY CommandBits DEF WriteCommand, Controllers

(* The end of an interrupt, with at most one line in service.              *)
LEMMA EndOf ==
  ASSUME NEW pic \in Controllers
  PROVE  /\ WriteCommand(pic, 32) \in Controllers
         /\ WriteCommand(pic, 32).icw = pic.icw
         /\ WriteCommand(pic, 32).base = pic.base
         /\ WriteCommand(pic, 32).irr = pic.irr
         /\ WriteCommand(pic, 32).isr \in SUBSET pic.isr
         /\ pic.isr = {} \/ (\E line \in Lines : pic.isr = {line})
              => WriteCommand(pic, 32).isr = {}
  <1>1. WriteCommand(pic, 32) = [pic EXCEPT !.isr = IF @ = {} THEN @ ELSE @ \ {Min(@)}]
    BY CommandBits DEF WriteCommand
  <1>2. pic.isr # {} => Min(pic.isr) \in pic.isr
    BY MinOf DEF Controllers
  <1> QED BY <1>1, <1>2 DEF Controllers

(* The words of the initialisation, then the mask.                         *)
LEMMA DataOf ==
  ASSUME NEW pic \in Controllers, NEW byte \in 0 .. 255
  PROVE  /\ WriteData(pic, byte) \in Controllers
         /\ WriteData(pic, byte).isr = pic.isr
         /\ WriteData(pic, byte).irr = pic.irr
         /\ WriteData(pic, byte).icw = CASE pic.icw = "icw2" -> "icw3"
                                         [] pic.icw = "icw3" -> "icw4"
                                         [] OTHER            -> "ready"
         /\ WriteData(pic, byte).base = IF pic.icw = "icw2" THEN byte - (byte % 8)
                                                            ELSE pic.base
  <1>1. byte - (byte % 8) \in 0 .. 248
    OBVIOUS
  <1>2. Bits(byte) \in SUBSET Lines
    BY DEF Bits
  <1> QED BY <1>1, <1>2 DEF WriteData, Controllers

-----------------------------------------------------------------------------
(* Where _start and pic_remap are. *)

(* _start has twelve initialisations and pic_remap ten writes.             *)
LEMMA Lengths == Len(Start) = 12 /\ Len(pic_remap) = 10
  BY DEF Start, pic_remap, RemapWrites

(* Where _start is when an initialisation with a step of its own runs.     *)
LEMMA Turn ==
  ASSUME TypeOK
  PROVE  /\ \A name \in STRING : Starting(name) => boot \in 1 .. 12 /\ frames = << >>
         /\ Starting("gdt_init") => boot = 5
         /\ Starting("idt_init") => boot = 6
         /\ Starting("exceptions_init") => boot = 7
         /\ Starting("irq_init") => boot = 8
         /\ Starting("sti") => boot = 12
         /\ boot \in 1 .. 13 /\ remap \in 1 .. 11
  <1>1. boot \in 1 .. 13 /\ remap \in 1 .. 11
    BY Lengths DEF TypeOK
  <1> QED BY <1>1, Lengths DEF Starting, Start

-----------------------------------------------------------------------------
(* Frames. *)

(* Entering puts a frame on top and leaves the others.                     *)
LEMMA EnterFrames ==
  ASSUME frames \in Seq(Frames), NEW frame \in Frames, Enter(frame)
  PROVE  /\ frames' \in Seq(Frames)
         /\ Len(frames') = Len(frames) + 1
         /\ frames' # << >>
         /\ frames'[Len(frames')] = frame
         /\ \A i \in 1 .. Len(frames) : frames'[i] = frames[i]
         /\ iflag' = FALSE
  BY DEF Enter

(* Going to a stage changes the frame on top only.                         *)
LEMMA GotoFrames ==
  ASSUME frames \in Seq(Frames), frames # << >>, NEW stage \in Stages, Goto(stage)
  PROVE  /\ frames' \in Seq(Frames)
         /\ Len(frames') = Len(frames)
         /\ frames' # << >>
         /\ frames'[Len(frames)] = [Top EXCEPT !.stage = stage]
         /\ \A i \in 1 .. Len(frames) - 1 : frames'[i] = frames[i]
  <1>1. Len(frames) \in 1 .. Len(frames) /\ Top \in Frames
    BY DEF Top
  <1>2. [Top EXCEPT !.stage = stage] \in Frames
    BY <1>1 DEF Frames
  <1>3. frames' = [frames EXCEPT ![Len(frames)] = [Top EXCEPT !.stage = stage]]
    BY DEF Goto, Top
  <1> QED BY <1>1, <1>2, <1>3

(* A stack that is not empty has a frame at the bottom.                    *)
LEMMA Bottom ==
  ASSUME frames \in Seq(Frames), frames # << >>
  PROVE  /\ 1 \in 1 .. Len(frames) /\ frames[1] \in Frames
         /\ Len(frames) = 1 \/ Len(frames) > 1
  <1>1. Len(frames) \in Nat /\ Len(frames) # 0
    OBVIOUS
  <1>2. 1 \in 1 .. Len(frames)
    BY <1>1
  <1>3. \A i \in 1 .. Len(frames) : frames[i] \in Frames
    OBVIOUS
  <1>4. frames[1] \in Frames
    BY <1>2, <1>3
  <1>5. Len(frames) = 1 \/ Len(frames) > 1
    <2>1. \A n \in Nat : n # 0 => n = 1 \/ n > 1
      OBVIOUS
    <2> QED BY <1>1, <2>1
  <1> QED BY <1>2, <1>4, <1>5

(* The frame on top is at the bottom, if it is a device's, and its handler *)
(* is installed.                                                           *)
LEMMA DeviceOnTop ==
  ASSUME Inv, frames # << >>, ~IsException(Top)
  PROVE  /\ Len(frames) = 1 /\ Top = frames[1] /\ Top \in Frames
         /\ boot = 13 /\ remap = 11
         /\ Top.vector \in 32 .. 47
         /\ Top.vector \in DOMAIN handlers
         /\ handlers[Top.vector] = <<"irq", Top.vector - 32>>
         /\ FrameInv(1)
  <1>1. Len(frames) \in 1 .. Len(frames) /\ Top \in Frames
    BY DEF Inv, TypeOK, Top
  <1>2. FrameInv(Len(frames))
    BY <1>1 DEF Inv, FramesInv
  <1>3. Len(frames) = 1 /\ boot > 12 /\ Top.vector \in 32 .. 47
    BY <1>1, <1>2 DEF FrameInv, Top
  <1>4. boot = 13 /\ remap = 11
    BY <1>3, Turn DEF Inv, PicsInv
  <1>5. Top.vector \in DOMAIN handlers
    <2>1. 32 .. 47 \subseteq DOMAIN handlers
      BY <1>4 DEF Inv, TablesInv
    <2> QED BY <1>3, <2>1
  <1>6. handlers[Top.vector] = <<"irq", Top.vector - 32>>
    BY <1>3, <1>5 DEF Inv, TablesInv
  <1> QED BY <1>1, <1>2, <1>3, <1>4, <1>5, <1>6 DEF Top

(* A frame on top that is neither dispatched nor in a panic is a device's. *)
LEMMA InHandler ==
  ASSUME Inv, NEW stage \in {"irq1", "irq_eoi", "eoi1", "iret"}, At(stage)
  PROVE  frames # << >> /\ ~IsException(Top) /\ Top.stage = stage
  <1>1. frames # << >> /\ Top.stage = stage /\ Len(frames) \in 1 .. Len(frames)
    BY DEF Inv, TypeOK, At
  <1>2. FrameInv(Len(frames))
    BY <1>1 DEF Inv, FramesInv
  <1> QED BY <1>1, <1>2 DEF FrameInv, Top

-----------------------------------------------------------------------------
(* Init => Inv. *)

(* The kernel starts in the invariant.                                     *)
LEMMA InitInv == Init => Inv
  <1> SUFFICES ASSUME Init PROVE Inv
    OBVIOUS
  <1>1. Handover(8, IF obf THEN {1} ELSE {}) \in Controllers /\ Handover(112, {}) \in Controllers
    BY DEF Handover, Controllers, Lines, Init
  <1>3. TypeOK
    <2>1. DOMAIN << >> = {}
      OBVIOUS
    <2>2. << >> \in Seq(Frames) /\ Len(<< >>) <= MaxDepth
      BY ConstantsAssumption
    <2>3. DOMAIN handlers \subseteq 0 .. 255 /\ \A v \in DOMAIN handlers : handlers[v] \in Handlers
      BY <2>1 DEF Init
    <2>4. boot \in 1 .. Len(Start) + 1 /\ remap \in 1 .. Len(pic_remap) + 1
      BY Lengths DEF Init
    <2>5. frames \in Seq(Frames) /\ Len(frames) <= MaxDepth
      BY <2>2 DEF Init
    <2> QED BY <1>1, <2>3, <2>4, <2>5 DEF Init, TypeOK
  <1>4. FlagInv /\ TablesInv /\ PicsInv
    BY <1>1 DEF Init, FlagInv, TablesInv, PicsInv
  <1>5. FramesInv /\ ServiceInv /\ KeyInv
    BY DEF Init, FramesInv, ServiceInv, KeyInv, Handover
  <1> QED BY <1>3, <1>4, <1>5 DEF Inv

-----------------------------------------------------------------------------
(* The initialisations. *)

(* The initialisations that change nothing but their turn.                 *)
LEMMA OtherInitInv ==
  ASSUME Inv, OtherInit
  PROVE  Inv'
  <1>1. /\ frames = << >> /\ boot' = boot + 1 /\ boot \in 1 .. 12 /\ boot \notin {5, 6, 7, 8, 12}
        /\ UNCHANGED <<remap, gdt, idt, handlers, iflag, frames, halted, pic1, pic2,
                       obf, early, ran>>
    BY Turn, Lengths DEF Inv, OtherInit, Starting, Start, tables, devices
  <1>3. TypeOK'
    <2>1. boot' \in 1 .. Len(Start) + 1
      BY <1>1, Lengths
    <2>2. DOMAIN handlers' \subseteq 0 .. 255 /\ \A v \in DOMAIN handlers' : handlers'[v] \in Handlers
      BY <1>1 DEF Inv, TypeOK
    <2> QED BY <1>1, <2>1, <2>2 DEF Inv, TypeOK
  <1>4. FlagInv' /\ PicsInv'
    BY <1>1, Turn DEF Inv, FlagInv, PicsInv
  <1>5. TablesInv'
    <2>1. (boot' > 5 => gdt' = TRUE) /\ (boot' > 6 => idt' = TRUE)
      BY <1>1 DEF Inv, TablesInv
    <2>2. boot' > 8 => 32 .. 47 \subseteq DOMAIN handlers'
      BY <1>1 DEF Inv, TablesInv
    <2>3. \A v \in DOMAIN handlers' :
            handlers'[v] = IF v < 32 THEN <<"exception", v>> ELSE <<"irq", v - 32>>
      BY <1>1 DEF Inv, TablesInv
    <2> QED BY <1>1, <2>1, <2>2, <2>3 DEF Inv, TablesInv
  <1>6. FramesInv' /\ ServiceInv' /\ KeyInv'
    BY <1>1 DEF Inv, FramesInv, ServiceInv, KeyInv
  <1> QED BY <1>3, <1>4, <1>5, <1>6 DEF Inv

(* What the steps that follow the initialisations, and kms, leave alone.   *)
LEMMA Kept ==
  ASSUME Inv, UNCHANGED <<boot, remap, tables>>,
         iflag' \in BOOLEAN, halted' \in BOOLEAN,
         frames' \in Seq(Frames), Len(frames') <= MaxDepth,
         pic1' \in Controllers, pic1'.icw = pic1.icw, pic1'.base = pic1.base,
         pic2' \in Controllers, pic2'.icw = pic2.icw, pic2'.base = pic2.base,
         obf' \in BOOLEAN, early' \in BOOLEAN, ran' \in BOOLEAN
  PROVE  TypeOK' /\ TablesInv' /\ PicsInv'
  <1>1. UNCHANGED <<boot, remap, gdt, idt, handlers>>
    BY DEF tables
  <1>2. TypeOK'
    <2>1. DOMAIN handlers' \subseteq 0 .. 255 /\ \A v \in DOMAIN handlers' : handlers'[v] \in Handlers
      BY <1>1 DEF Inv, TypeOK
    <2> QED BY <1>1, <2>1 DEF Inv, TypeOK
  <1>3. TablesInv'
    <2>1. (boot' > 5 => gdt' = TRUE) /\ (boot' > 6 => idt' = TRUE)
      BY <1>1 DEF Inv, TablesInv
    <2>2. boot' > 8 => 32 .. 47 \subseteq DOMAIN handlers'
      BY <1>1 DEF Inv, TablesInv
    <2>3. \A v \in DOMAIN handlers' :
            handlers'[v] = IF v < 32 THEN <<"exception", v>> ELSE <<"irq", v - 32>>
      BY <1>1 DEF Inv, TablesInv
    <2> QED BY <1>1, <2>1, <2>2, <2>3 DEF Inv, TablesInv
  <1>4. PicsInv'
    BY <1>1 DEF Inv, PicsInv
  <1> QED BY <1>2, <1>3, <1>4

(* Without a framebuffer the kernel stops, which changes nothing else.     *)
LEMMA KmsInv ==
  ASSUME Inv, kms
  PROVE  Inv'
  <1>1. /\ UNCHANGED <<boot, remap, tables>>
        /\ UNCHANGED <<iflag, frames, pic1, pic2, obf, early, ran>>
        /\ halted' = TRUE
    BY DEF kms, devices
  <1>2. TypeOK' /\ TablesInv' /\ PicsInv'
    BY <1>1, Kept DEF Inv, TypeOK
  <1>3. FlagInv' /\ ServiceInv' /\ KeyInv'
    BY <1>1 DEF Inv, FlagInv, ServiceInv, KeyInv, IsException
  <1>4. FramesInv'
    BY <1>1 DEF Inv, FramesInv, FrameInv
  <1> QED BY <1>2, <1>3, <1>4 DEF Inv

(* gdt_init comes fifth.                                                   *)
LEMMA GdtInitInv ==
  ASSUME Inv, gdt_init
  PROVE  Inv'
  <1>1. /\ boot = 5 /\ boot' = 6 /\ frames = << >> /\ gdt' = TRUE
        /\ UNCHANGED <<remap, idt, handlers, iflag, frames, halted, pic1, pic2, obf, early, ran>>
    BY Turn DEF Inv, gdt_init, devices, Starting
  <1>2. TypeOK'
    <2>1. boot' \in 1 .. Len(Start) + 1
      BY <1>1, Lengths
    <2>2. DOMAIN handlers' \subseteq 0 .. 255 /\ \A v \in DOMAIN handlers' : handlers'[v] \in Handlers
      BY <1>1 DEF Inv, TypeOK
    <2> QED BY <1>1, <2>1, <2>2 DEF Inv, TypeOK
  <1>3. TablesInv'
    <2>1. \A v \in DOMAIN handlers' :
            handlers'[v] = IF v < 32 THEN <<"exception", v>> ELSE <<"irq", v - 32>>
      BY <1>1 DEF Inv, TablesInv
    <2> QED BY <1>1, <2>1 DEF Inv, TablesInv
  <1>4. FlagInv' /\ PicsInv'
    BY <1>1 DEF Inv, FlagInv, PicsInv
  <1>5. FramesInv' /\ ServiceInv' /\ KeyInv'
    BY <1>1 DEF Inv, FramesInv, ServiceInv, KeyInv
  <1> QED BY <1>2, <1>3, <1>4, <1>5 DEF Inv

(* idt_init comes sixth, before any handler is registered.                 *)
LEMMA IdtInitInv ==
  ASSUME Inv, idt_init
  PROVE  Inv'
  <1>1. /\ boot = 6 /\ boot' = 7 /\ frames = << >> /\ idt' = TRUE /\ handlers' = << >>
        /\ UNCHANGED <<remap, gdt, iflag, frames, halted, pic1, pic2, obf, early, ran>>
    BY Turn DEF Inv, idt_init, devices, Starting
  <1>2. DOMAIN handlers' = {}
    BY <1>1
  <1>3. TypeOK'
    <2>1. boot' \in 1 .. Len(Start) + 1
      BY <1>1, Lengths
    <2> QED BY <1>1, <1>2, <2>1 DEF Inv, TypeOK
  <1>4. TablesInv'
    <2>1. gdt' = TRUE
      BY <1>1 DEF Inv, TablesInv
    <2> QED BY <1>1, <1>2, <2>1 DEF Inv, TablesInv
  <1>5. FlagInv' /\ PicsInv'
    BY <1>1 DEF Inv, FlagInv, PicsInv
  <1>6. FramesInv' /\ ServiceInv' /\ KeyInv'
    BY <1>1 DEF Inv, FramesInv, ServiceInv, KeyInv
  <1> QED BY <1>3, <1>4, <1>5, <1>6 DEF Inv

(* The handlers of the exceptions, and later those of the devices.         *)
LEMMA RegisterInv ==
  ASSUME Inv, exceptions_init \/ RegisterIrqs
  PROVE  Inv'
  <1>1. /\ boot \in {7, 8} /\ boot' = boot + 1 /\ frames = << >>
        /\ boot = 8 => remap = 11
        /\ handlers' = IF boot = 7 THEN Registered("exception", 0 .. 31, 0)
                                   ELSE Registered("irq", 32 .. 47, 32)
        /\ UNCHANGED <<remap, gdt, idt, iflag, frames, halted, pic1, pic2, obf, early, ran>>
    <2>1. CASE exceptions_init
      BY <2>1, Turn DEF Inv, exceptions_init, devices, Starting
    <2>2. CASE RegisterIrqs
      <3>1. boot = 8 /\ frames = << >>
        BY <2>2, Turn DEF Inv, RegisterIrqs, Starting
      <3>2. remap = 11
        BY <2>2, Turn, Lengths DEF Inv, RegisterIrqs
      <3> QED BY <2>2, <3>1, <3>2 DEF RegisterIrqs, devices
    <2> QED BY <2>1, <2>2
  <1>2. /\ DOMAIN handlers' = (IF boot = 7 THEN 0 .. 31 ELSE 32 .. 47) \cup DOMAIN handlers
        /\ \A v \in DOMAIN handlers' :
             handlers'[v] = IF v < 32 THEN <<"exception", v>> ELSE <<"irq", v - 32>>
    <2>1. /\ DOMAIN handlers \subseteq 0 .. 47
          /\ \A v \in DOMAIN handlers :
               handlers[v] = IF v < 32 THEN <<"exception", v>> ELSE <<"irq", v - 32>>
      BY DEF Inv, TablesInv
    <2>2. CASE boot = 7
      <3>1. handlers' = [v \in 0 .. 31 \cup DOMAIN handlers |->
                           IF v \in 0 .. 31 THEN <<"exception", v>> ELSE handlers[v]]
        BY <1>1, <2>2 DEF Registered
      <3> QED BY <2>1, <2>2, <3>1
    <2>3. CASE boot = 8
      <3>1. handlers' = [v \in 32 .. 47 \cup DOMAIN handlers |->
                           IF v \in 32 .. 47 THEN <<"irq", v - 32>> ELSE handlers[v]]
        BY <1>1, <2>3 DEF Registered
      <3>2. DOMAIN handlers' = 32 .. 47 \cup DOMAIN handlers
        BY <3>1
      <3>3. ASSUME NEW v \in DOMAIN handlers'
            PROVE  handlers'[v] = IF v < 32 THEN <<"exception", v>> ELSE <<"irq", v - 32>>
        BY <2>1, <3>1, <3>2
      <3> QED BY <2>3, <3>2, <3>3
    <2> QED BY <1>1, <2>2, <2>3
  <1>3. DOMAIN handlers' \subseteq 0 .. 47 /\ (boot' > 8 => 32 .. 47 \subseteq DOMAIN handlers')
    <2>1. DOMAIN handlers \subseteq 0 .. 47
      BY DEF Inv, TablesInv
    <2>2. boot' > 8 => boot # 7
      BY <1>1
    <2> QED BY <1>2, <2>1, <2>2
  <1>4. TypeOK'
    <2>1. boot' \in 1 .. Len(Start) + 1
      BY <1>1, Lengths
    <2>2. \A v \in DOMAIN handlers' : handlers'[v] \in Handlers
      <3> SUFFICES ASSUME NEW v \in DOMAIN handlers' PROVE handlers'[v] \in Handlers
        OBVIOUS
      <3>1. v \in 0 .. 47
        BY <1>3
      <3>2. handlers'[v] = IF v < 32 THEN <<"exception", v>> ELSE <<"irq", v - 32>>
        BY <1>2
      <3> QED BY <3>1, <3>2 DEF Handlers
    <2>3. DOMAIN handlers' \subseteq 0 .. 255
      BY <1>3
    <2> QED BY <1>1, <2>1, <2>2, <2>3 DEF Inv, TypeOK
  <1>5. TablesInv'
    <2>1. gdt' = TRUE /\ idt' = TRUE
      BY <1>1 DEF Inv, TablesInv
    <2> QED BY <1>2, <1>3, <2>1 DEF TablesInv
  <1>6. FlagInv' /\ PicsInv'
    BY <1>1 DEF Inv, FlagInv, PicsInv
  <1>7. FramesInv' /\ ServiceInv' /\ KeyInv'
    BY <1>1 DEF Inv, FramesInv, ServiceInv, KeyInv
  <1> QED BY <1>4, <1>5, <1>6, <1>7 DEF Inv

(* Interrupts are enabled last, when every handler is registered and both  *)
(* controllers are ready.                                                  *)
LEMMA StiInv ==
  ASSUME Inv, Sti
  PROVE  Inv'
  <1>1. /\ boot = 12 /\ boot' = 13 /\ frames = << >> /\ iflag' = TRUE
        /\ UNCHANGED <<remap, gdt, idt, handlers, frames, halted, pic1, pic2, obf, early, ran>>
    BY Turn DEF Inv, Sti, devices, tables, Starting
  <1>2. TypeOK'
    <2>1. boot' \in 1 .. Len(Start) + 1
      BY <1>1, Lengths
    <2>2. DOMAIN handlers' \subseteq 0 .. 255 /\ \A v \in DOMAIN handlers' : handlers'[v] \in Handlers
      BY <1>1 DEF Inv, TypeOK
    <2> QED BY <1>1, <2>1, <2>2 DEF Inv, TypeOK
  <1>3. TablesInv'
    <2>1. \A v \in DOMAIN handlers' :
            handlers'[v] = IF v < 32 THEN <<"exception", v>> ELSE <<"irq", v - 32>>
      BY <1>1 DEF Inv, TablesInv
    <2>2. gdt' = TRUE /\ idt' = TRUE
      BY <1>1 DEF Inv, TablesInv
    <2> QED BY <1>1, <2>1, <2>2 DEF Inv, TablesInv
  <1>4. FlagInv' /\ PicsInv'
    BY <1>1 DEF Inv, FlagInv, PicsInv
  <1>5. FramesInv' /\ ServiceInv' /\ KeyInv'
    BY <1>1 DEF Inv, FramesInv, ServiceInv, KeyInv
  <1> QED BY <1>2, <1>3, <1>4, <1>5 DEF Inv

(* Each write of pic_remap meets the controllers in the state it is meant  *)
(* for.                                                                    *)
LEMMA RemapWriteInv ==
  ASSUME Inv, RemapWrite
  PROVE  Inv'
  <1> DEFINE port == pic_remap[remap][1]
             byte == pic_remap[remap][2]
  <1>1. /\ boot = 8 /\ remap \in 1 .. 10 /\ frames = << >>
        /\ remap' = remap + 1
        /\ UNCHANGED <<boot, gdt, idt, handlers, iflag, frames, halted, obf, ran>>
    BY Turn, Lengths DEF Inv, RemapWrite, Starting, tables
  <1>2. /\ pic1 \in Controllers /\ pic2 \in Controllers
        /\ pic1.isr = {} /\ pic2.isr = {}
    BY <1>1 DEF Inv, TypeOK, ServiceInv
  <1>3. /\ pic1' = CASE port = "cmd1"  -> WriteCommand(pic1, byte)
                     [] port = "data1" -> WriteData(pic1, byte)
                     [] OTHER          -> pic1
        /\ pic2' = CASE port = "cmd2"  -> WriteCommand(pic2, byte)
                     [] port = "data2" -> WriteData(pic2, byte)
                     [] OTHER          -> pic2
        /\ early' = (early \/ (port = "cmd1" /\ obf))
    BY DEF RemapWrite
  <1>4. /\ early' \in BOOLEAN
        /\ pic1' \in Controllers /\ pic2' \in Controllers
        /\ pic1'.isr = {} /\ pic2'.isr = {}
        /\ (obf => 1 \in pic1.irr \/ early) => (obf => 1 \in pic1'.irr \/ early')
        /\ PicsInv'
    <2>0. PicsInv /\ early \in BOOLEAN /\ obf \in BOOLEAN
      BY DEF Inv, TypeOK
    <2>1. CASE remap = 1
      <3>1. port = "cmd1" /\ byte = 17
        BY <2>1 DEF pic_remap, RemapWrites
      <3>2. pic1' = WriteCommand(pic1, 17) /\ pic2' = pic2 /\ early' = (early \/ obf)
        BY <1>3, <3>1
      <3> QED BY <1>1, <1>2, <2>0, <2>1, <3>2, InitialiseOf DEF PicsInv
    <2>2. CASE remap = 2
      <3>1. port = "cmd2" /\ byte = 17
        BY <2>2 DEF pic_remap, RemapWrites
      <3>2. pic1' = pic1 /\ pic2' = WriteCommand(pic2, 17) /\ early' = early
        BY <1>3, <2>0, <3>1
      <3> QED BY <1>1, <1>2, <2>0, <2>2, <3>2, InitialiseOf DEF PicsInv
    <2>3. CASE remap \in {3, 5, 7, 9}
      <3>1. port = "data1" /\ byte \in 0 .. 255 /\ (remap = 3 => byte = 32)
        BY <2>3 DEF pic_remap, RemapWrites
      <3>2. pic1' = WriteData(pic1, byte) /\ pic2' = pic2 /\ early' = early
        BY <1>3, <2>0, <3>1
      <3> HIDE DEF byte
      <3>3. /\ pic1' \in Controllers /\ pic1'.isr = {} /\ pic1'.irr = pic1.irr
            /\ pic1'.icw = CASE pic1.icw = "icw2" -> "icw3"
                             [] pic1.icw = "icw3" -> "icw4"
                             [] OTHER             -> "ready"
            /\ pic1'.base = IF pic1.icw = "icw2" THEN byte - (byte % 8) ELSE pic1.base
        BY <1>2, <3>1, <3>2, DataOf, Zenon
      <3>4. PicsInv'
        BY <1>1, <2>0, <2>3, <3>1, <3>2, <3>3 DEF PicsInv
      <3> QED BY <1>2, <2>0, <3>2, <3>3, <3>4
    <2>4. CASE remap \in {4, 6, 8, 10}
      <3>1. port = "data2" /\ byte \in 0 .. 255 /\ (remap = 4 => byte = 40)
        BY <2>4 DEF pic_remap, RemapWrites
      <3>2. pic1' = pic1 /\ pic2' = WriteData(pic2, byte) /\ early' = early
        BY <1>3, <2>0, <3>1
      <3> HIDE DEF byte
      <3>3. /\ pic2' \in Controllers /\ pic2'.isr = {}
            /\ pic2'.icw = CASE pic2.icw = "icw2" -> "icw3"
                             [] pic2.icw = "icw3" -> "icw4"
                             [] OTHER             -> "ready"
            /\ pic2'.base = IF pic2.icw = "icw2" THEN byte - (byte % 8) ELSE pic2.base
        BY <1>2, <3>1, <3>2, DataOf, Zenon
      <3>4. PicsInv'
        BY <1>1, <2>0, <2>4, <3>1, <3>2, <3>3 DEF PicsInv
      <3> QED BY <1>2, <2>0, <3>2, <3>3, <3>4
    <2> QED BY <1>1, <2>1, <2>2, <2>3, <2>4
  <1>5. TypeOK'
    <2>1. remap' \in 1 .. Len(pic_remap) + 1
      BY <1>1, Lengths
    <2>2. DOMAIN handlers' \subseteq 0 .. 255 /\ \A v \in DOMAIN handlers' : handlers'[v] \in Handlers
      BY <1>1 DEF Inv, TypeOK
    <2> QED BY <1>1, <1>4, <2>1, <2>2 DEF Inv, TypeOK
  <1>6. TablesInv'
    <2>1. \A v \in DOMAIN handlers' :
            handlers'[v] = IF v < 32 THEN <<"exception", v>> ELSE <<"irq", v - 32>>
      BY <1>1 DEF Inv, TablesInv
    <2>2. gdt' = TRUE /\ idt' = TRUE
      BY <1>1 DEF Inv, TablesInv
    <2> QED BY <1>1, <2>1, <2>2 DEF Inv, TablesInv
  <1>7. FlagInv' /\ FramesInv'
    BY <1>1 DEF Inv, FlagInv, FramesInv
  <1>8. ServiceInv' /\ KeyInv'
    BY <1>1, <1>4 DEF Inv, ServiceInv, KeyInv
  <1> QED BY <1>4, <1>5, <1>6, <1>7, <1>8 DEF Inv

-----------------------------------------------------------------------------
(* Taking an interrupt. *)

(* kernel_main, alone, is interrupted by a device or by noise.             *)
LEMMA DeviceEnters ==
  ASSUME Inv, iflag, Ready, NEW frame \in Frames, Enter(frame),
         ~IsException(frame), frame.stage = "dispatch", frame.vector \in 32 .. 47,
         frame.serves = {} \/ \E line \in Lines : frame.serves = {line}
  PROVE  /\ frames = << >> /\ boot = 13
         /\ frames' \in Seq(Frames) /\ Len(frames') = 1 /\ Len(frames') <= MaxDepth
         /\ frames' # << >> /\ frames'[1] = frame /\ iflag' = FALSE
         /\ boot' = boot => FlagInv' /\ FramesInv'
  <1>1. frames = << >> /\ boot > 12 /\ boot = 13
    BY Turn DEF Inv, FlagInv
  <1>2. /\ frames' \in Seq(Frames) /\ Len(frames') = 1 /\ frames' # << >>
        /\ frames'[1] = frame /\ iflag' = FALSE
    <2>1. frames \in Seq(Frames) /\ Len(frames) = 0
      BY <1>1 DEF Inv, TypeOK
    <2>2. /\ frames' \in Seq(Frames) /\ Len(frames') = Len(frames) + 1
          /\ frames' # << >> /\ frames'[Len(frames')] = frame /\ iflag' = FALSE
      BY <2>1, EnterFrames
    <2> HIDE DEF Enter
    <2> QED BY <2>1, <2>2
  <1>3. Len(frames') <= MaxDepth
    BY <1>1, <1>2, ConstantsAssumption DEF Ready
  <1>4. ASSUME boot' = boot
        PROVE  FlagInv' /\ FramesInv'
    BY <1>1, <1>2, <1>4 DEF FlagInv, FramesInv, FrameInv, IsException
  <1> QED BY <1>1, <1>2, <1>3, <1>4

(* It stays in the invariant if what is put in service is the frame's, and *)
(* a byte that loses its edge is the keyboard handler's.                   *)
LEMMA TakeInv ==
  ASSUME Inv, iflag, Ready, NEW frame \in Frames, Enter(frame),
         ~IsException(frame), frame.stage = "dispatch", frame.vector \in 32 .. 47,
         frame.serves = {} \/ \E line \in Lines : frame.serves = {line},
         UNCHANGED <<boot, remap, tables, halted, devices>>,
         pic1' \in Controllers, pic1'.icw = pic1.icw, pic1'.base = pic1.base,
         pic2' \in Controllers, pic2'.icw = pic2.icw, pic2'.base = pic2.base,
         pic1'.isr = frame.serves,
         \/ pic2'.isr = {}
         \/ frame.vector >= 40 /\ \E line \in Lines : pic2'.isr = {line},
         1 \in pic1.irr => 1 \in pic1'.irr \/ frame.vector = 33
  PROVE  Inv'
  <1>1. /\ frames = << >> /\ frames' \in Seq(Frames) /\ Len(frames') <= MaxDepth
        /\ frames' # << >> /\ frames'[1] = frame /\ iflag' = FALSE
        /\ FlagInv' /\ FramesInv'
    BY DeviceEnters
  <1>2. UNCHANGED <<boot, remap, tables>> /\ UNCHANGED <<halted, obf, early, ran>>
    BY DEF devices
  <1>3. TypeOK' /\ TablesInv' /\ PicsInv'
    <2>1. halted' \in BOOLEAN /\ iflag' \in BOOLEAN /\ obf' \in BOOLEAN
          /\ early' \in BOOLEAN /\ ran' \in BOOLEAN
      BY <1>1, <1>2 DEF Inv, TypeOK
    <2> HIDE DEF Ready, Enter
    <2> QED BY <1>1, <1>2, <2>1, Kept
  <1>4. ServiceInv'
    BY <1>1 DEF ServiceInv, IsException
  <1>5. KeyInv'
    <2>1. obf => 1 \in pic1.irr \/ early
      BY <1>1 DEF Inv, KeyInv
    <2> QED BY <1>1, <1>2, <2>1 DEF KeyInv
  <1> QED BY <1>1, <1>3, <1>4, <1>5 DEF Inv

(* While kernel_main runs, nothing is in service and both controllers are  *)
(* ready, with the bases that pic_remap gave them.                         *)
LEMMA Listening ==
  ASSUME Inv, iflag
  PROVE  /\ frames = << >> /\ boot = 13 /\ remap = 11
         /\ pic1 \in Controllers /\ pic2 \in Controllers
         /\ pic1.isr = {} /\ pic2.isr = {} /\ pic1.base = 32 /\ pic2.base = 40
         /\ pic1.icw = "ready" /\ pic2.icw = "ready"
  <1>1. frames = << >> /\ boot = 13
    BY Turn DEF Inv, FlagInv
  <1>2. remap = 11
    BY <1>1 DEF Inv, PicsInv
  <1>3. pic1.isr = {} /\ pic2.isr = {} /\ pic1 \in Controllers /\ pic2 \in Controllers
    BY <1>1 DEF Inv, ServiceInv, TypeOK
  <1> QED BY <1>1, <1>2, <1>3 DEF Inv, PicsInv

(* What the parts of a new frame are.                                      *)
LEMMA FrameOf ==
  ASSUME NEW vector \in 0 .. 255, NEW kind \in Kinds, NEW serves \in SUBSET Lines
  PROVE  /\ Frame(vector, kind, serves) \in Frames
         /\ Frame(vector, kind, serves).vector = vector
         /\ Frame(vector, kind, serves).kind = kind
         /\ Frame(vector, kind, serves).serves = serves
         /\ Frame(vector, kind, serves).stage = "dispatch"
  BY DEF Frame, Frames, Stages

(* A request of the first controller, or of the second through line 2, is  *)
(* taken.                                                                  *)
LEMMA InterruptInv ==
  ASSUME Inv, Interrupt
  PROVE  Inv'
  <1> DEFINE line   == Min(Requests(pic1))
             sub    == Min(Requests(pic2))
             second == line = 2 /\ Requests(pic2) # {}
             frame  == IF line # 2 THEN Frame(pic1.base + line, "device", {line})
                       ELSE IF second THEN Frame(pic2.base + sub, "device", {2})
                       ELSE Frame(pic2.base + 7, "spurious", {2})
  <1>1. /\ iflag /\ Ready
        /\ UNCHANGED <<boot, remap, tables, halted, devices>>
        /\ pic1' = Acknowledge(pic1, line)
        /\ pic2' = IF second THEN Acknowledge(pic2, sub) ELSE pic2
        /\ Enter(frame) /\ Requests(pic1) # {}
    BY DEF Interrupt
  <1>2. /\ pic1 \in Controllers /\ pic2 \in Controllers
        /\ pic1.isr = {} /\ pic2.isr = {} /\ pic1.base = 32 /\ pic2.base = 40
    BY <1>1, Listening
  <1>3. line \in Lines /\ (second => sub \in Lines)
    <2>1. Requests(pic1) \in SUBSET Lines /\ Requests(pic2) \in SUBSET Lines
      BY <1>2, RequestsOf
    <2>2. line \in Lines
      BY <1>1, <2>1, MinOf
    <2>3. second => sub \in Lines
      BY <2>1, MinOf
    <2> QED BY <2>2, <2>3
  <1> HIDE DEF line, sub
  <1>4. /\ pic1' \in Controllers /\ pic1'.icw = pic1.icw /\ pic1'.base = pic1.base
        /\ pic1'.isr = {line} /\ pic1'.irr = pic1.irr \ {line}
    BY <1>1, <1>2, <1>3, AcknowledgeOf
  <1>5. /\ pic2' \in Controllers /\ pic2'.icw = pic2.icw /\ pic2'.base = pic2.base
        /\ pic2'.isr = IF second THEN {sub} ELSE {}
    <2> HIDE DEF second
    <2>1. CASE second
      <3>1. sub \in Lines /\ pic2' = Acknowledge(pic2, sub)
        BY <1>1, <1>3, <2>1
      <3>2. {} \cup {sub} = {sub}
        OBVIOUS
      <3>3. /\ pic2' \in Controllers /\ pic2'.icw = pic2.icw /\ pic2'.base = pic2.base
            /\ pic2'.isr = pic2.isr \cup {sub}
        BY <1>2, <3>1, AcknowledgeOf
      <3> QED BY <1>2, <2>1, <3>2, <3>3
    <2>2. CASE ~second
      BY <1>1, <1>2, <2>2
    <2> QED BY <2>1, <2>2
  <1>6. /\ frame \in Frames /\ ~IsException(frame) /\ frame.stage = "dispatch"
        /\ frame.serves = {line}
        /\ frame.vector = IF line # 2 THEN 32 + line ELSE IF second THEN 40 + sub ELSE 47
    <2>1. CASE line # 2
      <3> DEFINE v == 32 + line
                 s == {line}
      <3>1. pic1.base + line = v /\ v \in 0 .. 255 /\ s \in SUBSET Lines
        BY <1>2, <1>3 DEF Lines
      <3>2. frame = Frame(v, "device", s)
        BY <2>1, <3>1
      <3>3. "device" \in Kinds /\ "device" # "exception"
        BY DEF Kinds
      <3> HIDE DEF frame, second, v, s
      <3>4. /\ frame \in Frames /\ frame.kind = "device" /\ frame.stage = "dispatch"
            /\ frame.serves = s /\ frame.vector = v
        BY <3>1, <3>2, <3>3, FrameOf
      <3> QED BY <2>1, <3>3, <3>4 DEF IsException, v, s
    <2>2. CASE line = 2 /\ second
      <3> DEFINE v == 40 + sub
                 s == {2}
      <3>1. pic2.base + sub = v /\ v \in 0 .. 255 /\ s \in SUBSET Lines
        BY <1>2, <1>3, <2>2 DEF Lines
      <3>2. frame = Frame(v, "device", s)
        BY <2>2, <3>1
      <3>3. "device" \in Kinds /\ "device" # "exception"
        BY DEF Kinds
      <3> HIDE DEF frame, second, v, s
      <3>4. /\ frame \in Frames /\ frame.kind = "device" /\ frame.stage = "dispatch"
            /\ frame.serves = s /\ frame.vector = v
        BY <3>1, <3>2, <3>3, FrameOf
      <3> QED BY <2>2, <3>3, <3>4 DEF IsException, v, s
    <2>3. CASE line = 2 /\ ~second
      <3>1. pic2.base + 7 = 47 /\ {2} \in SUBSET Lines
        BY <1>2 DEF Lines
      <3>2. frame = Frame(47, "spurious", {2})
        BY <2>3, <3>1
      <3>3. "spurious" \in Kinds /\ "spurious" # "exception" /\ 47 \in 0 .. 255
        BY DEF Kinds
      <3> HIDE DEF frame, second
      <3>4. /\ frame \in Frames /\ frame.kind = "spurious" /\ frame.stage = "dispatch"
            /\ frame.serves = {2} /\ frame.vector = 47
        BY <3>1, <3>2, <3>3, FrameOf
      <3> QED BY <2>3, <3>3, <3>4 DEF IsException
    <2> QED BY <2>1, <2>2, <2>3
  <1>7. /\ frame.vector \in 32 .. 47
        /\ \/ pic2'.isr = {}
           \/ frame.vector >= 40 /\ \E l \in Lines : pic2'.isr = {l}
        /\ 1 \in pic1.irr => 1 \in pic1'.irr \/ frame.vector = 33
    <2> HIDE DEF frame
    <2>1. frame.vector \in 32 .. 47 /\ (second => frame.vector >= 40)
      BY <1>3, <1>6 DEF Lines
    <2>2. line = 1 => frame.vector = 33
      BY <1>6
    <2> QED BY <1>3, <1>4, <1>5, <2>1, <2>2
  <1> HIDE DEF frame, second
  <1> QED BY <1>1, <1>3, <1>4, <1>5, <1>6, <1>7, TakeInv

(* A spurious interrupt of the first controller puts nothing in service.   *)
LEMMA NoiseInv ==
  ASSUME Inv, Noise
  PROVE  Inv'
  <1> DEFINE frame == Frame(39, "spurious", {})
  <1>1. /\ iflag /\ Ready /\ pic1.base = 32
        /\ UNCHANGED <<boot, remap, tables, halted, devices>> /\ pic1' = pic1 /\ pic2' = pic2
    BY Listening DEF Noise
  <1>2. Enter(frame)
    BY <1>1 DEF Noise
  <1>3. /\ frame \in Frames /\ ~IsException(frame) /\ frame.stage = "dispatch"
        /\ frame.serves = {} /\ frame.vector = 39
    <2>1. "spurious" \in Kinds /\ 39 \in 0 .. 255 /\ {} \in SUBSET Lines /\ "spurious" # "exception"
      BY DEF Kinds
    <2> QED BY <2>1, FrameOf DEF IsException
  <1>4. pic1 \in Controllers /\ pic2 \in Controllers /\ pic1.isr = {} /\ pic2.isr = {}
    BY <1>1, Listening
  <1> HIDE DEF frame
  <1>5. frame.vector \in 32 .. 47
    BY <1>3
  <1> QED BY <1>1, <1>2, <1>3, <1>4, <1>5, TakeInv

(* One of the second controller puts line 2 in service on the first.       *)
LEMMA CascadeNoiseInv ==
  ASSUME Inv, CascadeNoise
  PROVE  Inv'
  <1> DEFINE frame == Frame(47, "spurious", {2})
  <1>1. /\ iflag /\ Ready /\ pic1' = Acknowledge(pic1, 2) /\ pic2' = pic2
        /\ UNCHANGED <<boot, remap, tables, halted, devices>> /\ pic2.base = 40
    BY Listening DEF CascadeNoise
  <1>2. Enter(frame)
    BY <1>1 DEF CascadeNoise
  <1>3. /\ frame \in Frames /\ ~IsException(frame) /\ frame.stage = "dispatch"
        /\ frame.serves = {2} /\ frame.vector = 47
    <2>1. /\ "spurious" \in Kinds /\ 47 \in 0 .. 255 /\ {2} \in SUBSET Lines
          /\ "spurious" # "exception"
      BY DEF Kinds, Lines
    <2> QED BY <2>1, FrameOf DEF IsException
  <1>4. pic1 \in Controllers /\ pic2 \in Controllers /\ pic1.isr = {} /\ pic2.isr = {}
    BY <1>1, Listening
  <1>5. /\ pic1' \in Controllers /\ pic1'.icw = pic1.icw /\ pic1'.base = pic1.base
        /\ pic1'.isr = {2} /\ pic1'.irr = pic1.irr \ {2}
    <2>1. 2 \in Lines /\ {} \cup {2} = {2}
      BY DEF Lines
    <2> QED BY <1>1, <1>4, <2>1, AcknowledgeOf
  <1> HIDE DEF frame
  <1>6. frame.vector \in 32 .. 47 /\ 2 \in Lines
    BY <1>3 DEF Lines
  <1>7. 1 \in pic1.irr => 1 \in pic1'.irr
    BY <1>5
  <1> QED BY <1>1, <1>2, <1>3, <1>4, <1>5, <1>6, <1>7, TakeInv

(* An exception goes on top of whatever runs.                              *)
LEMMA RaiseInv ==
  ASSUME Inv, Raise
  PROVE  Inv'
  <1>1. /\ Len(frames) < MaxDepth /\ halted' = FALSE
        /\ UNCHANGED <<boot, remap, tables>>
        /\ UNCHANGED <<pic1, pic2, obf, early, ran>>
    BY DEF Raise, devices
  <1>2. PICK v \in Exceptions : Enter(Frame(v, "exception", {}))
    BY DEF Raise
  <1> DEFINE frame == Frame(v, "exception", {})
  <1>3. v \in 0 .. 31 /\ v \in 0 .. 255
    BY ConstantsAssumption
  <1>4. /\ frame \in Frames /\ IsException(frame) /\ frame.stage = "dispatch"
        /\ frame.serves = {} /\ frame.vector = v
    <2>1. "exception" \in Kinds /\ {} \in SUBSET Lines
      BY DEF Kinds
    <2>2. /\ frame \in Frames /\ frame.vector = v /\ frame.kind = "exception"
          /\ frame.serves = {} /\ frame.stage = "dispatch"
      BY <1>3, <2>1, FrameOf
    <2> QED BY <2>2 DEF IsException
  <1>5. frames \in Seq(Frames) /\ Enter(frame)
    BY <1>2 DEF Inv, TypeOK
  <1> HIDE DEF frame
  <1>6. /\ frames' \in Seq(Frames) /\ Len(frames') = Len(frames) + 1 /\ frames' # << >>
        /\ frames'[Len(frames')] = frame /\ iflag' = FALSE
        /\ \A i \in 1 .. Len(frames) : frames'[i] = frames[i]
    BY <1>4, <1>5, EnterFrames
  <1>7. /\ Len(frames) \in Nat /\ Len(frames') <= MaxDepth
        /\ frames = << >> => Len(frames) = 0 /\ frames'[1] = frame
        /\ frames # << >> => 1 \in 1 .. Len(frames) /\ frames'[1] = frames[1]
    <2>1. Len(frames) \in Nat /\ (frames = << >> => Len(frames) = 0)
          /\ (frames # << >> => 1 \in 1 .. Len(frames))
      BY <1>5
    <2> QED BY <1>1, <1>6, <2>1, ConstantsAssumption
  <1>8. TypeOK' /\ TablesInv' /\ PicsInv'
    <2>1. halted' \in BOOLEAN /\ iflag' \in BOOLEAN /\ obf' \in BOOLEAN
          /\ early' \in BOOLEAN /\ ran' \in BOOLEAN /\ pic1' \in Controllers /\ pic2' \in Controllers
      BY <1>1, <1>6 DEF Inv, TypeOK
    <2> QED BY <1>1, <1>6, <1>7, <2>1, Kept
  <1>9. FlagInv'
    BY <1>6 DEF FlagInv
  <1>10. FramesInv'
    <2>1. SUFFICES ASSUME NEW i \in 1 .. Len(frames')
                   PROVE  FrameInv(i)'
      BY DEF FramesInv
    <2>2. CASE i \in 1 .. Len(frames)
      <3>1. FrameInv(i) /\ frames'[i] = frames[i]
        BY <1>6, <2>2 DEF Inv, FramesInv
      <3> QED BY <1>1, <3>1 DEF FrameInv
    <2>3. CASE i = Len(frames')
      <3>1. frames'[i] = frame /\ frame.vector < 32
        BY <1>3, <1>4, <1>6, <2>3
      <3> QED BY <1>4, <3>1 DEF FrameInv
    <2> QED BY <1>6, <1>7, <2>2, <2>3
  <1>11. ServiceInv'
    <2>1. CASE frames = << >>
      BY <1>1, <1>4, <1>7, <2>1 DEF Inv, ServiceInv
    <2>2. CASE frames # << >>
      BY <1>1, <1>6, <1>7, <2>2 DEF Inv, ServiceInv
    <2> QED BY <2>1, <2>2
  <1>12. KeyInv'
    BY <1>1, <1>6, <1>7 DEF Inv, KeyInv
  <1> QED BY <1>8, <1>9, <1>10, <1>11, <1>12 DEF Inv

-----------------------------------------------------------------------------
(* The handlers. *)

(* Only the stage of the frame on top changes.                             *)
LEMMA StageInv ==
  ASSUME Inv, frames # << >>, NEW stage \in Stages, Goto(stage),
         UNCHANGED <<boot, remap, tables, iflag>>, halted' \in BOOLEAN,
         early' \in BOOLEAN, ran' \in BOOLEAN, obf' \in BOOLEAN,
         pic1' \in Controllers, pic1'.icw = pic1.icw, pic1'.base = pic1.base,
         pic2' \in Controllers, pic2'.icw = pic2.icw, pic2'.base = pic2.base,
         IF IsException(Top) THEN stage \in {"dispatch", "panic"}
         ELSE stage # "panic" /\ (stage = "irq1" => Top.vector = 33)
  PROVE  /\ TypeOK' /\ FlagInv' /\ TablesInv' /\ PicsInv' /\ FramesInv'
         /\ frames' # << >>
         /\ Len(frames) > 1 => frames'[1] = frames[1]
         /\ Len(frames) = 1 => frames'[1] = [frames[1] EXCEPT !.stage = stage]
  <1>1. /\ frames \in Seq(Frames) /\ Len(frames) <= MaxDepth /\ Len(frames) \in 1 .. Len(frames)
        /\ Len(frames) \in Nat /\ Top \in Frames
    BY DEF Inv, TypeOK, Top
  <1>2. /\ frames' \in Seq(Frames) /\ Len(frames') = Len(frames) /\ frames' # << >>
        /\ frames'[Len(frames)] = [Top EXCEPT !.stage = stage]
        /\ \A i \in 1 .. Len(frames) - 1 : frames'[i] = frames[i]
    BY <1>1, GotoFrames
  <1>3. iflag' = iflag /\ boot' = boot /\ iflag' \in BOOLEAN
    BY DEF Inv, TypeOK
  <1>4. TypeOK' /\ TablesInv' /\ PicsInv'
    BY <1>1, <1>2, <1>3, Kept
  <1>5. FlagInv'
    BY <1>2, <1>3 DEF Inv, FlagInv
  <1>6. FramesInv'
    <2>1. SUFFICES ASSUME NEW i \in 1 .. Len(frames')
                   PROVE  FrameInv(i)'
      BY DEF FramesInv
    <2>2. FrameInv(i)
      BY <1>2, <2>1 DEF Inv, FramesInv
    <2>3. CASE i < Len(frames)
      <3>1. frames'[i] = frames[i]
        BY <1>1, <1>2, <2>1, <2>3
      <3> QED BY <1>3, <2>2, <3>1 DEF FrameInv
    <2>4. CASE i = Len(frames)
      <3>1. frames[i] = Top /\ frames'[i] = [Top EXCEPT !.stage = stage]
        BY <1>2, <2>4 DEF Top
      <3>2. /\ frames'[i].vector = Top.vector /\ frames'[i].kind = Top.kind
            /\ frames'[i].serves = Top.serves /\ frames'[i].stage = stage
        BY <1>1, <3>1 DEF Frames
      <3> QED BY <1>3, <2>2, <3>1, <3>2 DEF FrameInv, IsException
    <2> QED BY <1>1, <1>2, <2>3, <2>4
  <1>7. Len(frames) > 1 => frames'[1] = frames[1]
    BY <1>1, <1>2
  <1>8. Len(frames) = 1 => frames'[1] = [frames[1] EXCEPT !.stage = stage]
    BY <1>2 DEF Top
  <1> QED BY <1>2, <1>4, <1>5, <1>6, <1>7, <1>8

(* An exception goes on to its message or halts, a device's interrupt to   *)
(* its handler.                                                            *)
LEMMA DispatchInv ==
  ASSUME Inv, interrupt_dispatch
  PROVE  Inv'
  <1>1. /\ frames # << >> /\ Top.stage = "dispatch" /\ halted \in BOOLEAN
        /\ UNCHANGED <<boot, remap, tables, iflag>> /\ UNCHANGED iflag
        /\ UNCHANGED <<pic1, pic2, obf, early, ran>>
    BY DEF interrupt_dispatch, At, devices, Inv, TypeOK
  <1>2. /\ pic1' \in Controllers /\ pic2' \in Controllers
        /\ obf' \in BOOLEAN /\ early' \in BOOLEAN /\ ran' \in BOOLEAN
        /\ frames \in Seq(Frames) /\ Len(frames) \in 1 .. Len(frames)
    BY <1>1 DEF Inv, TypeOK
  <1>0. frames[1] \in Frames /\ (Len(frames) = 1 \/ Len(frames) > 1)
    BY <1>1, <1>2, Bottom
  <1>3. CASE IsException(Top)
    <2>1. Top.vector < 32 /\ Top.serves = {}
      <3>1. FrameInv(Len(frames))
        BY <1>2 DEF Inv, FramesInv
      <3> QED BY <1>3, <3>1 DEF FrameInv, Top
    <2>2. Top.vector \in DOMAIN handlers => handlers[Top.vector][1] = "exception"
      BY <2>1 DEF Inv, TablesInv
    <2>3. \/ halted' = TRUE /\ frames' = frames
          \/ Goto("panic") /\ halted' = halted
      <3>1. CASE Top.vector \notin DOMAIN handlers
        BY <2>1, <3>1 DEF interrupt_dispatch, AfterHandler
      <3>2. CASE Top.vector \in DOMAIN handlers
        BY <2>2, <3>2 DEF interrupt_dispatch
      <3> QED BY <3>1, <3>2
    <2>4. CASE halted' = TRUE /\ frames' = frames
      <3>1. TypeOK' /\ TablesInv' /\ PicsInv'
        <4>1. halted' \in BOOLEAN /\ frames' \in Seq(Frames) /\ Len(frames') <= MaxDepth
              /\ iflag' \in BOOLEAN
          BY <1>1, <2>4 DEF Inv, TypeOK
        <4> QED BY <1>1, <1>2, <4>1, Kept
      <3>2. FlagInv' /\ ServiceInv' /\ KeyInv'
        BY <1>1, <2>4 DEF Inv, FlagInv, ServiceInv, KeyInv, IsException
      <3>3. FramesInv'
        BY <1>1, <2>4 DEF Inv, FramesInv, FrameInv
      <3> QED BY <3>1, <3>2, <3>3 DEF Inv
    <2>5. CASE Goto("panic") /\ halted' = halted
      <3>1. /\ TypeOK' /\ FlagInv' /\ TablesInv' /\ PicsInv' /\ FramesInv' /\ frames' # << >>
            /\ Len(frames) > 1 => frames'[1] = frames[1]
            /\ Len(frames) = 1 => frames'[1] = [frames[1] EXCEPT !.stage = "panic"]
        <4>1. "panic" \in Stages /\ halted' \in BOOLEAN
          BY <1>1, <2>5 DEF Stages
        <4> QED BY <1>1, <1>2, <1>3, <2>5, <4>1, StageInv
      <3>2. ServiceInv' /\ KeyInv'
        <4>1. CASE Len(frames) > 1
          BY <1>1, <3>1, <4>1 DEF Inv, ServiceInv, KeyInv, IsException
        <4>2. CASE Len(frames) = 1
          <5>1. Top = frames[1] /\ frames[1] \in Frames
            <6>1. Top = frames[1]
              BY <4>2 DEF Top
            <6>2. frames[1] \in Frames
              BY <1>0
            <6> QED BY <6>1, <6>2
          <5>2. frames'[1].kind = Top.kind /\ frames'[1].vector = Top.vector
            BY <3>1, <4>2, <5>1 DEF Frames
          <5>3. IsException(frames'[1]) /\ IsException(frames[1]) /\ frames[1].vector < 32
            BY <1>3, <2>1, <5>1, <5>2 DEF IsException
          <5>4. ServiceInv'
            BY <1>1, <3>1, <5>3 DEF Inv, ServiceInv
          <5>5. KeyInv'
            BY <1>1, <3>1, <5>3 DEF Inv, KeyInv
          <5> QED BY <5>4, <5>5
        <4> QED BY <1>0, <4>1, <4>2
      <3> QED BY <3>1, <3>2 DEF Inv
    <2> QED BY <2>3, <2>4, <2>5
  <1>4. CASE ~IsException(Top)
    <2>1. /\ Len(frames) = 1 /\ Top = frames[1] /\ Top \in Frames
          /\ Top.vector \in 32 .. 47 /\ Top.vector \in DOMAIN handlers
          /\ handlers[Top.vector] = <<"irq", Top.vector - 32>>
      BY <1>1, <1>4, DeviceOnTop
    <2>2. PICK stage \in {"irq1", "irq_eoi"} :
            Goto(stage) /\ halted' = halted /\ (stage = "irq1" <=> Top.vector = 33)
      <3> DEFINE h == handlers[Top.vector]
      <3>1. h[1] = "irq" /\ h[2] = Top.vector - 32 /\ (h = <<"irq", 1>> <=> Top.vector = 33)
        BY <2>1
      <3>2. h \notin {df_handler, mc_handler} /\ h[1] # "exception"
        BY <3>1 DEF df_handler, mc_handler
      <3> HIDE DEF h
      <3>3. /\ h = <<"irq", 1>> => Goto("irq1") /\ halted' = halted
            /\ h # <<"irq", 1>> => Goto("irq_eoi") /\ halted' = halted
        BY <2>1, <3>2 DEF interrupt_dispatch, h
      <3> QED BY <3>1, <3>3
    <2>3. /\ TypeOK' /\ FlagInv' /\ TablesInv' /\ PicsInv' /\ FramesInv' /\ frames' # << >>
          /\ frames'[1] = [frames[1] EXCEPT !.stage = stage]
      <3>1. stage \in Stages /\ stage # "panic" /\ halted' \in BOOLEAN
        BY <1>1, <2>2 DEF Stages
      <3> QED BY <1>1, <1>2, <1>4, <2>1, <2>2, <3>1, StageInv
    <2>4. /\ frames'[1].kind = Top.kind /\ frames'[1].vector = Top.vector
          /\ frames'[1].serves = Top.serves /\ frames'[1].stage = stage
      BY <2>1, <2>3 DEF Frames
    <2>5. ~IsException(frames'[1]) /\ ~IsException(frames[1]) /\ frames[1].stage = "dispatch"
      BY <1>1, <1>4, <2>1, <2>4 DEF IsException
    <2>6. pic2.isr # {} => Top.vector >= 40 /\ \E line \in Lines : pic2.isr = {line}
      BY <1>1, <2>1, <2>5 DEF Inv, ServiceInv
    <2>7. ServiceInv'
      <3>1. pic1.isr = Top.serves
        BY <1>1, <2>1, <2>5 DEF Inv, ServiceInv
      <3>2. pic2.isr # {} => stage = "irq_eoi"
        BY <2>1, <2>2, <2>6
      <3> QED BY <1>1, <2>3, <2>4, <2>5, <2>6, <3>1, <3>2 DEF ServiceInv
    <2>8. KeyInv'
      BY <1>1, <2>1, <2>2, <2>3, <2>4 DEF Inv, KeyInv
    <2> QED BY <2>3, <2>7, <2>8 DEF Inv
  <1> QED BY <1>3, <1>4

(* The panic message stops the kernel, which changes nothing else.         *)
LEMMA PanicInv ==
  ASSUME Inv, Panic
  PROVE  Inv'
  <1>1. /\ UNCHANGED <<boot, remap, tables>>
        /\ UNCHANGED <<iflag, frames, pic1, pic2, obf, early, ran>>
        /\ halted' = TRUE
    BY DEF Panic, devices
  <1>2. TypeOK' /\ TablesInv' /\ PicsInv'
    BY <1>1, Kept DEF Inv, TypeOK
  <1>3. FlagInv' /\ ServiceInv' /\ KeyInv'
    BY <1>1 DEF Inv, FlagInv, ServiceInv, KeyInv, IsException
  <1>4. FramesInv'
    BY <1>1 DEF Inv, FramesInv, FrameInv
  <1> QED BY <1>2, <1>3, <1>4 DEF Inv

(* A step of a device's handler: it is alone on the stack.                 *)
LEMMA HandlerStep ==
  ASSUME Inv, NEW old \in {"irq1", "irq_eoi", "eoi1", "iret"}, At(old),
         NEW stage \in Stages \ {"irq1", "panic"}, Goto(stage),
         UNCHANGED <<boot, remap, tables, iflag>>, halted' = halted,
         UNCHANGED <<early, ran>>, obf' \in BOOLEAN,
         pic1' \in Controllers, pic1'.icw = pic1.icw, pic1'.base = pic1.base,
         pic2' \in Controllers, pic2'.icw = pic2.icw, pic2'.base = pic2.base
  PROVE  /\ TypeOK' /\ FlagInv' /\ TablesInv' /\ PicsInv' /\ FramesInv'
         /\ frames # << >> /\ ~IsException(frames[1])
         /\ frames[1].stage = old /\ Top = frames[1]
         /\ handlers[Top.vector] = <<"irq", frames[1].vector - 32>>
         /\ frames[1].vector \in 32 .. 47
         /\ frames' # << >> /\ ~IsException(frames'[1])
         /\ frames'[1].vector = frames[1].vector
         /\ frames'[1].serves = frames[1].serves
         /\ frames'[1].stage = stage
  <1>1. frames # << >> /\ ~IsException(Top) /\ Top.stage = old
    BY InHandler
  <1>2. /\ Len(frames) = 1 /\ Top = frames[1] /\ Top \in Frames
        /\ Top.vector \in 32 .. 47
        /\ handlers[Top.vector] = <<"irq", Top.vector - 32>>
    BY <1>1, DeviceOnTop
  <1>3. halted' \in BOOLEAN /\ early' \in BOOLEAN /\ ran' \in BOOLEAN
    BY DEF Inv, TypeOK
  <1>4. /\ TypeOK' /\ FlagInv' /\ TablesInv' /\ PicsInv' /\ FramesInv' /\ frames' # << >>
        /\ frames'[1] = [frames[1] EXCEPT !.stage = stage]
    BY <1>1, <1>2, <1>3, StageInv
  <1>5. /\ frames'[1].kind = Top.kind /\ frames'[1].vector = Top.vector
        /\ frames'[1].serves = Top.serves /\ frames'[1].stage = stage
    BY <1>2, <1>4 DEF Frames
  <1>6. ~IsException(frames'[1])
    BY <1>1, <1>5 DEF IsException
  <1> QED BY <1>1, <1>2, <1>4, <1>5, <1>6

(* The keyboard's handler reads the byte.                                  *)
LEMMA Irq1Inv ==
  ASSUME Inv, irq1_keyboard
  PROVE  Inv'
  <1>1. /\ At("irq1") /\ Goto("irq_eoi") /\ obf' = FALSE /\ halted' = halted
        /\ UNCHANGED <<boot, remap, tables, iflag>> /\ UNCHANGED <<early, ran>>
        /\ UNCHANGED <<pic1, pic2>>
    BY DEF irq1_keyboard
  <1>2. "irq_eoi" \in Stages \ {"irq1", "panic"} /\ pic1' \in Controllers /\ pic2' \in Controllers
    BY <1>1 DEF Stages, Inv, TypeOK
  <1>3. /\ TypeOK' /\ FlagInv' /\ TablesInv' /\ PicsInv' /\ FramesInv'
        /\ frames # << >> /\ ~IsException(frames[1]) /\ frames[1].stage = "irq1"
        /\ frames' # << >> /\ ~IsException(frames'[1])
        /\ frames'[1].serves = frames[1].serves /\ frames'[1].stage = "irq_eoi"
    BY <1>1, <1>2, HandlerStep
  <1>4. ServiceInv'
    BY <1>1, <1>3 DEF Inv, ServiceInv
  <1>5. KeyInv'
    BY <1>1 DEF KeyInv
  <1> QED BY <1>3, <1>4, <1>5 DEF Inv

(* The acknowledgement to the second controller leaves nothing in service  *)
(* there.                                                                  *)
LEMMA EoiInv ==
  ASSUME Inv, irq_eoi
  PROVE  Inv'
  <1>1. /\ At("irq_eoi") /\ Goto("eoi1") /\ halted' = halted
        /\ UNCHANGED <<boot, remap, tables, iflag>> /\ UNCHANGED <<early, ran>>
        /\ UNCHANGED <<pic1, obf>>
        /\ pic2' = IF handlers[Top.vector][2] >= 8 THEN WriteCommand(pic2, 32) ELSE pic2
    BY DEF irq_eoi, devices
  <1>2. /\ "eoi1" \in Stages \ {"irq1", "panic"} /\ obf' \in BOOLEAN
        /\ pic1' \in Controllers /\ pic2 \in Controllers
    BY <1>1 DEF Stages, Inv, TypeOK
  <1>3. /\ WriteCommand(pic2, 32) \in Controllers
        /\ WriteCommand(pic2, 32).icw = pic2.icw /\ WriteCommand(pic2, 32).base = pic2.base
        /\ pic2.isr = {} \/ (\E line \in Lines : pic2.isr = {line})
             => WriteCommand(pic2, 32).isr = {}
    BY <1>2, EndOf
  <1>4. pic2' \in Controllers /\ pic2'.icw = pic2.icw /\ pic2'.base = pic2.base
    BY <1>1, <1>2, <1>3
  <1>5. /\ TypeOK' /\ FlagInv' /\ TablesInv' /\ PicsInv' /\ FramesInv'
        /\ frames # << >> /\ ~IsException(frames[1]) /\ frames[1].stage = "irq_eoi"
        /\ handlers[Top.vector] = <<"irq", frames[1].vector - 32>>
        /\ frames[1].vector \in 32 .. 47
        /\ frames' # << >> /\ ~IsException(frames'[1])
        /\ frames'[1].serves = frames[1].serves /\ frames'[1].stage = "eoi1"
    BY <1>1, <1>2, <1>4, HandlerStep
  <1>6. pic2'.isr = {}
    <2>1. pic2.isr = {} \/ (frames[1].vector >= 40 /\ \E line \in Lines : pic2.isr = {line})
      BY <1>5 DEF Inv, ServiceInv
    <2>2. frames[1].vector >= 40 => handlers[Top.vector][2] >= 8
      BY <1>5
    <2> QED BY <1>1, <1>3, <2>1, <2>2
  <1>7. ServiceInv'
    BY <1>1, <1>5, <1>6 DEF Inv, ServiceInv
  <1>8. KeyInv'
    BY <1>1, <1>5 DEF Inv, KeyInv
  <1> QED BY <1>5, <1>7, <1>8 DEF Inv

(* The acknowledgement to the first controller leaves nothing in service   *)
(* there.                                                                  *)
LEMMA EoiMasterInv ==
  ASSUME Inv, EoiMaster
  PROVE  Inv'
  <1>1. /\ At("eoi1") /\ Goto("iret") /\ halted' = halted
        /\ UNCHANGED <<boot, remap, tables, iflag>> /\ UNCHANGED <<early, ran>>
        /\ UNCHANGED <<pic2, obf>> /\ pic1' = WriteCommand(pic1, 32)
    BY DEF EoiMaster, devices
  <1>2. /\ "iret" \in Stages \ {"irq1", "panic"} /\ obf' \in BOOLEAN
        /\ pic1 \in Controllers /\ pic2' \in Controllers
    BY <1>1 DEF Stages, Inv, TypeOK
  <1>3. /\ pic1' \in Controllers /\ pic1'.icw = pic1.icw /\ pic1'.base = pic1.base
        /\ pic1'.irr = pic1.irr
        /\ pic1.isr = {} \/ (\E line \in Lines : pic1.isr = {line}) => pic1'.isr = {}
    BY <1>1, <1>2, EndOf
  <1>4. /\ TypeOK' /\ FlagInv' /\ TablesInv' /\ PicsInv' /\ FramesInv'
        /\ frames # << >> /\ ~IsException(frames[1]) /\ frames[1].stage = "eoi1"
        /\ frames' # << >> /\ ~IsException(frames'[1]) /\ frames'[1].stage = "iret"
    BY <1>1, <1>2, <1>3, HandlerStep
  <1>5. pic1'.isr = {} /\ pic2'.isr = {}
    <2>1. pic1.isr = frames[1].serves /\ pic2.isr = {}
      BY <1>4 DEF Inv, ServiceInv
    <2>2. FrameInv(1)
      <3>1. frames \in Seq(Frames)
        BY DEF Inv, TypeOK
      <3>2. 1 \in 1 .. Len(frames)
        BY <1>4, <3>1, Bottom
      <3> QED BY <3>2 DEF Inv, FramesInv
    <2>3. frames[1].serves = {} \/ \E line \in Lines : frames[1].serves = {line}
      BY <1>4, <2>2 DEF FrameInv
    <2> QED BY <1>1, <1>3, <2>1, <2>3
  <1>6. ServiceInv'
    BY <1>4, <1>5 DEF ServiceInv
  <1>7. KeyInv'
    BY <1>1, <1>3, <1>4 DEF Inv, KeyInv
  <1> QED BY <1>4, <1>6, <1>7 DEF Inv

(* The return: the last frame goes, and interrupts are on again.           *)
LEMMA IretInv ==
  ASSUME Inv, Iret
  PROVE  Inv'
  <1>1. /\ At("iret") /\ iflag' = TRUE
        /\ UNCHANGED <<boot, remap, tables>> /\ UNCHANGED <<halted, pic1, pic2, obf, early, ran>>
        /\ frames' = SubSeq(frames, 1, Len(frames) - 1)
    BY DEF Iret, devices
  <1>2. frames # << >> /\ ~IsException(Top) /\ Top.stage = "iret"
    BY <1>1, InHandler
  <1>3. Len(frames) = 1 /\ Top = frames[1] /\ boot = 13
    BY <1>2, DeviceOnTop
  <1>4. frames' = << >>
    BY <1>1, <1>3
  <1>5. TypeOK' /\ TablesInv' /\ PicsInv'
    <2>1. frames' \in Seq(Frames) /\ Len(frames') <= MaxDepth
      BY <1>4, ConstantsAssumption
    <2> QED BY <1>1, <2>1, Kept DEF Inv, TypeOK
  <1>6. FlagInv' /\ FramesInv'
    BY <1>1, <1>3, <1>4 DEF FlagInv, FramesInv
  <1>7. ServiceInv'
    BY <1>1, <1>2, <1>3, <1>4 DEF Inv, ServiceInv
  <1>8. KeyInv'
    BY <1>1, <1>2, <1>3 DEF Inv, KeyInv
  <1> QED BY <1>5, <1>6, <1>7, <1>8 DEF Inv

-----------------------------------------------------------------------------
(* kernel_main and the devices. *)

(* kernel_main disturbs nothing.                                           *)
LEMMA MainInv ==
  ASSUME Inv, kernel_main
  PROVE  Inv'
  <1>1. /\ UNCHANGED <<boot, remap, tables>> /\ ran' = TRUE
        /\ UNCHANGED <<iflag, frames, halted, pic1, pic2, obf, early>>
    BY DEF kernel_main
  <1>2. TypeOK' /\ TablesInv' /\ PicsInv'
    BY <1>1, Kept DEF Inv, TypeOK
  <1>3. FlagInv' /\ ServiceInv' /\ KeyInv'
    BY <1>1 DEF Inv, FlagInv, ServiceInv, KeyInv, IsException
  <1>4. FramesInv'
    BY <1>1 DEF Inv, FramesInv, FrameInv
  <1> QED BY <1>2, <1>3, <1>4 DEF Inv

(* An edge disturbs nothing but the requests.                              *)
LEMMA EdgeInv ==
  ASSUME Inv, UNCHANGED <<boot, remap, tables>>, UNCHANGED <<iflag, frames, halted, early>>,
         ran' \in BOOLEAN, obf' \in BOOLEAN,
         pic1' = pic1 \/ \E line \in Lines : pic1' = Edge(pic1, line),
         pic2' = pic2 \/ \E line \in Lines : pic2' = Edge(pic2, line),
         obf' => obf \/ 1 \in pic1'.irr
  PROVE  Inv'
  <1>1. pic1 \in Controllers /\ pic2 \in Controllers
    BY DEF Inv, TypeOK
  <1>2. /\ pic1' \in Controllers /\ pic1'.icw = pic1.icw /\ pic1'.base = pic1.base
        /\ pic1'.isr = pic1.isr /\ pic1.irr \subseteq pic1'.irr
    BY <1>1, EdgeOf
  <1>3. /\ pic2' \in Controllers /\ pic2'.icw = pic2.icw /\ pic2'.base = pic2.base
        /\ pic2'.isr = pic2.isr
    BY <1>1, EdgeOf
  <1>4. TypeOK' /\ TablesInv' /\ PicsInv'
    <2>1. /\ iflag' \in BOOLEAN /\ halted' \in BOOLEAN /\ early' \in BOOLEAN
          /\ frames' \in Seq(Frames) /\ Len(frames') <= MaxDepth
      BY DEF Inv, TypeOK
    <2> QED BY <1>2, <1>3, <2>1, Kept
  <1>5. frames' = frames /\ boot' = boot /\ iflag' = iflag /\ early' = early
    OBVIOUS
  <1>6. FlagInv' /\ ServiceInv'
    BY <1>2, <1>3, <1>5 DEF Inv, FlagInv, ServiceInv, IsException
  <1>7. KeyInv'
    BY <1>2, <1>5 DEF Inv, KeyInv
  <1>8. FramesInv'
    BY <1>5 DEF Inv, FramesInv, FrameInv
  <1> QED BY <1>4, <1>6, <1>7, <1>8 DEF Inv

(* The timer, the keyboard and the devices of the second controller make   *)
(* edges.                                                                  *)
LEMMA DevicesInv ==
  ASSUME Inv, Tick \/ KeyByte \/ SlaveEdge
  PROVE  Inv'
  <1>1. pic1 \in Controllers /\ pic2 \in Controllers /\ obf \in BOOLEAN /\ ran \in BOOLEAN
    BY DEF Inv, TypeOK
  <1>2. 0 \in Lines /\ 1 \in Lines /\ 2 \in Lines
    BY DEF Lines
  <1>3. CASE Tick
    <2>1. /\ UNCHANGED <<boot, remap, tables>> /\ UNCHANGED <<iflag, frames, halted, early>>
          /\ ran' = FALSE /\ obf' = obf /\ pic2' = pic2 /\ pic1' = Edge(pic1, 0)
      BY <1>3 DEF Tick
    <2> QED BY <1>1, <1>2, <2>1, EdgeInv
  <1>4. CASE KeyByte
    <2>1. /\ UNCHANGED <<boot, remap, tables>> /\ UNCHANGED <<iflag, frames, halted, early>>
          /\ ran' = ran /\ obf' = TRUE /\ pic2' = pic2 /\ pic1' = Edge(pic1, 1)
      BY <1>4 DEF KeyByte
    <2>2. 1 \in pic1'.irr
      BY <1>1, <1>2, <2>1, EdgeOf DEF Controllers
    <2> QED BY <1>1, <1>2, <2>1, <2>2, EdgeInv
  <1>5. CASE SlaveEdge
    <2>1. /\ UNCHANGED <<boot, remap, tables>> /\ UNCHANGED <<iflag, frames, halted, early>>
          /\ ran' = ran /\ obf' = obf /\ (pic1' = pic1 \/ pic1' = Edge(pic1, 2))
          /\ \E line \in SlaveLines : pic2' = Edge(pic2, line)
      BY <1>5 DEF SlaveEdge, devices
    <2>2. SlaveLines \subseteq Lines
      BY ConstantsAssumption
    <2> QED BY <1>1, <1>2, <2>1, <2>2, EdgeInv
  <1> QED BY <1>3, <1>4, <1>5

-----------------------------------------------------------------------------
(* Every step. *)

(* Every step stays in the invariant.                                      *)
LEMMA NextInv == Inv /\ [Next]_vars => Inv'
  <1> SUFFICES ASSUME Inv, [Next]_vars
               PROVE  Inv'
    OBVIOUS
  <1>1. CASE OtherInit
    BY <1>1, OtherInitInv
  <1>2. CASE kms
    BY <1>2, KmsInv
  <1>3. CASE gdt_init
    BY <1>3, GdtInitInv
  <1>4. CASE idt_init
    BY <1>4, IdtInitInv
  <1>5. CASE exceptions_init \/ RegisterIrqs
    BY <1>5, RegisterInv
  <1>6. CASE RemapWrite
    BY <1>6, RemapWriteInv
  <1>7. CASE Sti
    BY <1>7, StiInv
  <1>8. CASE Interrupt
    BY <1>8, InterruptInv
  <1>9. CASE Noise
    BY <1>9, NoiseInv
  <1>10. CASE CascadeNoise
    BY <1>10, CascadeNoiseInv
  <1>11. CASE Raise
    BY <1>11, RaiseInv
  <1>12. CASE interrupt_dispatch
    BY <1>12, DispatchInv
  <1>13. CASE Panic
    BY <1>13, PanicInv
  <1>14. CASE irq1_keyboard
    BY <1>14, Irq1Inv
  <1>15. CASE irq_eoi
    BY <1>15, EoiInv
  <1>16. CASE EoiMaster
    BY <1>16, EoiMasterInv
  <1>17. CASE Iret
    BY <1>17, IretInv
  <1>18. CASE kernel_main
    BY <1>18, MainInv
  <1>19. CASE Tick \/ KeyByte \/ SlaveEdge
    BY <1>19, DevicesInv
  <1>20. CASE UNCHANGED vars
    <2>1. /\ UNCHANGED <<boot, remap, tables>> /\ ran' = ran /\ obf' = obf
          /\ UNCHANGED <<iflag, frames, halted, early>> /\ pic1' = pic1 /\ pic2' = pic2
      BY <1>20 DEF vars, tables
    <2>2. ran' \in BOOLEAN /\ obf' \in BOOLEAN
      BY <2>1 DEF Inv, TypeOK
    <2> QED BY <2>1, <2>2, EdgeInv
  <1> QED BY <1>1, <1>2, <1>3, <1>4, <1>5, <1>6, <1>7, <1>8, <1>9, <1>10, <1>11, <1>12,
             <1>13, <1>14, <1>15, <1>16, <1>17, <1>18, <1>19, <1>20
          DEF Next, Processor, Initialise, Handle

(* The invariant holds at every moment.                                    *)
LEMMA InvAlways == Spec => []Inv
  BY InitInv, NextInv, PTL DEF Spec

-----------------------------------------------------------------------------
(* The theorems. *)

(* Every variable has its type at every moment.                            *)
THEOREM TypesAlways == Spec => []TypeOK
  <1>1. Inv => TypeOK
    BY DEF Inv
  <1> QED BY <1>1, InvAlways, PTL

(* Every interrupt of a device finds the kernel's tables loaded and its    *)
(* own handler registered, in whatever order _start, pic_remap and the     *)
(* devices come: interrupts are enabled last (irq.c).                      *)
THEOREM HandlerInstalledAlways == Spec => []HandlerInstalled
  <1>1. Inv => HandlerInstalled
    <2> SUFFICES ASSUME Inv, NEW i \in 1 .. Len(frames),
                        frames[i].stage = "dispatch", ~IsException(frames[i])
                 PROVE  /\ gdt /\ idt
                        /\ frames[i].vector \in DOMAIN handlers
                        /\ handlers[frames[i].vector] = <<"irq", frames[i].vector - 32>>
      BY DEF HandlerInstalled
    <2>1. boot > 12 /\ frames[i].vector \in 32 .. 47
      BY DEF Inv, FramesInv, FrameInv
    <2>2. boot = 13
      BY <2>1, Turn DEF Inv
    <2>3. gdt /\ idt /\ 32 .. 47 \subseteq DOMAIN handlers
      BY <2>2 DEF Inv, TablesInv
    <2>4. frames[i].vector \in DOMAIN handlers
      BY <2>1, <2>3
    <2>5. handlers[frames[i].vector] = <<"irq", frames[i].vector - 32>>
      <3>1. ~(frames[i].vector < 32)
        BY <2>1
      <3> QED BY <2>4, <3>1 DEF Inv, TablesInv
    <2> QED BY <2>3, <2>4, <2>5
  <1> QED BY <1>1, InvAlways, PTL

(* No acknowledgement is lost: when no handler runs, nothing is in service *)
(* on either controller, after any mixture of interrupts and noise.        *)
THEOREM NothingLeftInServiceAlways == Spec => []NothingLeftInService
  <1>1. Inv => NothingLeftInService
    BY DEF Inv, ServiceInv, NothingLeftInService
  <1> QED BY <1>1, InvAlways, PTL

(* Interrupt gates keep the handlers of devices apart (idt.c).             *)
THEOREM HandlersDoNotNestAlways == Spec => []HandlersDoNotNest
  <1>1. Inv => HandlersDoNotNest
    BY DEF Inv, FramesInv, FrameInv, HandlersDoNotNest
  <1> QED BY <1>1, InvAlways, PTL

(* The keyboard never falls silent: a byte that waits in its controller is *)
(* announced, or its handler is on the way to read it (irq.c).             *)
THEOREM KeyboardNotStuckAlways == Spec => []KeyboardNotStuck
  <1>1. Inv => KeyboardNotStuck
    BY DEF Inv, FlagInv, KeyInv, KeyboardNotStuck
  <1> QED BY <1>1, InvAlways, PTL

(* A step that ends the service of a line is the acknowledgement of the    *)
(* handler that the line started, and not of one it has interrupted or     *)
(* that a spurious interrupt has started (irq_eoi is non-specific).        *)
THEOREM OwnAcknowledgeAlways == Spec => OwnAcknowledge
  <1> DEFINE Own == pic1.isr \ pic1'.isr \subseteq (IF frames = << >> THEN {} ELSE Top.serves)
  <1>1. ASSUME Inv, [Next]_vars
        PROVE  Own
    <2>1. CASE pic1.isr = {}
      BY <2>1
    <2>2. CASE pic1.isr # {} /\ ~IsException(Top)
      <3>1. frames # << >>
        BY <1>1, <2>2 DEF Inv, ServiceInv
      <3>2. Top = frames[1]
        BY <1>1, <2>2, <3>1, DeviceOnTop
      <3>3. pic1.isr \subseteq Top.serves
        BY <1>1, <2>2, <3>1, <3>2 DEF Inv, ServiceInv
      <3> QED BY <3>1, <3>3
    <2>3. CASE pic1.isr # {} /\ IsException(Top)
      <3>1. frames # << >> /\ ~iflag
        BY <1>1, <2>3 DEF Inv, ServiceInv, FlagInv
      <3>2. ~Initialise /\ ~Interrupt /\ ~Noise /\ ~CascadeNoise /\ ~kernel_main
        BY <3>1 DEF Initialise, OtherInit, kms, gdt_init, idt_init, exceptions_init,
                    RemapWrite, RegisterIrqs, Sti, Starting, Interrupt, Noise,
                    CascadeNoise, kernel_main
      <3>3. ~irq1_keyboard /\ ~irq_eoi /\ ~EoiMaster /\ ~Iret
        BY <1>1, <2>3, InHandler DEF irq1_keyboard, irq_eoi, EoiMaster, Iret
      <3>4. CASE Tick \/ KeyByte \/ SlaveEdge
        <4>1. pic1 \in Controllers /\ 0 \in Lines /\ 1 \in Lines /\ 2 \in Lines
          BY <1>1 DEF Inv, TypeOK, Lines
        <4>2. pic1' = pic1 \/ \E line \in Lines : pic1' = Edge(pic1, line)
          BY <3>4, <4>1 DEF Tick, KeyByte, SlaveEdge
        <4>3. \A line \in Lines : Edge(pic1, line).isr = pic1.isr
          BY <4>1, EdgeOf
        <4>4. pic1'.isr = pic1.isr
          BY <4>2, <4>3
        <4> QED BY <4>4
      <3>5. CASE Raise \/ interrupt_dispatch \/ Panic \/ UNCHANGED vars
        BY <3>5 DEF Raise, interrupt_dispatch, Panic, vars
      <3> QED BY <1>1, <3>2, <3>3, <3>4, <3>5 DEF Next, Processor, Handle
    <2> QED BY <2>1, <2>2, <2>3
  <1>2. Inv /\ [Next]_vars => [Own]_vars
    BY <1>1
  <1> QED BY <1>2, InvAlways, PTL DEF Spec, OwnAcknowledge
=============================================================================
