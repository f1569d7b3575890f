---------------------------- MODULE Ring3Proofs ----------------------------
(***************************************************************************)
(* Ring3 for every stack size, chain depth and frame size: as long as       *)
(* programs keep to their memory, the frames of the suspended command are   *)
(* overwritten by a panic only, a command that resumes does so at its call  *)
(* site, and no interrupt line stays in service.                            *)
(***************************************************************************)
EXTENDS Ring3, TLAPS

(* What user_return will restore is the call site of the suspended command. *)
ResumeOK == /\ resume.addr = "chain"
            /\ resume.sp = depth
            /\ resume.regs = "chain"

(* The slots of the call chain are as it left them.                         *)
Kept == \A s \in 1 .. depth : main[s] = "chain"

(* A context is what an interrupt saves: where the CPU was (q), privilege   *)
(* (l), IF (i), the other flags (f), stack (k), its depth (n), registers    *)
(* (r).  Context says what is true of one that executes, or that a frame    *)
(* will restore.  TF reaches the kernel only by way of user_return.         *)
Context(q, l, i, f, k, n, r) ==
  /\ q \in {"repl", "cmd", "capture", "enter", "launch", "user", "user_return",
            "user_return_rsp", "back"}
  /\ l = 3 <=> q = "user"
  /\ i <=> q \notin {"user_return", "user_return_rsp"}
  /\ "TF" \in f => q \in {"user", "user_return", "user_return_rsp"}
  /\ q \in {"repl", "cmd", "back"} => k = "main" /\ n = depth /\ r = "chain"
  /\ q \in {"capture", "enter"} => k = "main" /\ n = depth + 2 /\ r = "chain"
  /\ q = "launch" => k = "main" /\ n = depth + 2 + EnterSlots /\ r = "chain"
  /\ q = "capture" => main[depth + 1] = "chain" /\ main[depth + 2] = "chain"
  /\ q \in {"enter", "launch", "user", "user_return", "user_return_rsp"} => ResumeOK
  /\ q \in {"launch", "user"} => cr3 = "proc" /\ proc_built
  /\ q = "user" => k = "user" /\ n = 0
  /\ q = "repl" => depth = Base
  /\ q # "repl" => depth \in Depths

(* The code is in a context, in a handler entered from one that had IF set, *)
(* on its way back to one, or panicking.                                    *)
ControlInv ==
  \/ Context(pc, cpl, intr, flags, stk, sp, regs)
  \/ /\ pc \in {"isr", "iret"} /\ cpl = 0 /\ ~intr
     /\ Context(frame.pc, frame.cpl, frame.intr, frame.flags, frame.stk, frame.sp, frame.regs)
     /\ pc = "isr" => frame.intr
     /\ pc = "isr" /\ vec \in {"exit", "fault", "syscall"} => frame.pc = "user"
  \/ Panicking /\ cpl = 0 /\ ~intr

(* What holds until a system call stores outside the program's memory.      *)
Ring3Inv ==
  /\ Ring3TypeOK /\ stray = FALSE
  /\ Panicking \/ Kept
  /\ depth \in Depths \cup {Base}
  /\ ControlInv

TrustedInv == stray \in BOOLEAN /\ (stray = FALSE => Ring3Inv)

----------------------------------------------------------------------------
(* Writing above the d slots in use leaves those below alone.               *)
LEMMA PushFrame ==
  ASSUME Ring3TypeOK, NEW d \in Nat, NEW n \in Nat, NEW v \in Values
  PROVE  /\ Push(d, n, v) \in [Slots -> Values]
         /\ \A s \in Slots : s <= d => Push(d, n, v)[s] = main[s]
         /\ \A s \in Slots : d < s /\ s <= d + n => Push(d, n, v)[s] = v
  BY DEF Push, Ring3TypeOK, Slots

(* The chain fits the stack, with room for what is pushed above it.         *)
LEMMA DepthFits ==
  ASSUME depth \in Depths \cup {Base}
  PROVE  /\ depth \in Nat /\ depth <= StackSlots
         /\ depth \in Depths => depth + 2 <= StackSlots
  BY Ring3Assumption

(* Code that runs in a context is no handler: the chain is as it was left.  *)
LEMMA ContextKeeps ==
  ASSUME Ring3Inv, Context(pc, cpl, intr, flags, stk, sp, regs)
  PROVE  Kept /\ stray = FALSE
  BY DEF Ring3Inv, Panicking, Context

(* Outside handlers the code is in a context.                               *)
LEMMA InContext ==
  ASSUME Ring3Inv, pc \notin {"isr", "iret", "halted"}
  PROVE  /\ Ring3TypeOK /\ stray = FALSE /\ depth \in Depths \cup {Base} /\ Kept
         /\ Context(pc, cpl, intr, flags, stk, sp, regs)
  BY DEF Ring3Inv, ControlInv, Panicking

LEMMA InitInv == Init => Ring3Inv
  <1> SUFFICES ASSUME Init PROVE Ring3Inv
    OBVIOUS
  <1>1. Ring3TypeOK
    BY Ring3Assumption DEF Init, Ring3TypeOK, PCs, Values, Stacks, Slots, Lines, Flags
  <1>2. Kept
    BY Ring3Assumption DEF Init, Kept, Slots
  <1>3. Context(pc, cpl, intr, flags, stk, sp, regs)
    BY DEF Init, Context
  <1> QED
    BY <1>1, <1>2, <1>3 DEF Ring3Inv, ControlInv, Init

(* Taking an interrupt or a trap: the frame goes to the interrupt stack, or *)
(* above everything the interrupted kernel code needs.                      *)
LEMMA EnterIsrInv ==
  ASSUME Ring3Inv, intr,
         NEW v \in {"exit", "fault", "syscall", "irq", "spurious"},
         v \in {"exit", "fault", "syscall"} => pc = "user",
         EnterIsr(v), irr' \subseteq Lines, isr' \subseteq Lines
  PROVE  Ring3Inv'
  <1>1. Context(pc, cpl, intr, flags, stk, sp, regs)
    BY DEF ControlInv, Ring3Inv
  <1>2. Ring3TypeOK /\ Kept /\ depth \in Depths \cup {Base} /\ stray = FALSE
    BY <1>1, ContextKeeps DEF Ring3Inv
  <1>3. /\ pc' = "isr" /\ vec' = v /\ cpl' = 0 /\ intr' = FALSE /\ flags' = {}
        /\ frame' = [cpl |-> cpl, intr |-> intr, flags |-> flags, stk |-> stk, sp |-> sp,
                     pc |-> pc, regs |-> regs]
        /\ UNCHANGED <<regs, cr3, resume, proc_built, depth, stray>>
    BY DEF EnterIsr, history
  <1>4. /\ frame' \in [cpl : {0, 3}, intr : BOOLEAN, flags : SUBSET Flags, stk : Stacks,
                       sp : Nat, pc : PCs, regs : Values]
        /\ frame'.pc = pc /\ frame'.cpl = cpl /\ frame'.intr = intr /\ frame'.flags = flags
        /\ frame'.stk = stk /\ frame'.sp = sp /\ frame'.regs = regs
    BY <1>2, <1>3 DEF Ring3TypeOK
  <1>5. /\ main' \in [Slots -> Values] /\ sp' \in Nat /\ stk' \in Stacks
        /\ Kept'
        /\ pc = "capture" => main'[depth + 1] = "chain" /\ main'[depth + 2] = "chain"
    <2>1. CASE cpl = 3
      <3>1. main' = main /\ sp' = FrameSlots /\ stk' = "int"
        BY <2>1, Ring3Assumption DEF EnterIsr, Rsp0
      <3> QED
        BY <1>1, <1>2, <1>3, <3>1, Ring3Assumption DEF Ring3TypeOK, Stacks, Kept, Context
    <2>2. CASE cpl # 3
      <3>1. /\ stk = "main" /\ sp \in Nat /\ depth <= sp
            /\ pc = "capture" => sp = depth + 2 /\ depth \in Depths
        BY <1>1, <1>2, <2>2, DepthFits, Ring3Assumption DEF Context, Ring3TypeOK
      <3>2. main' = Push(sp, FrameSlots, "junk") /\ sp' = sp + FrameSlots /\ stk' = "main"
        BY <2>2, <3>1 DEF EnterIsr
      <3>3. /\ main' \in [Slots -> Values]
            /\ \A s \in Slots : s <= sp => main'[s] = main[s]
        BY <1>2, <3>1, <3>2, PushFrame, Ring3Assumption DEF Values
      <3>4. Kept'
        BY <1>2, <1>3, <3>1, <3>3, DepthFits, Ring3Assumption DEF Kept, Slots
      <3>5. pc = "capture" => main'[depth + 1] = "chain" /\ main'[depth + 2] = "chain"
        BY <1>1, <1>2, <3>1, <3>3, DepthFits, Ring3Assumption DEF Context, Slots
      <3> QED
        BY <3>1, <3>2, <3>3, <3>4, <3>5, Ring3Assumption DEF Stacks
    <2> QED
      BY <2>1, <2>2
  <1>6. Ring3TypeOK'
    BY <1>2, <1>3, <1>4, <1>5 DEF Ring3TypeOK, PCs
  <1>7. Context(frame.pc, frame.cpl, frame.intr, frame.flags, frame.stk, frame.sp, frame.regs)'
    BY <1>1, <1>3, <1>4, <1>5 DEF Context, ResumeOK
  <1>8. frame'.intr /\ (v \in {"exit", "fault", "syscall"} => frame'.pc = "user")
    BY <1>4
  <1> QED
    BY <1>2, <1>3, <1>5, <1>6, <1>7, <1>8 DEF Ring3Inv, ControlInv

(* An exception of the kernel itself: its handler is the panic, whatever    *)
(* the stack it pushed its frame on.                                        *)
LEMMA FaultInv ==
  ASSUME Ring3Inv, cpl # 3, EnterIsr("fault"), UNCHANGED picVars
  PROVE  Ring3Inv'
  <1>1. Ring3TypeOK /\ stray = FALSE /\ depth \in Depths \cup {Base}
    BY DEF Ring3Inv
  <1>2. /\ pc' = "isr" /\ vec' = "fault" /\ cpl' = 0 /\ intr' = FALSE /\ flags' = {}
        /\ stk' = stk /\ sp' = sp + FrameSlots
        /\ frame' = [cpl |-> cpl, intr |-> intr, flags |-> flags, stk |-> stk, sp |-> sp,
                     pc |-> pc, regs |-> regs]
        /\ main' = IF stk = "main" THEN Push(sp, FrameSlots, "junk") ELSE main
        /\ UNCHANGED <<regs, cr3, resume, proc_built, depth, stray, irr, isr>>
    BY DEF EnterIsr, history, picVars
  <1>3. /\ frame' \in [cpl : {0, 3}, intr : BOOLEAN, flags : SUBSET Flags, stk : Stacks,
                       sp : Nat, pc : PCs, regs : Values]
        /\ frame'.cpl = cpl
    BY <1>1, <1>2 DEF Ring3TypeOK
  <1>4. sp \in Nat /\ sp' \in Nat
    BY <1>1, <1>2, Ring3Assumption DEF Ring3TypeOK
  <1>5. main' \in [Slots -> Values]
    BY <1>1, <1>2, <1>4, PushFrame, Ring3Assumption DEF Ring3TypeOK, Values
  <1>6. Ring3TypeOK'
    BY <1>1, <1>2, <1>3, <1>4, <1>5 DEF Ring3TypeOK, PCs
  <1>7. Panicking'
    BY <1>2, <1>3 DEF Panicking
  <1> QED
    BY <1>1, <1>2, <1>6, <1>7 DEF Ring3Inv, ControlInv

(* The kernel's main line.                                                  *)
LEMMA MainStepInv ==
  ASSUME Ring3Inv, MainStep
  PROVE  Ring3Inv'
  <1>1. CASE CommandDone
    <2>1. pc = "cmd" /\ pc' = "back"
          /\ UNCHANGED <<cpl, intr, flags, stk, sp, regs, vec, frame, cr3, main, resume,
                         proc_built, irr, isr, depth, stray>>
      BY <1>1 DEF CommandDone, memVars, picVars, history
    <2>2. Ring3TypeOK' /\ Kept'
      BY <2>1, InContext DEF Ring3TypeOK, Kept, PCs
    <2>3. Context(pc, cpl, intr, flags, stk, sp, regs)'
      BY <2>1, InContext DEF Context
    <2> QED
      BY <2>1, <2>2, <2>3, InContext DEF Ring3Inv, ControlInv
  <1>2. CASE CallProcRun
    <2>1. /\ pc = "cmd" /\ pc' = "capture" /\ main' = Push(sp, 2, "chain") /\ sp' = sp + 2
          /\ UNCHANGED <<cpl, intr, flags, stk, regs, vec, frame, cr3, resume, proc_built,
                         irr, isr, depth, stray>>
      BY <1>2 DEF CallProcRun, picVars, history
    <2>2. sp = depth /\ depth \in Depths /\ depth \in Nat
      BY <2>1, InContext, DepthFits DEF Context
    <2>3. /\ main' \in [Slots -> Values]
          /\ \A s \in Slots : s <= depth => main'[s] = main[s]
          /\ \A s \in Slots : depth < s /\ s <= depth + 2 => main'[s] = "chain"
      BY <2>1, <2>2, InContext, PushFrame DEF Values
    <2>4. Ring3TypeOK'
      BY <2>1, <2>2, <2>3, InContext DEF Ring3TypeOK, PCs
    <2>5. Kept'
      BY <2>1, <2>3, InContext, DepthFits, Ring3Assumption DEF Kept, Slots
    <2>6. main'[depth + 1] = "chain" /\ main'[depth + 2] = "chain"
      BY <2>2, <2>3, DepthFits, Ring3Assumption DEF Slots
    <2>7. Context(pc, cpl, intr, flags, stk, sp, regs)'
      BY <2>1, <2>2, <2>6, InContext DEF Context
    <2> QED
      BY <2>1, <2>4, <2>5, <2>7, InContext DEF Ring3Inv, ControlInv
  <1>3. CASE Capture
    <2>1. /\ pc = "capture" /\ pc' = "enter"
          /\ UNCHANGED <<cpl, intr, flags, stk, sp, regs, vec, frame, cr3, main, proc_built,
                         irr, isr, depth, stray>>
      BY <1>3 DEF Capture, picVars, history
    <2>2. sp = depth + 2 /\ depth \in Nat /\ main[depth + 1] = "chain" /\ main[depth + 2] = "chain"
      BY <2>1, InContext, DepthFits DEF Context
    <2>3. resume' = [addr |-> "chain", sp |-> depth, regs |-> "chain"]
      BY <1>3, <2>1, <2>2, InContext DEF Capture, Context
    <2>4. Ring3TypeOK' /\ Kept'
      BY <2>1, <2>2, <2>3, InContext DEF Ring3TypeOK, Kept, PCs, Values
    <2>5. Context(pc, cpl, intr, flags, stk, sp, regs)'
      BY <2>1, <2>3, InContext DEF Context, ResumeOK
    <2> QED
      BY <2>1, <2>4, <2>5, InContext DEF Ring3Inv, ControlInv
  <1>4. CASE proc_enter
    <2>1. /\ pc = "enter" /\ pc' = "launch" /\ proc_built' = TRUE /\ cr3' = "proc"
          /\ main' = Push(sp, EnterSlots, "junk") /\ sp' = sp + EnterSlots
          /\ UNCHANGED <<cpl, intr, flags, stk, regs, vec, frame, resume, irr, isr, depth, stray>>
      BY <1>4 DEF proc_enter, picVars, history
    <2>2. sp = depth + 2 /\ depth \in Nat /\ sp \in Nat
      BY <2>1, InContext, DepthFits DEF Context
    <2>3. /\ main' \in [Slots -> Values]
          /\ \A s \in Slots : s <= sp => main'[s] = main[s]
      BY <2>1, <2>2, InContext, PushFrame, Ring3Assumption DEF Values
    <2>4. Ring3TypeOK'
      BY <2>1, <2>2, <2>3, InContext, Ring3Assumption DEF Ring3TypeOK, PCs
    <2>5. Kept'
      BY <2>1, <2>2, <2>3, InContext, DepthFits, Ring3Assumption DEF Kept, Slots
    <2>6. Context(pc, cpl, intr, flags, stk, sp, regs)'
      BY <2>1, <2>2, InContext DEF Context, ResumeOK
    <2> QED
      BY <2>1, <2>4, <2>5, <2>6, InContext DEF Ring3Inv, ControlInv
  <1>5. CASE Launch
    <2>1. /\ pc = "launch" /\ pc' = "user" /\ cpl' = 3 /\ intr' = TRUE /\ flags' = {}
          /\ stk' = "user" /\ sp' = 0
          /\ UNCHANGED <<regs, vec, frame, cr3, main, resume, proc_built, irr, isr, depth, stray>>
      BY <1>5 DEF Launch, memVars, picVars, history
    <2>2. Ring3TypeOK' /\ Kept'
      BY <2>1, InContext DEF Ring3TypeOK, Kept, PCs, Stacks
    <2>3. Context(pc, cpl, intr, flags, stk, sp, regs)'
      BY <2>1, InContext DEF Context, ResumeOK
    <2> QED
      BY <2>1, <2>2, <2>3, InContext DEF Ring3Inv, ControlInv
  <1>6. CASE LaunchFault
    <2>1. pc = "launch" /\ EnterIsr("fault") /\ UNCHANGED picVars
      BY <1>6 DEF LaunchFault
    <2>2. cpl # 3
      BY <2>1, InContext DEF Context
    <2> QED
      BY <2>1, <2>2, FaultInv
  <1>7. CASE user_return_cli
    <2>1. /\ pc = "user_return" /\ pc' = "user_return_rsp" /\ intr' = FALSE
          /\ UNCHANGED <<cpl, flags, stk, sp, regs, vec, frame, cr3, main, resume, proc_built,
                         irr, isr, depth, stray>>
      BY <1>7 DEF user_return_cli, memVars, picVars, history
    <2>2. Ring3TypeOK' /\ Kept'
      <3>1. Ring3TypeOK /\ Kept
        BY <2>1, InContext
      <3>2. /\ pc' \in PCs /\ intr' \in BOOLEAN
            /\ UNCHANGED <<cpl, flags, stk, sp, regs, vec, frame, cr3, main, resume, proc_built,
                           irr, isr, depth, stray>>
        BY <2>1 DEF PCs
      <3>3. Ring3TypeOK'
        BY <3>1, <3>2 DEF Ring3TypeOK
      <3>4. Kept'
        BY <3>1, <3>2 DEF Kept
      <3> QED
        BY <3>3, <3>4
    <2>3. Context(pc, cpl, intr, flags, stk, sp, regs)'
      BY <2>1, InContext DEF Context, ResumeOK
    <2> QED
      BY <2>1, <2>2, <2>3, InContext DEF Ring3Inv, ControlInv
  <1>8. CASE user_return
    <2>1. pc = "user_return_rsp" /\ "TF" \notin flags
      BY <1>8 DEF user_return
    <2>2. ResumeOK
      BY <2>1, InContext DEF Context
    <2>3. /\ pc' = "back" /\ stk' = "main" /\ sp' = depth /\ regs' = "chain" /\ intr' = TRUE
          /\ UNCHANGED <<cpl, flags, vec, frame, cr3, main, resume, proc_built, irr, isr,
                         depth, stray>>
      BY <1>8, <2>2 DEF user_return, ResumeOK, memVars, picVars, history
    <2>4. Ring3TypeOK' /\ Kept'
      BY <2>3, InContext, <2>1 DEF Ring3TypeOK, Kept, PCs, Stacks, Values
    <2>5. Context(pc, cpl, intr, flags, stk, sp, regs)'
      BY <2>1, <2>3, InContext DEF Context
    <2> QED
      BY <2>1, <2>3, <2>4, <2>5, InContext DEF Ring3Inv, ControlInv
  <1>9. CASE SingleStep
    <2>1. pc = "user_return_rsp" /\ EnterIsr("fault") /\ UNCHANGED picVars
      BY <1>9 DEF SingleStep
    <2>2. cpl # 3
      BY <2>1, InContext DEF Context
    <2> QED
      BY <2>1, <2>2, FaultInv
  <1>10. CASE BackInRepl
    <2>1. pc = "back"
      BY <1>10 DEF BackInRepl
    <2>2. /\ pc' = "repl" /\ sp' = Base /\ depth' = Base
          /\ UNCHANGED <<cpl, intr, flags, stk, regs, vec, frame, cr3, main, resume,
                         proc_built, irr, isr, stray>>
      BY <1>10, <2>1, InContext DEF BackInRepl, Kept, memVars, picVars
    <2>3. Base <= depth /\ Base \in Nat /\ depth \in Nat
      BY <2>1, InContext, DepthFits, Ring3Assumption
    <2>4. Ring3TypeOK' /\ Kept'
      BY <2>1, <2>2, <2>3, InContext DEF Ring3TypeOK, Kept, PCs
    <2>5. Context(pc, cpl, intr, flags, stk, sp, regs)'
      BY <2>1, <2>2, InContext DEF Context
    <2> QED
      BY <2>1, <2>2, <2>4, <2>5, InContext DEF Ring3Inv, ControlInv
  <1> QED
    BY <1>1, <1>2, <1>3, <1>4, <1>5, <1>6, <1>7, <1>8, <1>9, <1>10 DEF MainStep

(* The end of a handler restores the context it interrupted, or that of     *)
(* user_return; a panic ends in a halt.                                     *)
LEMMA IsrStepInv ==
  ASSUME Ring3Inv, IsrStep
  PROVE  Ring3Inv'
  <1>1. pc \in {"isr", "iret"}
    BY DEF IsrStep, HandleTermination, Terminating, Panic, HandleSyscall, HandleIrq,
           HandleSpurious, Iretq
  <1>2. Ring3TypeOK /\ stray = FALSE /\ depth \in Depths \cup {Base} /\ cpl = 0 /\ ~intr
    BY <1>1 DEF Ring3Inv, ControlInv, Context
  <1>3. ASSUME ~Panicking
        PROVE  /\ Kept
               /\ Context(frame.pc, frame.cpl, frame.intr, frame.flags, frame.stk, frame.sp, frame.regs)
               /\ pc = "isr" => frame.intr
               /\ pc = "isr" /\ vec \in {"exit", "fault", "syscall"} => frame.pc = "user"
    BY <1>1, <1>3 DEF Ring3Inv, ControlInv, Context
  <1>4. CASE HandleTermination
    <2>1. ~Panicking /\ pc = "isr" /\ vec \in {"exit", "fault"}
      BY <1>4 DEF HandleTermination, Terminating, Panicking
    <2>2. /\ pc' = "iret" /\ frame' = Rewritten
          /\ UNCHANGED <<cpl, intr, flags, stk, sp, regs, vec, cr3, main, resume, proc_built,
                         irr, isr, depth, stray>>
      BY <1>4 DEF HandleTermination, memVars, picVars, history
    <2>3. /\ frame'.cpl = 0 /\ frame'.stk = "main" /\ frame'.sp = 0
          /\ frame'.pc = "user_return" /\ frame'.intr = FALSE
          /\ frame'.regs = frame.regs /\ frame'.flags = frame.flags
          /\ frame' \in [cpl : {0, 3}, intr : BOOLEAN, flags : SUBSET Flags, stk : Stacks,
                          sp : Nat, pc : PCs, regs : Values]
      BY <1>2, <2>2 DEF Rewritten, Ring3TypeOK, Stacks, PCs
    <2>4. Ring3TypeOK' /\ Kept'
      BY <1>2, <1>3, <2>1, <2>2, <2>3 DEF Ring3TypeOK, Kept, PCs
    <2>5. Context(frame.pc, frame.cpl, frame.intr, frame.flags, frame.stk, frame.sp, frame.regs)'
      BY <1>3, <2>1, <2>2, <2>3 DEF Context, ResumeOK
    <2> QED
      BY <1>2, <2>2, <2>4, <2>5 DEF Ring3Inv, ControlInv
  <1>5. CASE Panic
    <2>1. pc' = "halted"
          /\ UNCHANGED <<cpl, intr, flags, stk, sp, regs, vec, frame, cr3, main, resume,
                         proc_built, irr, isr, depth, stray>>
      BY <1>5 DEF Panic, memVars, picVars, history
    <2>2. Ring3TypeOK'
      BY <1>2, <2>1 DEF Ring3TypeOK, PCs
    <2> QED
      BY <1>2, <2>1, <2>2 DEF Ring3Inv, ControlInv, Panicking
  <1>6. CASE HandleSyscall \/ HandleIrq \/ HandleSpurious
    <2>1. /\ pc = "isr" /\ vec # "fault" /\ pc' = "iret" /\ isr' \subseteq isr
          /\ UNCHANGED <<cpl, intr, flags, stk, sp, regs, vec, frame, cr3, main, resume,
                         proc_built, irr, depth, stray>>
      BY <1>6 DEF HandleSyscall, HandleIrq, HandleSpurious, memVars, picVars, history
    <2>2. ~Panicking
      BY <2>1 DEF Panicking
    <2>3. Ring3TypeOK' /\ Kept'
      BY <1>2, <1>3, <2>1, <2>2 DEF Ring3TypeOK, Kept, PCs
    <2>4. Context(frame.pc, frame.cpl, frame.intr, frame.flags, frame.stk, frame.sp, frame.regs)'
      BY <1>3, <2>1, <2>2 DEF Context, ResumeOK
    <2> QED
      BY <1>2, <2>1, <2>3, <2>4 DEF Ring3Inv, ControlInv
  <1>7. CASE Iretq
    <2>1. /\ pc = "iret" /\ pc' = frame.pc /\ cpl' = frame.cpl /\ intr' = frame.intr
          /\ flags' = frame.flags /\ stk' = frame.stk /\ sp' = frame.sp /\ regs' = frame.regs
          /\ UNCHANGED <<vec, frame, cr3, main, resume, proc_built, irr, isr, depth, stray>>
      BY <1>7 DEF Iretq, memVars, picVars, history
    <2>2. ~Panicking
      BY <2>1 DEF Panicking
    <2>3. Ring3TypeOK' /\ Kept'
      BY <1>2, <1>3, <2>1, <2>2 DEF Ring3TypeOK, Kept
    <2>4. Context(pc, cpl, intr, flags, stk, sp, regs)'
      BY <1>3, <2>1, <2>2 DEF Context, ResumeOK
    <2> QED
      BY <1>2, <2>1, <2>3, <2>4 DEF Ring3Inv, ControlInv
  <1> QED
    BY <1>4, <1>5, <1>6, <1>7 DEF IsrStep

(* Whether a system call has stored elsewhere is not forgotten.             *)
LEMMA StrayStays ==
  ASSUME [Next]_vars
  PROVE  stray' = stray \/ (stray' = TRUE /\ StrayStore)
  <1>1. ASSUME NEW d \in Depths, Command(d) PROVE stray' = stray
    BY <1>1 DEF Command
  <1>2. CASE MainStep
    BY <1>2 DEF MainStep, CommandDone, CallProcRun, Capture, proc_enter, Launch, LaunchFault,
                user_return_cli, user_return, SingleStep, BackInRepl, EnterIsr, history
  <1>3. CASE IsrStep
    BY <1>3 DEF IsrStep, HandleTermination, Panic, HandleSyscall, HandleIrq, HandleSpurious,
                Iretq, history
  <1>4. CASE KernelException \/ SyscallFault \/ UserWork \/ Spurious
    BY <1>4 DEF KernelException, SyscallFault, UserWork, Spurious, EnterIsr, history
  <1>5. ASSUME NEW f \in SUBSET Flags, UserFlags(f) PROVE stray' = stray
    BY <1>5 DEF UserFlags, history
  <1>6. ASSUME NEW v \in {"exit", "fault", "syscall"}, UserTrap(v) PROVE stray' = stray
    BY <1>6 DEF UserTrap, EnterIsr, history
  <1>7. ASSUME NEW i \in Lines, Raise(i) \/ Irq(i) PROVE stray' = stray
    BY <1>7 DEF Raise, Irq, EnterIsr, history
  <1>8. CASE StrayStore
    BY <1>8 DEF StrayStore
  <1>9. CASE UNCHANGED vars
    BY <1>9 DEF vars, history
  <1> QED
    BY <1>1, <1>2, <1>3, <1>4, <1>5, <1>6, <1>7, <1>8, <1>9 DEF Next

(* Every step but a stray store preserves the invariant.                    *)
LEMMA NextInv ==
  ASSUME Ring3Inv, [Next]_vars, ~StrayStore
  PROVE  Ring3Inv'
  <1>1. ASSUME NEW d \in Depths, Command(d) PROVE Ring3Inv'
    <2>1. /\ pc = "repl" /\ pc' = "cmd" /\ main' = Push(sp, d - sp, "chain")
          /\ sp' = d /\ depth' = d
          /\ UNCHANGED <<cpl, intr, flags, stk, regs, vec, frame, cr3, resume, proc_built,
                         irr, isr, stray>>
      BY <1>1 DEF Command, picVars
    <2>2. sp = Base /\ depth = Base /\ d \in Nat /\ d - sp \in Nat /\ d <= StackSlots /\ sp \in Nat
      BY <2>1, InContext, Ring3Assumption DEF Context
    <2>3. /\ main' \in [Slots -> Values]
          /\ \A s \in Slots : s <= sp => main'[s] = main[s]
          /\ \A s \in Slots : sp < s /\ s <= sp + (d - sp) => main'[s] = "chain"
      BY <2>1, <2>2, InContext, PushFrame DEF Values
    <2>4. Ring3TypeOK'
      BY <2>1, <2>2, <2>3, InContext DEF Ring3TypeOK, PCs
    <2>5. Kept'
      BY <2>1, <2>2, <2>3, InContext, Ring3Assumption DEF Kept, Slots
    <2>6. Context(pc, cpl, intr, flags, stk, sp, regs)'
      BY <2>1, InContext DEF Context
    <2> QED
      BY <2>1, <2>4, <2>5, <2>6, InContext DEF Ring3Inv, ControlInv
  <1>2. CASE KernelException
    <2>1. pc = "cmd" /\ EnterIsr("fault") /\ UNCHANGED picVars
      BY <1>2 DEF KernelException
    <2>2. cpl # 3
      BY <2>1, InContext DEF Context
    <2> QED
      BY <2>1, <2>2, FaultInv
  <1>3. CASE MainStep
    BY <1>3, MainStepInv
  <1>4. CASE IsrStep
    BY <1>4, IsrStepInv
  <1>5. CASE SyscallFault
    <2>1. pc = "isr" /\ EnterIsr("fault") /\ UNCHANGED picVars
      BY <1>5 DEF SyscallFault
    <2>2. cpl # 3
      BY <2>1 DEF Ring3Inv, ControlInv, Context
    <2> QED
      BY <2>1, <2>2, FaultInv
  <1>6. CASE UserWork
    <2>1. /\ pc = "user" /\ regs' = "user"
          /\ UNCHANGED <<pc, cpl, intr, flags, stk, sp, vec, frame, cr3, main, resume, proc_built,
                         irr, isr, depth, stray>>
      BY <1>6 DEF UserWork, memVars, picVars, history
    <2>2. Ring3TypeOK' /\ Kept'
      BY <2>1, InContext DEF Ring3TypeOK, Kept, Values
    <2>3. Context(pc, cpl, intr, flags, stk, sp, regs)'
      BY <2>1, InContext DEF Context, ResumeOK
    <2> QED
      BY <2>1, <2>2, <2>3, InContext DEF Ring3Inv, ControlInv
  <1>7. ASSUME NEW f \in SUBSET Flags, UserFlags(f) PROVE Ring3Inv'
    <2>1. /\ pc = "user" /\ flags' = f
          /\ UNCHANGED <<pc, cpl, intr, stk, sp, regs, vec, frame, cr3, main, resume, proc_built,
                         irr, isr, depth, stray>>
      BY <1>7 DEF UserFlags, memVars, picVars, history
    <2>2. Ring3TypeOK' /\ Kept'
      BY <2>1, InContext DEF Ring3TypeOK, Kept
    <2>3. Context(pc, cpl, intr, flags, stk, sp, regs)'
      BY <2>1, InContext DEF Context, ResumeOK
    <2> QED
      BY <2>1, <2>2, <2>3, InContext DEF Ring3Inv, ControlInv
  <1>8. ASSUME NEW v \in {"exit", "fault", "syscall"}, UserTrap(v) PROVE Ring3Inv'
    <2>1. pc = "user" /\ EnterIsr(v) /\ UNCHANGED picVars
      BY <1>8 DEF UserTrap
    <2>2. intr /\ irr' \subseteq Lines /\ isr' \subseteq Lines
      BY <2>1, InContext DEF Context, picVars, Ring3TypeOK
    <2> QED
      BY <2>1, <2>2, EnterIsrInv
  <1>9. ASSUME NEW i \in Lines, Raise(i) PROVE Ring3Inv'
    <2>1. /\ irr' = irr \cup {i} /\ UNCHANGED <<isr, depth, stray, proc_built, resume, main>>
          /\ UNCHANGED <<pc, cpl, intr, flags, stk, sp, regs, vec, frame, cr3>>
      BY <1>9 DEF Raise, cpuVars, memVars, history
    <2>2. Ring3TypeOK' /\ (Panicking \/ Kept)'
      BY <2>1 DEF Ring3Inv, Ring3TypeOK, Panicking, Kept
    <2>3. ControlInv'
      BY <2>1 DEF Ring3Inv, ControlInv, Context, ResumeOK, Panicking
    <2> QED
      BY <2>1, <2>2, <2>3 DEF Ring3Inv
  <1>10. ASSUME NEW i \in Lines, Irq(i) PROVE Ring3Inv'
    <2>1. intr /\ EnterIsr("irq") /\ irr' \subseteq Lines /\ isr' \subseteq Lines
      BY <1>10 DEF Irq, Ring3Inv, Ring3TypeOK
    <2> QED
      BY <2>1, EnterIsrInv
  <1>11. CASE Spurious
    <2>1. intr /\ EnterIsr("spurious") /\ irr' \subseteq Lines /\ isr' \subseteq Lines
      BY <1>11 DEF Spurious, picVars, Ring3Inv, Ring3TypeOK
    <2> QED
      BY <2>1, EnterIsrInv
  <1>12. CASE UNCHANGED vars
    <2>1. /\ UNCHANGED <<irr, isr, depth, stray, proc_built, resume, main>>
          /\ UNCHANGED <<pc, cpl, intr, flags, stk, sp, regs, vec, frame, cr3>>
      BY <1>12 DEF vars, cpuVars, memVars, picVars, history
    <2>2. Ring3TypeOK' /\ (Panicking \/ Kept)'
      BY <2>1 DEF Ring3Inv, Ring3TypeOK, Panicking, Kept
    <2>3. ControlInv'
      BY <2>1 DEF Ring3Inv, ControlInv, Context, ResumeOK, Panicking
    <2> QED
      BY <2>1, <2>2, <2>3 DEF Ring3Inv
  <1> QED
    BY <1>1, <1>2, <1>3, <1>4, <1>5, <1>6, <1>7, <1>8, <1>9, <1>10, <1>11, <1>12 DEF Next

(* The inductive invariant holds throughout.                                *)
LEMMA InvHolds == Spec => []TrustedInv
  <1>1. Init => TrustedInv
    BY InitInv DEF TrustedInv, Init
  <1>2. TrustedInv /\ [Next]_vars => TrustedInv'
    <2> SUFFICES ASSUME TrustedInv, [Next]_vars PROVE TrustedInv'
      OBVIOUS
    <2>1. stray' = stray \/ (stray' = TRUE /\ StrayStore)
      BY StrayStays
    <2>2. CASE StrayStore
      BY <2>2 DEF StrayStore, TrustedInv
    <2>3. CASE ~StrayStore
      BY <2>1, <2>3, NextInv DEF TrustedInv
    <2> QED
      BY <2>2, <2>3
  <1> QED
    BY <1>1, <1>2, PTL DEF Spec

----------------------------------------------------------------------------
(* Every variable keeps its type while programs pass system calls pointers  *)
(* into their own memory; in particular no path of user_return or of an     *)
(* interrupt computes a stack pointer below the stack.                      *)
THEOREM TypeCorrect == Spec => [](~stray => Ring3TypeOK)
  <1>1. TrustedInv => (~stray => Ring3TypeOK)
    BY DEF TrustedInv, Ring3Inv
  <1> QED
    BY <1>1, InvHolds, PTL

(* Whatever sequence of commands, programs, exits, faults and interrupts    *)
(* runs, as long as no system call was given a pointer out of the program's *)
(* memory, the frames of the suspended command are not written to before    *)
(* the kernel panics (entry.asm:146-175, idt.c:96-113, tss.c:26-33).         *)
THEOREM ChainStaysIntact == Spec => []ChainIntact
  <1>1. TrustedInv => ChainIntact
    BY DEF TrustedInv, Ring3Inv, ChainIntact, Kept
  <1> QED
    BY <1>1, InvHolds, PTL

(* Under the same condition user_return, when it is not cut off by a        *)
(* single-step trap, lands at the call site of proc_run*, with its stack    *)
(* pointer and its callee-saved registers (proc.c:92-157).                   *)
THEOREM CommandResumes == Spec => []ResumesAtCallSite
  <1>1. Ring3Inv => ResumesAtCallSite
    BY DEF Ring3Inv, ControlInv, Context, ResumesAtCallSite, Panicking
  <1>2. TrustedInv => ResumesAtCallSite
    BY <1>1 DEF TrustedInv, ResumesAtCallSite
  <1> QED
    BY <1>2, InvHolds, PTL

(* Under the same condition ring 3 is entered and re-entered only to run a  *)
(* program, in its own address space, on its own stack and with interrupts  *)
(* enabled.                                                                 *)
THEOREM Ring3OnlyPrograms == Spec => []UserModeExact
  <1>1. Ring3Inv => UserModeExact
    BY DEF Ring3Inv, ControlInv, Context, UserModeExact, Panicking
  <1>2. TrustedInv => UserModeExact
    BY <1>1 DEF TrustedInv, UserModeExact
  <1> QED
    BY <1>2, InvHolds, PTL

----------------------------------------------------------------------------
(* The interrupt controller                                                 *)

(* A line is in service exactly while its handler has not sent the EOI, and *)
(* no other line is: the non-specific EOI cannot end the wrong one.         *)
OneLineInService ==
  IF pc = "isr" /\ vec = "irq" THEN \E i \in Lines : isr = {i} ELSE isr = {}

(* The places that run with interrupts off.                                 *)
MaskedPlaces == {"isr", "iret", "user_return", "user_return_rsp", "halted"}

(* Taking a trap or an exception outside an interrupt handler.              *)
LEMMA TrapLines ==
  ASSUME OneLineInService, ~(pc = "isr" /\ vec = "irq"), NEW v, v # "irq",
         EnterIsr(v), UNCHANGED picVars
  PROVE  OneLineInService'
  BY DEF OneLineInService, EnterIsr, picVars

LEMMA NextLines ==
  ASSUME Ring3Inv, OneLineInService, [Next]_vars
  PROVE  OneLineInService'
  <1> USE DEF OneLineInService
  <1>1. /\ intr => pc # "isr"
        /\ pc = "iret" => frame.pc # "isr"
    BY DEF Ring3Inv, ControlInv, Context, Panicking
  <1>2. ASSUME NEW d \in Depths, Command(d) PROVE OneLineInService'
    BY <1>2 DEF Command, picVars
  <1>3. CASE KernelException \/ LaunchFault \/ SingleStep \/ SyscallFault
    BY <1>3, TrapLines DEF KernelException, LaunchFault, SingleStep, SyscallFault
  <1>4. CASE CommandDone \/ CallProcRun \/ Capture \/ proc_enter \/ Launch \/ user_return_cli
             \/ user_return \/ BackInRepl
    BY <1>4 DEF CommandDone, CallProcRun, Capture, proc_enter, Launch, user_return_cli,
                user_return, BackInRepl, picVars
  <1>5. CASE HandleIrq
    <2>1. PICK i \in Lines : isr = {i}
      BY <1>5 DEF HandleIrq
    <2>2. isr' = {}
      BY <1>5, <2>1 DEF HandleIrq, Lines
    <2> QED
      BY <1>5, <2>2 DEF HandleIrq
  <1>6. CASE HandleTermination \/ Panic \/ HandleSyscall \/ HandleSpurious \/ Iretq
    BY <1>1, <1>6 DEF HandleTermination, Terminating, Panic, HandleSyscall, HandleSpurious,
                      Iretq, picVars
  <1>7. CASE UserWork \/ StrayStore
    BY <1>7 DEF UserWork, StrayStore, cpuVars, picVars
  <1>8. ASSUME NEW f \in SUBSET Flags, UserFlags(f) PROVE OneLineInService'
    BY <1>8 DEF UserFlags, picVars
  <1>9. ASSUME NEW v \in {"exit", "fault", "syscall"}, UserTrap(v) PROVE OneLineInService'
    BY <1>9, TrapLines DEF UserTrap
  <1>10. ASSUME NEW i \in Lines, Raise(i) PROVE OneLineInService'
    BY <1>10 DEF Raise, cpuVars
  <1>11. ASSUME NEW i \in Lines, Irq(i) PROVE OneLineInService'
    BY <1>1, <1>11 DEF Irq, EnterIsr
  <1>12. CASE Spurious
    BY <1>1, <1>12 DEF Spurious, EnterIsr, picVars
  <1>13. CASE UNCHANGED vars
    BY <1>13 DEF vars, cpuVars, picVars
  <1> QED
    BY <1>2, <1>3, <1>4, <1>5, <1>6, <1>7, <1>8, <1>9, <1>10, <1>11, <1>12, <1>13
       DEF Next, MainStep, IsrStep

(* What TimerServed rests on: while programs keep to their memory no path   *)
(* leaves a line in service behind it, and interrupts are off only in a     *)
(* handler, in user_return or after a kernel panic (pic.c:44-49,            *)
(* idt.c:126-137, entry.asm:146-175).                                        *)
THEOREM NoLineStaysInService ==
  Spec => [](~stray => OneLineInService /\ (intr <=> pc \notin MaskedPlaces))
  <1> DEFINE LinesInv == stray = FALSE => OneLineInService
  <1>1. Init => LinesInv
    BY DEF Init, OneLineInService
  <1>2. LinesInv /\ TrustedInv /\ [Next]_vars => LinesInv'
    <2> SUFFICES ASSUME LinesInv, TrustedInv, [Next]_vars, stray' = FALSE
                 PROVE  OneLineInService'
      OBVIOUS
    <2>1. stray = FALSE
      BY StrayStays
    <2> QED
      BY <2>1, NextLines DEF TrustedInv
  <1>3. Spec => []LinesInv
    BY <1>1, <1>2, InvHolds, PTL DEF Spec
  <1>4. Ring3Inv => (intr <=> pc \notin MaskedPlaces)
    BY DEF Ring3Inv, Ring3TypeOK, PCs, ControlInv, Context, MaskedPlaces, Panicking
  <1>5. TrustedInv /\ LinesInv => (~stray => OneLineInService /\ (intr <=> pc \notin MaskedPlaces))
    BY <1>4 DEF TrustedInv
  <1> QED
    BY <1>3, <1>5, InvHolds, PTL

----------------------------------------------------------------------------
(* From a program's end to the prompt                                       *)

(* Where the code is that executes or that the handler will return to.      *)
Place == IF pc \in {"isr", "iret"} THEN frame.pc ELSE pc

(* The stations left on the way to the prompt; 0: not on it.                *)
WayLeft ==
  IF Panicking THEN 0
  ELSE IF Terminating THEN 5
  ELSE IF pc = "iret" /\ frame.pc = "user_return" THEN 4
  ELSE IF pc = "user_return" THEN 3
  ELSE IF pc = "user_return_rsp" THEN 2
  ELSE IF Place = "back" THEN 1
  ELSE 0

StaysOnTheWay ==
  [][~stray /\ WayLeft > 0 =>
       \/ UNCHANGED cpuVars
       \/ WayLeft > 1 /\ WayLeft' = WayLeft - 1
       \/ WayLeft = 1 /\ WayLeft' = 1
       \/ pc = "back" /\ pc' = "repl"
       \/ pc = "user_return_rsp" /\ "TF" \in flags /\ Panicking']_vars

(* What TerminationReturns rests on: from the exit system call or a fault   *)
(* on, nothing but the next instruction of the way happens until the chain  *)
(* has its stack back, in particular no interrupt, with one exception: a    *)
(* program that had set TF makes user_return trap after its cli, and the    *)
(* kernel panics.  After that interrupts return to the chain, and it can    *)
(* only return to the prompt (idt.c:96-113, syscall.c:29-41,                *)
(* entry.asm:157-175).                                                      *)
THEOREM OneWayToThePrompt == Spec => StaysOnTheWay
  <1> DEFINE B == \/ UNCHANGED cpuVars
                  \/ WayLeft > 1 /\ WayLeft' = WayLeft - 1
                  \/ WayLeft = 1 /\ WayLeft' = 1
                  \/ pc = "back" /\ pc' = "repl"
                  \/ pc = "user_return_rsp" /\ "TF" \in flags /\ Panicking'
             A == ~stray /\ WayLeft > 0 => B
  <1>1. TrustedInv /\ [Next]_vars => [A]_vars
    <2> SUFFICES ASSUME TrustedInv, Next, ~stray, WayLeft > 0 PROVE B
      OBVIOUS
    <2>0. Ring3Inv
      BY DEF TrustedInv
    <2> USE DEF Place, WayLeft
    <2>1. CASE Terminating
      <3>1. ~intr /\ pc = "isr" /\ vec \in {"exit", "fault"} /\ ~Panicking
        BY <2>0, <2>1 DEF Ring3Inv, ControlInv, Context, Terminating, Panicking
      <3>2. HandleTermination \/ \E i \in Lines : Raise(i)
        BY <3>1 DEF Next, MainStep, IsrStep, Command, KernelException, CommandDone, CallProcRun,
             Capture, proc_enter, Launch, LaunchFault, user_return_cli, user_return, SingleStep,
             BackInRepl, HandleTermination, Terminating, Panic, HandleSyscall, HandleIrq,
             HandleSpurious, Iretq, SyscallFault, StrayStore, UserWork, UserFlags, UserTrap,
             Irq, Spurious, Raise, Panicking
      <3>3. CASE HandleTermination
        <4>1. pc' = "iret" /\ frame' = Rewritten
          BY <3>3 DEF HandleTermination
        <4>2. frame'.pc = "user_return"
          BY <2>0, <4>1 DEF Rewritten, Ring3Inv, Ring3TypeOK
        <4> QED
          BY <2>1, <3>1, <4>1, <4>2 DEF Panicking, Terminating
      <3> QED
        BY <3>2, <3>3 DEF Raise
    <2>2. CASE pc = "isr" /\ ~Panicking /\ ~Terminating /\ frame.pc = "back"
      <3>1. ~intr /\ vec \in {"irq", "spurious"}
        BY <2>0, <2>2 DEF Ring3Inv, Ring3TypeOK, ControlInv, Context, Terminating
      <3>2. UNCHANGED cpuVars \/ (pc' = "iret" /\ frame' = frame)
        BY <2>2, <3>1 DEF Next, MainStep, IsrStep, Command, KernelException, CommandDone, CallProcRun,
             Capture, proc_enter, Launch, LaunchFault, user_return_cli, user_return, SingleStep,
             BackInRepl, HandleTermination, Terminating, Panic, HandleSyscall, HandleIrq,
             HandleSpurious, Iretq, SyscallFault, StrayStore, UserWork, UserFlags, UserTrap,
             Irq, Spurious, Raise
      <3> QED
        BY <2>2, <3>2 DEF Panicking, Terminating
    <2>3. CASE pc = "iret" /\ frame.pc \in {"user_return", "back"}
      <3>1. ~intr
        BY <2>0, <2>3 DEF Ring3Inv, ControlInv, Context
      <3>2. UNCHANGED cpuVars \/ pc' = frame.pc
        BY <2>3, <3>1 DEF Next, MainStep, IsrStep, Command, KernelException, CommandDone, CallProcRun,
             Capture, proc_enter, Launch, LaunchFault, user_return_cli, user_return, SingleStep,
             BackInRepl, HandleTermination, Terminating, Panic, HandleSyscall, HandleIrq,
             HandleSpurious, Iretq, SyscallFault, StrayStore, UserWork, UserFlags, UserTrap,
             Irq, Spurious, Raise
      <3> QED
        BY <2>3, <3>2 DEF Panicking, Terminating
    <2>4. CASE pc \in {"user_return", "user_return_rsp"}
      <3>1. ~intr /\ resume.addr = "chain" /\ cpl = 0
        BY <2>0, <2>4 DEF Ring3Inv, Ring3TypeOK, ControlInv, Context, ResumeOK, Panicking
      <3>2. \/ UNCHANGED cpuVars
            \/ pc = "user_return" /\ pc' = "user_return_rsp"
            \/ pc = "user_return_rsp" /\ pc' = "back"
            \/ SingleStep
        BY <2>4, <3>1 DEF Next, MainStep, IsrStep, Command, KernelException, CommandDone, CallProcRun,
             Capture, proc_enter, Launch, LaunchFault, user_return_cli, user_return, SingleStep,
             BackInRepl, HandleTermination, Terminating, Panic, HandleSyscall, HandleIrq,
             HandleSpurious, Iretq, SyscallFault, StrayStore, UserWork, UserFlags, UserTrap,
             Irq, Spurious, Raise
      <3>3. CASE SingleStep
        <4>1. /\ pc = "user_return_rsp" /\ "TF" \in flags
              /\ pc' = "isr" /\ vec' = "fault" /\ frame'.cpl = cpl
          BY <3>3 DEF SingleStep, EnterIsr
        <4> QED
          BY <3>1, <4>1 DEF Panicking
      <3> QED
        BY <2>4, <3>2, <3>3 DEF Panicking, Terminating
    <2>5. CASE pc = "back"
      <3>1. Kept
        BY <2>0, <2>5, InContext
      <3>2. \/ UNCHANGED cpuVars
            \/ pc' = "repl"
            \/ pc' = "isr" /\ vec' \in {"irq", "spurious"} /\ frame'.pc = "back"
        BY <2>5, <3>1 DEF Next, MainStep, IsrStep, Command, KernelException, CommandDone, CallProcRun,
             Capture, proc_enter, Launch, LaunchFault, user_return_cli, user_return, SingleStep,
             BackInRepl, HandleTermination, Terminating, Panic, HandleSyscall, HandleIrq,
             HandleSpurious, Iretq, SyscallFault, StrayStore, UserWork, UserFlags, UserTrap,
             Irq, Spurious, Raise,
             EnterIsr, Kept
      <3> QED
        BY <2>5, <3>2 DEF Panicking, Terminating
    <2> QED
      BY <2>1, <2>2, <2>3, <2>4, <2>5
  <1> QED
    BY <1>1, InvHolds, PTL DEF Spec, StaysOnTheWay
=============================================================================
