------------------------------- MODULE Ring3 -------------------------------
(***************************************************************************)
(* Leaving the REPL for a ring-3 program and coming back (ADR-013, ADR-021): *)
(* proc.c, tss.c, idt.c, syscall.c (exit), interrupt.asm and user_return of *)
(* entry.asm, on one CPU with the 8259 interrupt controller of pic.c.       *)
(*                                                                          *)
(* The main stack is an array of slots counted from stack_top; a slot holds *)
(* "chain" while it is what the live call chain put there, and "junk" once  *)
(* anything else was written to it.  sp is the number of slots in use, so   *)
(* stack_top itself is sp = 0.  A register file is what the chain ("chain") *)
(* or the program ("user") left in it, or anything else ("junk").  Of the   *)
(* flags a program can set and the kernel inherits, TF and NT are modelled. *)
(***************************************************************************)
EXTENDS Integers

CONSTANTS
  StackSlots,   \* slots of the main stack (16 KiB in linker.ld)
  Base,         \* slots of kmain and repl_run
  Depths,       \* slots in use where a command calls proc_run*
  FrameSlots,   \* slots an interrupt uses: struct isr_frame and the handler
  EnterSlots    \* slots of proc_enter and its iretq frame

ASSUME Ring3Assumption ==
  /\ StackSlots \in Nat /\ Base \in Nat /\ FrameSlots \in Nat /\ EnterSlots \in Nat
  /\ Depths \subseteq Nat
  /\ \A d \in Depths : /\ Base <= d
                       /\ d + 2 + EnterSlots + FrameSlots <= StackSlots
  /\ Base + FrameSlots <= StackSlots

VARIABLES
  \* The CPU.
  pc,        \* what it executes
  cpl,       \* current privilege level
  intr,      \* RFLAGS.IF
  flags,     \* those of TF and NT that are set in RFLAGS
  stk, sp,   \* the stack rsp points into, and how deep
  regs,      \* the callee-saved registers
  vec,       \* the vector being handled
  frame,     \* the struct isr_frame of the handler in progress
  cr3,       \* "boot" or "proc": whose page tables are loaded
  \* Memory.
  main,      \* the main stack
  resume,    \* proc_resume_addr, _rsp, _regs
  proc_built,
  \* The interrupt controller: requested and in-service lines.
  irr, isr,
  \* History: the slots that the live call chain owns, and whether a system
  \* call ever stored outside the program's memory.
  depth,
  stray

cpuVars == <<pc, cpl, intr, flags, stk, sp, regs, vec, frame, cr3>>
memVars == <<main, resume, proc_built>>
picVars == <<irr, isr>>
history == <<depth, stray>>
vars == <<cpuVars, memVars, picVars, history>>

Slots == 1 .. StackSlots

(* RFLAGS bits that ring 3 may set with popfq: single step and nested task. *)
Flags == {"TF", "NT"}

(* The unmasked lines: the timer and the keyboard (pic.c:25).               *)
Lines == {0, 1}

(* Write value v to n slots above the d in use.                             *)
Push(d, n, v) == [s \in Slots |-> IF d < s /\ s <= d + n THEN v ELSE main[s]]

----------------------------------------------------------------------------
(* The kernel's main line. *)

(* The REPL calls a command; its frames and locals go on the stack.         *)
Command(d) ==
  /\ pc = "repl"
  /\ pc' = "cmd"
  /\ main' = Push(sp, d - sp, "chain")
  /\ sp' = d
  /\ depth' = d
  /\ UNCHANGED <<cpl, intr, flags, stk, regs, vec, frame, cr3, resume, proc_built, picVars, stray>>

(* A command that runs no program, or a runelf whose file does not load.    *)
CommandDone ==
  /\ pc = "cmd"
  /\ pc' = "back"
  /\ UNCHANGED <<cpl, intr, flags, stk, sp, regs, vec, frame, cr3, memVars, picVars, history>>

(* The call of proc_run, proc_run_elf or proc_run_fault: the return address *)
(* and the saved rbp.                                                       *)
CallProcRun ==
  /\ pc = "cmd"
  /\ pc' = "capture"
  /\ main' = Push(sp, 2, "chain")
  /\ sp' = sp + 2
  /\ UNCHANGED <<cpl, intr, flags, stk, regs, vec, frame, cr3, resume, proc_built, picVars, history>>

(* The asm block of proc_run*: [rbp+8], rbp+16, [rbp] and the registers.    *)
Capture ==
  /\ pc = "capture"
  /\ pc' = "enter"
  /\ resume' = [addr |-> main[sp - 1], sp |-> sp - 2,
                regs |-> IF main[sp] = "chain" THEN regs ELSE "junk"]
  /\ UNCHANGED <<cpl, intr, flags, stk, sp, regs, vec, frame, cr3, main, proc_built, picVars, history>>

(* proc_enter: the address space is built on the first call, cr3 is loaded  *)
(* and never changed back, and the frame for iretq is pushed.               *)
proc_enter ==
  /\ pc = "enter"
  /\ proc_built' = TRUE
  /\ cr3' = "proc"
  /\ main' = Push(sp, EnterSlots, "junk")
  /\ sp' = sp + EnterSlots
  /\ pc' = "launch"
  /\ UNCHANGED <<cpl, intr, flags, stk, regs, vec, frame, resume, picVars, history>>

(* Its iretq starts the program with rflags 0x202: IF set, TF and NT clear. *)
(* With NT set the CPU refuses iretq (LaunchFault).                         *)
Launch ==
  /\ pc = "launch" /\ "NT" \notin flags
  /\ pc' = "user" /\ cpl' = 3 /\ intr' = TRUE /\ flags' = {}
  /\ stk' = "user" /\ sp' = 0
  /\ UNCHANGED <<regs, vec, frame, cr3, memVars, picVars, history>>

(* Mutant: the registers stay as the program left them.                     *)
user_return_no_regs ==
  /\ pc = "user_return_rsp" /\ "TF" \notin flags
  /\ stk' = "main" /\ sp' = resume.sp
  /\ intr' = TRUE
  /\ pc' = IF resume.addr = "chain" THEN "back" ELSE "lost"
  /\ UNCHANGED <<cpl, flags, regs, vec, frame, cr3, memVars, picVars, history>>

(* user_return after its cli: rsp, the registers, sti, jmp.  An interrupt   *)
(* is not taken between sti and the instruction after it.  With TF set the  *)
(* CPU traps before the first of these instructions (SingleStep).           *)
user_return ==
  /\ pc = "user_return_rsp" /\ "TF" \notin flags
  /\ stk' = "main" /\ sp' = resume.sp
  /\ regs' = resume.regs
  /\ intr' = TRUE
  /\ pc' = IF resume.addr = "chain" THEN "back" ELSE "lost"
  /\ UNCHANGED <<cpl, flags, vec, frame, cr3, memVars, picVars, history>>

(* The first instruction of user_return.                                    *)
user_return_cli ==
  /\ pc = "user_return"
  /\ pc' = "user_return_rsp"
  /\ intr' = FALSE
  /\ UNCHANGED <<cpl, flags, stk, sp, regs, vec, frame, cr3, memVars, picVars, history>>

(* The command finishes and returns up the chain to repl_run.               *)
BackInRepl ==
  /\ pc = "back"
  /\ pc' = IF \A s \in 1 .. depth : main[s] = "chain" THEN "repl" ELSE "lost"
  /\ sp' = Base
  /\ depth' = Base
  /\ UNCHANGED <<cpl, intr, flags, stk, regs, vec, frame, cr3, memVars, picVars, stray>>

----------------------------------------------------------------------------
(* Interrupts. *)

(* TSS.RSP0: the CPU switches to the top of int_stack on a ring change.     *)
Rsp0 == [stk |-> "int", sp |-> 0]

(* Interrupt entry through an interrupt gate, and isr_common: the frame is  *)
(* pushed on RSP0's stack when coming from ring 3, else where rsp is.  The  *)
(* gate clears IF, TF and NT.                                               *)
EnterIsr(v) ==
  LET at == IF cpl = 3 THEN Rsp0 ELSE [stk |-> stk, sp |-> sp]
  IN /\ frame' = [cpl |-> cpl, intr |-> intr, flags |-> flags, stk |-> stk, sp |-> sp,
                  pc |-> pc, regs |-> regs]
     /\ pc' = "isr" /\ vec' = v
     /\ cpl' = 0 /\ intr' = FALSE /\ flags' = {}
     /\ stk' = at.stk /\ sp' = at.sp + FrameSlots
     /\ main' = IF at.stk = "main" THEN Push(at.sp, FrameSlots, "junk") ELSE main
     /\ UNCHANGED <<regs, cr3, resume, proc_built, history>>

(* The program computes with every register.                                *)
UserWork ==
  /\ pc = "user"
  /\ regs' = "user"
  /\ UNCHANGED <<pc, cpl, intr, flags, stk, sp, vec, frame, cr3, memVars, picVars, history>>

(* popfq: any value of the flags, IF excepted.                              *)
UserFlags(f) ==
  /\ pc = "user"
  /\ flags' = f
  /\ UNCHANGED <<pc, cpl, intr, stk, sp, regs, vec, frame, cr3, memVars, picVars, history>>

(* int 0x80, or a CPU exception in ring 3, a single-step trap included.     *)
UserTrap(v) ==
  /\ pc = "user"
  /\ EnterIsr(v)
  /\ UNCHANGED picVars

(* The panic command, or another that makes the kernel fault.               *)
KernelException == pc = "cmd" /\ EnterIsr("fault") /\ UNCHANGED picVars

(* The iretq of proc_enter under NT: general protection, in ring 0.         *)
LaunchFault ==
  /\ pc = "launch" /\ "NT" \in flags
  /\ EnterIsr("fault")
  /\ UNCHANGED picVars

(* TF came back with the frame of the program: the CPU executes the cli of  *)
(* user_return and traps, in ring 0 and with rsp at stack_top, so that the  *)
(* frame of the trap goes over the chain's.                                 *)
SingleStep ==
  /\ pc = "user_return_rsp" /\ "TF" \in flags
  /\ EnterIsr("fault")
  /\ UNCHANGED picVars

(* A device raises its line.  A line already requested stays requested.     *)
Raise(i) ==
  /\ irr' = irr \cup {i}
  /\ UNCHANGED <<cpuVars, memVars, isr, history>>

(* The controller interrupts the CPU with its most urgent request.          *)
Irq(i) ==
  /\ intr
  /\ i \in irr /\ \A j \in irr : i <= j
  /\ \A j \in isr : i < j
  /\ irr' = irr \ {i}
  /\ isr' = isr \cup {i}
  /\ EnterIsr("irq")

(* A spurious IRQ 7: nothing is in service for it.                          *)
Spurious ==
  /\ intr
  /\ EnterIsr("spurious")
  /\ UNCHANGED picVars

(* Mutant: IF is left as the program had it.                                *)
RewrittenKeepsIF ==
  [frame EXCEPT !.cpl = 0, !.stk = "main", !.sp = 0, !.pc = "user_return"]

(* Mutant: the frame is not rewritten.                                      *)
RewrittenNot == frame

(* Mutant: the code selector of the program stays.                          *)
RewrittenKeepsCs ==
  [frame EXCEPT !.stk = "main", !.sp = 0, !.pc = "user_return", !.intr = FALSE]

(* The saved frame as the exit system call and a user fault rewrite it: cs, *)
(* ss, rsp = stack_top, rip = user_return, IF cleared; the other flags stay *)
(* as the program left them (rflags &= ~0x200).                             *)
Rewritten ==
  [frame EXCEPT !.cpl = 0, !.stk = "main", !.sp = 0, !.pc = "user_return",
                !.intr = FALSE]

(* The handler runs for a program that ends, by exit or by a fault.         *)
Terminating == pc = "isr" /\ (vec = "exit" \/ (vec = "fault" /\ frame.cpl = 3))

(* isr_handler for exit and for a fault of the program.                     *)
HandleTermination ==
  /\ Terminating
  /\ frame' = Rewritten
  /\ pc' = "iret"
  /\ UNCHANGED <<cpl, intr, flags, stk, sp, regs, vec, cr3, memVars, picVars, history>>

(* An exception of the kernel: the frame is printed, then cli and hlt.      *)
Panic ==
  /\ pc = "isr" /\ vec = "fault" /\ frame.cpl # 3
  /\ pc' = "halted"
  /\ UNCHANGED <<cpl, intr, flags, stk, sp, regs, vec, frame, cr3, memVars, picVars, history>>

(* System calls use the pointers of the program as they are.  One that is   *)
(* not mapped makes the kernel fault, on the interrupt stack.               *)
SyscallFault ==
  /\ pc = "isr" /\ vec = "syscall"
  /\ EnterIsr("fault")
  /\ UNCHANGED picVars

(* read and read_file store at any address.  The two targets that matter    *)
(* here stand for all of the kernel's memory; nothing is claimed after the  *)
(* first store outside the program's.                                       *)
StrayStore ==
  /\ pc = "isr" /\ vec = "syscall" /\ ~stray
  /\ \/ /\ \E s \in Slots : main' = [main EXCEPT ![s] = "user"]
        /\ UNCHANGED resume
     \/ /\ resume' = [addr |-> "user", sp |-> 0, regs |-> "user"]
        /\ UNCHANGED main
  /\ stray' = TRUE
  /\ UNCHANGED <<cpuVars, proc_built, picVars, depth>>

(* Every other system call returns to the program with a result in rax.     *)
HandleSyscall ==
  /\ pc = "isr" /\ vec = "syscall"
  /\ pc' = "iret"
  /\ UNCHANGED <<cpl, intr, flags, stk, sp, regs, vec, frame, cr3, memVars, picVars, history>>

(* Mutant: no end of interrupt.                                             *)
HandleIrqNoEoi ==
  /\ pc = "isr" /\ vec = "irq"
  /\ pc' = "iret"
  /\ UNCHANGED <<cpl, intr, flags, stk, sp, regs, vec, frame, cr3, memVars, picVars, history>>

(* pit_tick or keyboard_irq, then pic_eoi: the non-specific EOI ends the    *)
(* most urgent line in service.                                             *)
HandleIrq ==
  /\ pc = "isr" /\ vec = "irq"
  /\ isr' = {j \in isr : \E k \in isr : k < j}
  /\ pc' = "iret"
  /\ UNCHANGED <<cpl, intr, flags, stk, sp, regs, vec, frame, cr3, memVars, irr, history>>

(* pic_is_spurious: return without an EOI.                                  *)
HandleSpurious ==
  /\ pc = "isr" /\ vec = "spurious"
  /\ pc' = "iret"
  /\ UNCHANGED <<cpl, intr, flags, stk, sp, regs, vec, frame, cr3, memVars, picVars, history>>

(* The end of isr_common: pop the registers, iretq.  In 64-bit mode iretq   *)
(* always pops rsp and ss.                                                  *)
Iretq ==
  /\ pc = "iret"
  /\ pc' = frame.pc /\ cpl' = frame.cpl /\ intr' = frame.intr /\ flags' = frame.flags
  /\ stk' = frame.stk /\ sp' = frame.sp /\ regs' = frame.regs
  /\ UNCHANGED <<vec, frame, cr3, memVars, picVars, history>>

----------------------------------------------------------------------------
Init ==
  /\ pc = "repl" /\ cpl = 0 /\ intr = TRUE /\ flags = {}
  /\ stk = "main" /\ sp = Base
  /\ regs = "chain" /\ vec = "irq"
  /\ frame = [cpl |-> 0, intr |-> TRUE, flags |-> {}, stk |-> "main", sp |-> Base,
              pc |-> "repl", regs |-> "chain"]
  /\ cr3 = "boot"
  /\ main = [s \in Slots |-> IF s <= Base THEN "chain" ELSE "junk"]
  /\ resume = [addr |-> "junk", sp |-> 0, regs |-> "junk"]
  /\ proc_built = FALSE
  /\ irr = {} /\ isr = {}
  /\ depth = Base /\ stray = FALSE

(* What the kernel executes on behalf of a command ...                      *)
MainStep ==
  \/ CommandDone
  \/ CallProcRun
  \/ Capture
  \/ proc_enter
  \/ Launch
  \/ LaunchFault
  \/ user_return_cli
  \/ user_return
  \/ SingleStep
  \/ BackInRepl

(* ... and inside an interrupt handler.                                     *)
IsrStep ==
  \/ HandleTermination
  \/ Panic
  \/ HandleSyscall
  \/ HandleIrq
  \/ HandleSpurious
  \/ Iretq

Next ==
  \/ \E d \in Depths : Command(d)
  \/ KernelException
  \/ MainStep
  \/ IsrStep
  \/ SyscallFault
  \/ StrayStore
  \/ UserWork
  \/ \E f \in SUBSET Flags : UserFlags(f)
  \/ \E v \in {"exit", "fault", "syscall"} : UserTrap(v)
  \/ \E i \in Lines : Raise(i)
  \/ \E i \in Lines : Irq(i)
  \/ Spurious

(* A handler runs to its end.  Interrupts come at a bounded rate (100 Hz,   *)
(* key presses), so the code they interrupt makes progress too (strong      *)
(* fairness), and a CPU with IF set takes a pending timer interrupt.        *)
(* Nothing is assumed of programs, commands or devices.                     *)
Fairness == WF_vars(IsrStep) /\ SF_vars(MainStep) /\ SF_vars(Irq(0))

Spec == Init /\ [][Next]_vars /\ Fairness

----------------------------------------------------------------------------
(* Properties *)

PCs == {"repl", "cmd", "capture", "enter", "launch", "user", "user_return",
        "user_return_rsp", "back", "isr", "iret", "halted", "lost"}
Values == {"chain", "user", "junk"}
Stacks == {"main", "int", "user"}

Ring3TypeOK ==
  /\ pc \in PCs
  /\ cpl \in {0, 3} /\ intr \in BOOLEAN /\ flags \subseteq Flags
  /\ stk \in Stacks /\ sp \in Nat
  /\ regs \in Values
  /\ vec \in {"exit", "fault", "syscall", "irq", "spurious"}
  /\ frame \in [cpl : {0, 3}, intr : BOOLEAN, flags : SUBSET Flags, stk : Stacks, sp : Nat,
                pc : PCs, regs : Values]
  /\ cr3 \in {"boot", "proc"}
  /\ main \in [Slots -> Values]
  /\ resume \in [addr : Values, sp : Nat, regs : Values]
  /\ proc_built \in BOOLEAN
  /\ irr \subseteq Lines /\ isr \subseteq Lines
  /\ depth \in Nat /\ stray \in BOOLEAN

(* The kernel has halted, or is in the handler of an exception of its own,  *)
(* which ends there: the chain is never resumed.                            *)
Panicking == pc = "halted" \/ (pc = "isr" /\ vec = "fault" /\ frame.cpl # 3)

(* The properties below are about programs that pass system calls pointers  *)
(* into their own memory: pointers are not checked, which ADR-013:18, 23    *)
(* state as trust in the one process.                                       *)

(* From the moment a command has its frames on the stack until it returns   *)
(* or the kernel panics, nothing writes to them: no interrupt frame of ring *)
(* 3 (tss.c:26-33), none in the window between iretq and the stack switch   *)
(* of user_return, where rsp is stack_top (idt.c:101-112, syscall.c:29-40), *)
(* and none of a nested or late interrupt.  The one frame that is pushed    *)
(* over them, of a single-step trap in that window, is a panic's.           *)
ChainIntact == ~stray /\ ~Panicking => \A s \in 1 .. depth : main[s] = "chain"

(* The command resumes where it called proc_run*: at its own rsp, with its  *)
(* own callee-saved registers, whether the program exited or faulted,       *)
(* whatever flags it set and whatever interrupts came on the way            *)
(* (entry.asm:146-175).                                                     *)
ResumesAtCallSite ==
  ~stray => /\ pc = "back" => stk = "main" /\ sp = depth /\ regs = "chain"
            /\ pc # "lost"

(* An interrupted or trapped program continues in ring 3, on its stack,     *)
(* with interrupts enabled, under its page tables; and only a program runs  *)
(* in ring 3.                                                               *)
UserModeExact ==
  ~stray => /\ cpl = 3 <=> pc = "user"
            /\ pc = "user" => stk = "user" /\ sp = 0 /\ intr /\ cr3 = "proc" /\ proc_built

(* "Kill the task, kernel lives" (idt.c:90, ADR-013:17), and its limit.  A  *)
(* program that exits or faults without TF gets the user back to the        *)
(* prompt, whatever it left in the registers, the other flags and on its    *)
(* stack.  One that ends with TF set always halts the kernel: the rewritten *)
(* frame keeps the flag (idt.c:112, syscall.c:40), and user_return traps.   *)
TerminationReturns ==
  /\ (Terminating /\ ~stray /\ "TF" \notin frame.flags) ~> (pc = "repl")
  /\ (Terminating /\ ~stray /\ "TF" \in frame.flags) ~> (pc = "halted")

(* A timer request is always taken in the end, unless the kernel has        *)
(* panicked: no path leaves interrupts off or a line in service (a missing  *)
(* EOI) for good.                                                           *)
TimerServed == (0 \in irr) ~> (0 \notin irr \/ pc = "halted" \/ stray)
=============================================================================
