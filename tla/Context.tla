------------------------------ MODULE Context ------------------------------
(***************************************************************************)
(* What a switch keeps of a thread, and the result of a system call that   *)
(* the kernel writes there for a thread that waits.                        *)
(*                                                                         *)
(* Cortex-M (arch/arm/cortex.c, runtime.c, sched.c): PendSV and the FPU    *)
(* routines store registers around thread->sp.  RISC-V (arch/riscv, and    *)
(* the trap handlers of quirks/pico-sdk-riscv): every trap stores a whole  *)
(* frame, and the safe point at its end exchanges the stack pointer.       *)
(*                                                                         *)
(* Every transaction ends with os_core_unlock, which enables interrupts on *)
(* RISC-V whether or not they were: the timer may interrupt a handler and  *)
(* switch threads in the middle of it.                                     *)
(***************************************************************************)
EXTENDS Integers, Sequences

CONSTANTS
    Threads,
    Arch,       \* "ARM" or "RISC-V"
    FPU,        \* the Cortex-M core has a floating point unit and the kernel uses it
    MaxNested   \* RISC-V: timer traps that come while a handler of the thread runs

VARIABLES
    thread_current,
    thread_next,
    pendsv,         \* a switch is requested
    trap,           \* RISC-V: the handler that runs, "none", "ecall" or "timer"
    outer,          \* RISC-V: per thread, the handlers a later trap interrupted and
                    \* the frames these will pop
    waiting,        \* threads that block in a system call
    exc_return,     \* per thread, TRUE when its frame holds FPU registers
    fpca,           \* CONTROL.FPCA: the running thread used the FPU
    saved,          \* per thread, words around thread->sp, by their offset
    regs,           \* registers of the CPU, by the offset they are saved at
    expected        \* per thread, what it should find in them when it resumes

fpuVars == <<exc_return, fpca>>
vars == <<thread_current, thread_next, pendsv, trap, outer, waiting, fpuVars, saved, regs, expected>>

------------------------------------------------------------------------------
(***************************************************************************)
(* The words around thread->sp of a thread that is switched out.  Each     *)
(* register goes by the offset it belongs at.  Cortex-M: R8-R11 and R4-R7  *)
(* from 0 on, R0 of the exception frame above them, S16-S31 below.  RISC-V:*)
(* the ExceptionFrame, ra to mstatus.                                      *)
(***************************************************************************)

ArmRegs == 0 .. 8
EF_Words == 0 .. 29
FpRegs == -16 .. -1
CoreRegs == IF Arch = "ARM" THEN ArmRegs ELSE EF_Words
Registers == IF Arch = "ARM" THEN FpRegs \cup ArmRegs ELSE EF_Words

R0 == 8
EF_A0 == 4

\* The register a system call returns its result in.
ReturnReg == IF Arch = "ARM" THEN R0 ELSE EF_A0

\* A thread that is switched out, or created, has its own value in each register.
Own == [r \in Registers |-> r]

Returned == 30      \* what a system call returns when its handler ends
Result == 31        \* what the kernel gives a thread that waits: E_TIMEOUT, an exit status
Clobbered == 32     \* left behind by a handler

\* The words of a switched out thread, once os_set_syscall_return_value was there.
ArmSetReturnValue(words) == [words EXCEPT ![0] = Result]

riscv_exception_set_retval(words, value) == [words EXCEPT ![EF_A0] = value]

SetReturnValue(words) ==
    IF Arch = "ARM" THEN ArmSetReturnValue(words)
    ELSE riscv_exception_set_retval(words, Result)

\* VSTMDB stores S16-S31 below sp, the lowest register lowest.
os_save_fpu_context(words, file, fp_used) ==
    [o \in Registers |-> IF o \in FpRegs /\ fp_used THEN file[o] ELSE words[o]]

\* VLDMIA loads them from sp - 15 on.
os_load_fpu_context(words, file, fp_used) ==
    [r \in Registers |-> IF r \in FpRegs /\ fp_used THEN words[r + 1] ELSE file[r]]

SAVE_CONTEXT(words, file) ==
    [o \in Registers |-> IF o \in CoreRegs THEN file[o] ELSE words[o]]

LOAD_CONTEXT(words, file) ==
    [r \in Registers |-> IF r \in CoreRegs THEN words[r] ELSE file[r]]

------------------------------------------------------------------------------
(***************************************************************************)
(* Start-up and the decisions of the scheduler.                            *)
(***************************************************************************)

\* Threads as os_thread_initialize_arch leaves them: without an FPU frame.
Init ==
    /\ thread_current \in Threads /\ thread_next = thread_current
    /\ pendsv = FALSE /\ trap = "none" /\ outer = [t \in Threads |-> <<>>] /\ waiting = {}
    /\ exc_return = [t \in Threads |-> FALSE] /\ fpca = FALSE
    /\ saved = [t \in Threads |-> Own] /\ regs = Own /\ expected = [t \in Threads |-> Own]

\* Thread code does not run on RISC-V while a handler does, and only a handler
\* changes the scheduler's mind.
InKernel == Arch = "ARM" \/ trap # "none"

\* A system call of the running thread, which may block in it, the tick or an
\* interrupt chose another thread.
schedule_context_switch(t, blocks) ==
    /\ InKernel /\ t # thread_current /\ t \notin waiting
    /\ blocks => trap # "timer"
    /\ waiting' = IF blocks THEN waiting \cup {thread_current} ELSE waiting
    /\ thread_next' = t /\ pendsv' = TRUE
    /\ UNCHANGED <<thread_current, trap, outer, fpuVars, saved, regs, expected>>

\* A notification ends the wait of a thread, or a timeout or the end of the thread
\* it joined does, which give it a result (notify.c:287, sched.c:414).
Wake(t) ==
    /\ InKernel /\ t \in waiting /\ t # thread_current
    /\ waiting' = waiting \ {t}
    /\ UNCHANGED <<thread_current, thread_next, pendsv, trap, outer, fpuVars, saved, regs, expected>>

os_set_syscall_return_value(t) ==
    /\ InKernel /\ t \in waiting /\ t # thread_current
    /\ waiting' = waiting \ {t}
    /\ saved' = [saved EXCEPT ![t] = SetReturnValue(@)]
    /\ expected' = [expected EXCEPT ![t][ReturnReg] = Result]
    /\ UNCHANGED <<thread_current, thread_next, pendsv, trap, outer, fpuVars, regs>>

------------------------------------------------------------------------------
(***************************************************************************)
(* Cortex-M.                                                               *)
(***************************************************************************)

\* PendSV_Handler around os_perform_thread_switch.  Whatever the leaving thread
\* was to find in its registers it has found: they are its own again.
PendSV_Handler ==
    /\ Arch = "ARM" /\ pendsv /\ pendsv' = FALSE
    /\ LET old == thread_current
           new == thread_next
           stored == SAVE_CONTEXT(saved[old], Own)
       IN  /\ exc_return' = [exc_return EXCEPT ![old] = fpca]
           /\ saved' = [saved EXCEPT ![old] = os_save_fpu_context(stored, Own, fpca)]
           /\ expected' = [expected EXCEPT ![old] = Own]
           /\ regs' = LOAD_CONTEXT(saved[new],
                                   os_load_fpu_context(saved[new], regs, exc_return[new]))
           /\ fpca' = exc_return[new]
           /\ thread_current' = new
    /\ UNCHANGED <<thread_next, trap, outer, waiting>>

\* The thread computes with the FPU: the core sets FPCA.
UseFpu ==
    /\ Arch = "ARM" /\ ~pendsv /\ FPU /\ ~fpca
    /\ fpca' = TRUE
    /\ regs' = [r \in Registers |-> IF r \in FpRegs THEN r ELSE regs[r]]
    /\ UNCHANGED <<thread_current, thread_next, pendsv, trap, outer, waiting, exc_return, saved, expected>>

------------------------------------------------------------------------------
(***************************************************************************)
(* RISC-V.                                                                 *)
(***************************************************************************)

\* Handlers keep no register of the thread.
Handling == [r \in Registers |-> Clobbered]

\* The entry of both trap handlers: SAVE_CONTEXT before anything else.  ra and
\* mscratch are exchanged and put right in the frame.
TrapEntry(handler) ==
    /\ Arch = "RISC-V" /\ trap = "none" /\ trap' = handler
    /\ saved' = [saved EXCEPT ![thread_current] = SAVE_CONTEXT(@, Own)]
    /\ regs' = Handling
    /\ UNCHANGED outer

\* The same, from a handler that has ended a transaction: the frame goes below the
\* one of the interrupted handler.
NestedEntry(handler) ==
    /\ Arch = "RISC-V" /\ trap # "none" /\ trap' = handler
    /\ Len(outer[thread_current]) < MaxNested
    /\ outer' = [outer EXCEPT ![thread_current] =
                    Append(@, [trap |-> trap, frame |-> saved[thread_current]])]
    /\ saved' = [saved EXCEPT ![thread_current] = SAVE_CONTEXT(@, regs)]
    /\ regs' = Handling

isr_riscv_machine_exception ==
    /\ TrapEntry("ecall")
    /\ expected' = [expected EXCEPT ![thread_current] = [Own EXCEPT ![EF_A0] = Returned]]
    /\ UNCHANGED <<thread_current, thread_next, pendsv, waiting, fpuVars>>

isr_riscv_machine_timer ==
    /\ \/ /\ TrapEntry("timer")
          /\ expected' = [expected EXCEPT ![thread_current] = Own]
       \/ NestedEntry("timer") /\ UNCHANGED expected
    /\ UNCHANGED <<thread_current, thread_next, pendsv, waiting, fpuVars>>

\* The ecall handler writes what os_system_call returned.
EcallReturns ==
    IF trap = "ecall"
    THEN [saved EXCEPT ![thread_current] = riscv_exception_set_retval(@, Returned)]
    ELSE saved

\* os_riscv_context_switch_prepare and _perform: the stack pointer is exchanged
\* for the one of the next thread when a switch was requested.
os_riscv_context_switch_safe_point ==
    /\ pendsv' = FALSE
    /\ thread_current' = IF pendsv THEN thread_next ELSE thread_current

\* LOAD_CONTEXT pops the frame sp is at, mret: to the thread, or to the handler
\* that was interrupted and the frame that one will pop.
Popped(t, frames) ==
    IF outer[t] = <<>>
    THEN trap' = "none" /\ saved' = frames /\ UNCHANGED outer
    ELSE LET last == outer[t][Len(outer[t])]
         IN  /\ trap' = last.trap
             /\ saved' = [frames EXCEPT ![t] = last.frame]
             /\ outer' = [outer EXCEPT ![t] = SubSeq(@, 1, Len(@) - 1)]

\* The end of both trap handlers.
TrapExit ==
    /\ Arch = "RISC-V" /\ trap # "none"
    /\ os_riscv_context_switch_safe_point
    /\ regs' = LOAD_CONTEXT(EcallReturns[thread_current'], regs)
    /\ Popped(thread_current', EcallReturns)
    /\ UNCHANGED <<thread_next, waiting, fpuVars, expected>>

------------------------------------------------------------------------------

Next ==
    \/ \E t \in Threads, blocks \in BOOLEAN : schedule_context_switch(t, blocks)
    \/ PendSV_Handler
    \/ UseFpu
    \/ \E t \in Threads : Wake(t) \/ os_set_syscall_return_value(t)
    \/ isr_riscv_machine_exception \/ isr_riscv_machine_timer
    \/ TrapExit

Spec == Init /\ [][Next]_vars

\* "This assembly stub makes sure that all thread registers are properly saved and
\* restored during thread switch" (cortex.c; "launching it transparently" in
\* exception_frame.h): a thread that runs finds its own values, and in the return
\* register the result of the system call that it waited in ("For RISC-V, we need
\* to modify a0 in the thread's saved context", riscv/sched.c).
ContextPreserved ==
    trap = "none" =>
       \A r \in CoreRegs \cup (IF fpca THEN FpRegs ELSE {}) :
          regs[r] = expected[thread_current][r]
------------------------------------------------------------------------------
(***************************************************************************)
(* Why it holds on RISC-V: what a thread will find is on its stack from    *)
(* the moment its trap is over, and until then but for the return value,   *)
(* while no handler is interrupted.                                        *)
(***************************************************************************)

FrameType ==
    /\ thread_current \in Threads /\ thread_next \in Threads
    /\ trap \in {"none", "ecall", "timer"} /\ outer = [t \in Threads |-> <<>>] /\ fpca = FALSE
    /\ saved \in [Threads -> [Registers -> Int]]
    /\ expected \in [Threads -> [Registers -> Int]]
    /\ regs \in [Registers -> Int]

FrameInv ==
    /\ FrameType
    /\ trap = "none" => regs = expected[thread_current]
    /\ trap = "timer" => saved[thread_current] = expected[thread_current]
    /\ trap = "ecall" => riscv_exception_set_retval(saved[thread_current], Returned)
                            = expected[thread_current]
    /\ \A t \in Threads : t # thread_current => saved[t] = expected[t]
==============================================================================
