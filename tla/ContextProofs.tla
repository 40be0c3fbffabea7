--------------------------- MODULE ContextProofs ---------------------------
(***************************************************************************)
(* On RISC-V every switch gives a thread back what it left behind, for any *)
(* set of threads, if no handler is interrupted.  It is not so when the    *)
(* timer interrupts one (run nested), and not on Cortex-M (run context).   *)
(***************************************************************************)
EXTENDS Context, TLAPS

\* Both SAVE_CONTEXT and LOAD_CONTEXT of exception_frame.h move the whole frame.
LEMMA RiscvFrame ==
    ASSUME Arch = "RISC-V"
    PROVE  /\ Registers = EF_Words /\ CoreRegs = EF_Words /\ ReturnReg = EF_A0
           /\ EF_A0 \in EF_Words
           /\ Own \in [EF_Words -> Int]
           /\ \A words, file \in [EF_Words -> Int] :
                 SAVE_CONTEXT(words, file) = file /\ LOAD_CONTEXT(words, file) = words
<1>1. Registers = EF_Words /\ CoreRegs = EF_Words /\ ReturnReg = EF_A0 /\ EF_A0 \in EF_Words
    BY DEF Registers, CoreRegs, ReturnReg, EF_A0, EF_Words
<1>2. Own \in [EF_Words -> Int]
    BY <1>1 DEF Own, EF_Words
<1>3. ASSUME NEW words \in [EF_Words -> Int], NEW file \in [EF_Words -> Int]
      PROVE  SAVE_CONTEXT(words, file) = file /\ LOAD_CONTEXT(words, file) = words
    BY <1>1 DEF SAVE_CONTEXT, LOAD_CONTEXT
<1> QED BY <1>1, <1>2, <1>3

\* Threads start with the frame os_thread_populate_stack made for them.
LEMMA FramesFromTheStart ==
    ASSUME Arch = "RISC-V"
    PROVE  Init => FrameInv
BY RiscvFrame DEF Init, FrameInv, FrameType

\* Every step of the traps and of the scheduler keeps FrameInv.
LEMMA FramesKept ==
    ASSUME Arch = "RISC-V", MaxNested = 0, FrameInv, [Next]_vars
    PROVE  FrameInv'
<1> USE DEF FrameInv, FrameType
<1>0. /\ Registers = EF_Words /\ CoreRegs = EF_Words /\ ReturnReg = EF_A0
      /\ EF_A0 \in EF_Words /\ Own \in [EF_Words -> Int]
      /\ SAVE_CONTEXT(saved[thread_current], Own) = Own
    BY RiscvFrame
<1>1. ASSUME NEW t \in Threads, NEW blocks \in BOOLEAN, schedule_context_switch(t, blocks)
      PROVE  FrameInv'
    BY <1>1 DEF schedule_context_switch, fpuVars, riscv_exception_set_retval, InKernel
<1>2. CASE PendSV_Handler
    BY <1>2 DEF PendSV_Handler
<1>3. CASE UseFpu
    BY <1>3 DEF UseFpu
<1>4. ASSUME NEW t \in Threads, Wake(t)
      PROVE  FrameInv'
    BY <1>4 DEF Wake, fpuVars, riscv_exception_set_retval
<1>5. ASSUME NEW t \in Threads, os_set_syscall_return_value(t)
      PROVE  FrameInv'
    <2>1. saved' = [saved EXCEPT ![t] = [@ EXCEPT ![EF_A0] = Result]]
        BY <1>5 DEF os_set_syscall_return_value, SetReturnValue, riscv_exception_set_retval
    <2>2. expected' = [expected EXCEPT ![t] = [@ EXCEPT ![EF_A0] = Result]]
        BY <1>0, <1>5 DEF os_set_syscall_return_value
    <2>3. t # thread_current /\ Result \in Int
        BY <1>5 DEF os_set_syscall_return_value, Result
    <2>4. UNCHANGED <<thread_current, thread_next, trap, outer, fpca, regs>>
        BY <1>5 DEF os_set_syscall_return_value, fpuVars
    <2>5. /\ saved' \in [Threads -> [EF_Words -> Int]]
          /\ expected' \in [Threads -> [EF_Words -> Int]]
        BY <1>0, <2>1, <2>2, <2>3
    <2>6. /\ saved'[thread_current] = saved[thread_current]
          /\ expected'[thread_current] = expected[thread_current]
        BY <2>1, <2>2, <2>3
    <2>7. \A u \in Threads : u # thread_current => saved'[u] = expected'[u]
        BY <2>1, <2>2, <2>3
    <2> QED BY <1>0, <2>4, <2>5, <2>6, <2>7 DEF riscv_exception_set_retval
<1>6. CASE isr_riscv_machine_exception
    <2>1. /\ trap' = "ecall"
          /\ saved' = [saved EXCEPT ![thread_current] = Own]
          /\ regs' = [r \in EF_Words |-> Clobbered] /\ outer' = outer
        BY <1>0, <1>6 DEF isr_riscv_machine_exception, TrapEntry, Handling
    <2>2. /\ expected' = [expected EXCEPT ![thread_current] = [Own EXCEPT ![EF_A0] = Returned]]
          /\ UNCHANGED <<thread_current, thread_next, fpca>>
        BY <1>6 DEF isr_riscv_machine_exception, fpuVars
    <2> QED BY <1>0, <2>1, <2>2 DEF riscv_exception_set_retval, Returned, Clobbered
<1>7. CASE isr_riscv_machine_timer
    <2>0. ~NestedEntry("timer")
        <3>1. Len(outer[thread_current]) = 0
            OBVIOUS
        <3> QED BY <3>1 DEF NestedEntry
    <2>1. /\ trap' = "timer"
          /\ saved' = [saved EXCEPT ![thread_current] = Own]
          /\ regs' = [r \in EF_Words |-> Clobbered] /\ outer' = outer
        BY <1>0, <1>7, <2>0 DEF isr_riscv_machine_timer, TrapEntry, Handling
    <2>2. /\ expected' = [expected EXCEPT ![thread_current] = Own]
          /\ UNCHANGED <<thread_current, thread_next, fpca>>
        BY <1>7, <2>0 DEF isr_riscv_machine_timer, fpuVars
    <2> QED BY <1>0, <2>1, <2>2 DEF Clobbered
<1>8. CASE TrapExit
    <2>2. thread_current' \in Threads
        BY <1>8 DEF TrapExit, os_riscv_context_switch_safe_point
    <2>1. /\ trap # "none" /\ trap' = "none" /\ saved' = EcallReturns
          /\ UNCHANGED <<thread_next, fpca, expected, outer>>
        BY <1>8, <2>2 DEF TrapExit, Popped, fpuVars
    <2>3. saved' \in [Threads -> [EF_Words -> Int]]
        BY <1>0, <2>1 DEF EcallReturns, riscv_exception_set_retval, Returned
    <2>4. \A t \in Threads : saved'[t] = expected[t]
        BY <1>0, <2>1 DEF EcallReturns
    <2>5. regs' = saved'[thread_current']
        BY <1>0, <1>8, <2>1, <2>2, <2>3, RiscvFrame DEF TrapExit
    <2> QED BY <1>0, <2>1, <2>2, <2>3, <2>4, <2>5
<1>9. CASE UNCHANGED vars
    BY <1>9 DEF vars, fpuVars, riscv_exception_set_retval
<1> QED BY <1>1, <1>2, <1>3, <1>4, <1>5, <1>6, <1>7, <1>8, <1>9 DEF Next

\* On RISC-V a thread that runs finds its own values in all registers, and in a0
\* the result of the system call that it waited in, as long as the timer interrupts
\* no handler: what SAVE_CONTEXT, LOAD_CONTEXT, the safe point and
\* os_set_syscall_return_value of arch/riscv are for.
THEOREM RiscvKeepsContext ==
    ASSUME Arch = "RISC-V", MaxNested = 0
    PROVE  Spec => []ContextPreserved
<1>1. FrameInv => ContextPreserved
    BY RiscvFrame DEF FrameInv, FrameType, ContextPreserved
<1>2. Init => FrameInv
    BY FramesFromTheStart
<1>3. FrameInv /\ [Next]_vars => FrameInv'
    BY FramesKept
<1> QED BY <1>1, <1>2, <1>3, PTL DEF Spec
==============================================================================
