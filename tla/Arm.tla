-------------------------------- MODULE Arm --------------------------------
(***************************************************************************)
(* Remote procedure calls and context switches on Cortex-M (arch/arm,      *)
(* kernel/rpc.c, kernel/context.c): which process' memory the unit opens,  *)
(* and which frames a call leaves on the caller's stack.  Which thread     *)
(* runs next is the business of module Sched; here any may be chosen.      *)
(*                                                                         *)
(* SVC handlers run at a higher priority than PendSV, so a switch is taken *)
(* once the handler is done; an interrupt may come in between any two of   *)
(* their steps.  The frame the hardware stacks for PendSV and the eight    *)
(* registers the handler adds go as they came (module Context has them).   *)
(***************************************************************************)
EXTENDS Mpu, Sequences

CONSTANTS
    Threads, Processes,
    Armv8,          \* the cores to consider: has it the ARMv8-M protection unit?
    ProcessOf,      \* parent process of a thread
    Definitions,    \* per process, its regions as <<[start, size], ...>>
    Stacks,         \* per thread, its stack as [start, size]
    RPC_SLOTS,      \* entries of OS_RPC_stack, the depth included
    MaxDepth,       \* calls an application nests
    FPU             \* the core has a floating point unit and the kernel uses it

ASSUME ArmAssumption ==
    /\ Processes \subseteq Nat /\ Threads \subseteq Nat /\ Threads # {}
    /\ ProcessOf \in [Threads -> Processes]
    /\ Definitions \in [Processes -> [1 .. TASK_REGIONS -> [start : Nat, size : Nat]]]
    /\ Stacks \in [Threads -> [start : Nat, size : Nat]]
    /\ RPC_SLOTS \in Nat \ {0} /\ MaxDepth \in Nat
    /\ Armv8 \subseteq BOOLEAN /\ FPU \in BOOLEAN

VARIABLES
    armv8,          \* the core has the ARMv8-M protection unit
    os_processes,   \* [definition: was it set, mpu: the slots configured for it]
    mpu,            \* the region registers of the protection unit
    protection,     \* the unit is enabled
    thread_current,
    thread_next,
    cpu_context,    \* what schedule_context_switch captured, until the switch is done
    pendsv,         \* PendSV is pending
    pc,             \* "create", "user", or the step an RPC handler is at
    svc,            \* the call an RPC handler works on, while it runs
    rpc_stack,      \* per thread, entry 0 is the depth
    stack_id,       \* per thread, the byte that follows rpc_stack
    calls,          \* per thread, the calls it is in: what a return must restore
    sp,             \* per thread, its stack pointer in thread mode, in words
    exc_return,     \* per thread, TRUE when its frame holds FPU registers
    fpca,           \* CONTROL.FPCA: the running thread used the FPU
    overlapped      \* history: an interrupt asked for a switch within an RPC handler,
                    \* and none has loaded the unit since

mpuVars == <<armv8, os_processes, mpu, protection>>
schedVars == <<thread_current, thread_next, cpu_context, pendsv, overlapped>>
rpcVars == <<rpc_stack, stack_id, calls>>
frameVars == <<sp, exc_return, fpca>>
vars == <<mpuVars, schedVars, pc, svc, rpcVars, frameVars>>

------------------------------------------------------------------------------
(***************************************************************************)
(* Exception frames.  Addresses count words.                               *)
(***************************************************************************)

os_exception_frame_size(fp_used) == IF fp_used THEN 26 ELSE 8

\* The core stacks a frame at an 8-byte boundary and records in xPSR bit 9 that
\* it left out a word.
Stacked(top, fp_used) ==
    LET at == top - os_exception_frame_size(fp_used)
    IN  [at |-> at - (at % 2), padding |-> at % 2 = 1]

Unstacked(frame, fp_used) ==
    frame.at + os_exception_frame_size(fp_used) + (IF frame.padding THEN 1 ELSE 0)

\* Mutant: the frame is forged above the caller's.
PushAbove(at, args, fp_active) ==
    [at |-> at + (os_exception_frame_size(fp_active) + args), padding |-> FALSE]

push_exception_frame(at, args, fp_active) ==
    LET outframe == at - (os_exception_frame_size(fp_active) + args)
    IN  IF outframe % 2 # 0
        THEN [at |-> outframe - 1, padding |-> TRUE]
        ELSE [at |-> outframe, padding |-> FALSE]

\* Mutant: the frame is taken to be one without FPU registers.
PopBasic(frame, args, fp_active) ==
    frame.at + (os_exception_frame_size(FALSE) + args) + (IF frame.padding THEN 1 ELSE 0)

pop_exception_frame(frame, args, fp_active) ==
    frame.at + (os_exception_frame_size(fp_active) + args) + (IF frame.padding THEN 1 ELSE 0)

\* Words the caller of a service keeps on its stack, the last two arguments
\* of _rpc_call among them.
CallerWords == 2

------------------------------------------------------------------------------
(***************************************************************************)
(* The stack of host processes.  Entry RPC_SLOTS is the byte behind it.    *)
(***************************************************************************)

Depth(t) == rpc_stack[t][0]

RpcEntry(t, n) == IF n < RPC_SLOTS THEN rpc_stack[t][n] ELSE stack_id[t]

rpc_stack_top(t) == RpcEntry(t, Depth(t))

\* Mutant: the host of the outermost call.
HostOutermost(t) == IF Depth(t) # 0 THEN RpcEntry(t, 1) ELSE ProcessOf[t]

\* The process whose memory a thread works in.
Host(t) == IF Depth(t) # 0 THEN rpc_stack_top(t) ELSE ProcessOf[t]

rpc_stack_push(t, p) ==
    /\ rpc_stack' = [rpc_stack EXCEPT
          ![t] = [n \in DOMAIN rpc_stack[t] |->
                    CASE n = 0 -> Depth(t) + 1
                      [] n # 0 /\ n = Depth(t) + 1 -> p
                      [] OTHER -> rpc_stack[t][n]]]
    /\ stack_id' = IF Depth(t) + 1 = RPC_SLOTS
                   THEN [stack_id EXCEPT ![t] = p] ELSE stack_id

rpc_stack_pop(t) ==
    rpc_stack' = [rpc_stack EXCEPT ![t][0] = IF @ > 0 THEN @ - 1 ELSE 0]

E_VTABLE_UNKNOWN == 255

\* Vtables lie in the sections of the processes that were created; a service is
\* named by the process its vtable belongs to.
Services == Processes \cup {E_VTABLE_UNKNOWN}

get_vtable_process(vtable) ==
    IF vtable \in Processes /\ os_processes[vtable].definition
    THEN vtable ELSE E_VTABLE_UNKNOWN

------------------------------------------------------------------------------
(***************************************************************************)
(* Startup.                                                                *)
(***************************************************************************)

\* os_process_create stops at the first region that cannot be configured; the
\* slots behind it, and the one of the stack, stay zero.
Created(definition) ==
    LET config(q) == mpu_configure_region(armv8, definition[q + 1].start, definition[q + 1].size)
        good(q) == \A i \in 0 .. q : config(i).rv = "E_OK"
    IN  [definition |-> good(TASK_REGIONS - 1),
         mpu |-> [q \in Slots |-> IF q < TASK_REGIONS /\ good(q)
                                 THEN config(q).region ELSE Disabled]]

NoProcess == [definition |-> FALSE, mpu |-> [q \in Slots |-> Disabled]]

\* Set up by os_thread_initialize_arch.
mpu_stack(t) == mpu_configure_region(armv8, Stacks[t].start, Stacks[t].size).region

StackTop(t) == Stacks[t].size \div 4

NoContext == [old |-> CHOOSE t \in Threads : TRUE, new |-> CHOOSE t \in Threads : TRUE,
              old_parent |-> 0, new_parent |-> 0, old_host |-> 0, new_host |-> 0]

NoCall == [process |-> 0, at |-> 0, top |-> 0, fpu |-> FALSE, r0 |-> FALSE]

\* The enable bit of the unit, once it is switched on and off.
mpu_enable == TRUE
mpu_disable == FALSE

\* What the first part of _os_start finds and sets up, after a reset of the core.
NoProcesses == [p \in Processes |-> NoProcess]
NoRegions == [q \in Slots |-> Disabled]
EmptyRpcStacks == [t \in Threads |-> [n \in 0 .. RPC_SLOTS - 1 |-> 0]]
StackTops == [t \in Threads |-> StackTop(t)]

Init ==
    /\ armv8 \in Armv8
    /\ os_processes = NoProcesses
    /\ mpu = NoRegions /\ protection = mpu_disable
    /\ thread_current \in Threads /\ thread_next = thread_current
    /\ cpu_context = NoContext /\ pendsv = FALSE /\ overlapped = FALSE
    /\ pc = "create" /\ svc = NoCall
    /\ rpc_stack = EmptyRpcStacks
    /\ stack_id = [t \in Threads |-> t]
    /\ calls = [t \in Threads |-> <<>>]
    /\ sp = StackTops
    /\ exc_return = [t \in Threads |-> FALSE] /\ fpca = FALSE

\* The loop of _os_start over the static process table.
os_process_create(p) ==
    /\ pc = "create" /\ os_processes[p] = NoProcess
    /\ \A q \in Processes : q < p => os_processes[q] # NoProcess
    /\ os_processes' = [os_processes EXCEPT ![p] = Created(Definitions[p])]
    /\ UNCHANGED <<armv8, mpu, protection, schedVars, pc, svc, rpcVars, frameVars>>

\* The end of _os_start: the unit is loaded for the first thread, hosted nowhere.
os_boot_thread ==
    /\ pc = "create" /\ \A p \in Processes : os_processes[p] # NoProcess
    /\ LET startup == os_processes[ProcessOf[thread_current]].mpu
       IN  mpu' = mpu_init_stack(mpu_restore(mpu, startup, startup), mpu_stack(thread_current))
    /\ protection' = mpu_enable
    /\ pc' = "user"
    /\ UNCHANGED <<armv8, os_processes, schedVars, svc, rpcVars, frameVars>>

------------------------------------------------------------------------------
(***************************************************************************)
(* Switching.                                                              *)
(***************************************************************************)

\* Steps of the RPC handlers an interrupt may come in between.
Handling == {"call_push", "call_load", "call_frame", "return_pop", "return_load"}

\* Called by system calls of the running thread, the tick and interrupts.
schedule_context_switch(t) ==
    /\ t # thread_current
    /\ pc \in {"user"} \cup Handling
    /\ cpu_context' = [old |-> thread_current, new |-> t,
                       old_parent |-> ProcessOf[thread_current], new_parent |-> ProcessOf[t],
                       old_host |-> Host(thread_current), new_host |-> Host(t)]
    /\ thread_next' = t /\ pendsv' = TRUE
    /\ overlapped' = (overlapped \/ pc \in Handling)
    /\ UNCHANGED <<mpuVars, thread_current, pc, svc, rpcVars, frameVars>>

os_perform_thread_switch ==
    /\ pc = "user" /\ pendsv
    /\ LET switched == \/ cpu_context.old_parent # cpu_context.new_parent
                       \/ cpu_context.old_host # cpu_context.new_host
           loaded == mpu_restore(mpu, os_processes[cpu_context.new_host].mpu,
                                      os_processes[cpu_context.new_parent].mpu)
       IN  /\ mpu' = mpu_init_stack(IF switched THEN loaded ELSE mpu, mpu_stack(thread_next))
           /\ overlapped' = (overlapped /\ ~switched)
    /\ exc_return' = [exc_return EXCEPT ![cpu_context.old] = fpca]
    /\ fpca' = exc_return[cpu_context.new]
    /\ thread_current' = thread_next /\ pendsv' = FALSE /\ cpu_context' = NoContext
    /\ UNCHANGED <<armv8, os_processes, protection, thread_next, pc, svc, rpcVars, sp>>

\* The thread computes with the FPU: the core sets FPCA.
UseFpu ==
    /\ pc = "user" /\ ~pendsv /\ FPU /\ ~fpca
    /\ fpca' = TRUE
    /\ UNCHANGED <<mpuVars, schedVars, pc, svc, rpcVars, sp, exc_return>>

------------------------------------------------------------------------------
(***************************************************************************)
(* Remote procedure calls.  The dispatcher records in exc_return which     *)
(* kind of frame the core stacked.                                         *)
(***************************************************************************)

InThread == pc = "user" /\ ~pendsv

\* The service is not in a process, or the calls are nested too deeply: the
\* handler writes an error to the frame and returns.
Refuses(service) ==
    get_vtable_process(service) = E_VTABLE_UNKNOWN \/ Depth(thread_current) >= RPC_SLOTS

os_rpc_call_refused(service) ==
    /\ InThread /\ Refuses(service)
    /\ exc_return' = [exc_return EXCEPT ![thread_current] = fpca]
    /\ UNCHANGED <<mpuVars, schedVars, pc, svc, rpcVars, sp, fpca>>

os_rpc_call(service) ==
    /\ InThread /\ ~Refuses(service) /\ Len(calls[thread_current]) < MaxDepth
    /\ LET top == sp[thread_current] - CallerWords
       IN  svc' = [process |-> get_vtable_process(service), at |-> Stacked(top, fpca).at,
                   top |-> top, fpu |-> fpca, r0 |-> fpca]
    /\ exc_return' = [exc_return EXCEPT ![thread_current] = fpca]
    /\ pc' = "call_push"
    /\ UNCHANGED <<mpuVars, schedVars, rpcVars, sp, fpca>>

CallPush ==
    /\ pc = "call_push" /\ pc' = "call_load"
    /\ rpc_stack_push(thread_current, svc.process)
    /\ UNCHANGED <<mpuVars, schedVars, svc, calls, frameVars>>

CallLoad ==
    /\ pc = "call_load" /\ pc' = "call_frame"
    /\ mpu' = mpu_load(mpu, os_processes[svc.process].mpu, 0, HOSTED)
    /\ UNCHANGED <<armv8, os_processes, protection, schedVars, svc, rpcVars, frameVars>>

\* The method is entered from a forged frame; the R0 slot of the caller's frame
\* keeps the caller's exc_return.
CallFrame ==
    LET fpu == exc_return[thread_current]
        remote == push_exception_frame(svc.at, 2, fpu)
    IN  /\ pc = "call_frame" /\ pc' = "user" /\ svc' = NoCall
        /\ calls' = [calls EXCEPT ![thread_current] = Append(@, [svc EXCEPT !.r0 = fpu])]
        /\ sp' = [sp EXCEPT ![thread_current] = Unstacked(remote, fpu)]
        /\ fpca' = fpu
        /\ UNCHANGED <<mpuVars, schedVars, rpc_stack, stack_id, exc_return>>

\* The method returned into rpc_return.  What the handler takes for the caller's
\* frame is computed from where the stack is now.
ReturnFrame(t) == pop_exception_frame(Stacked(sp[t], fpca), 2, fpca)

os_rpc_return ==
    LET t == thread_current
        frames == {i \in 1 .. Len(calls[t]) : calls[t][i].at = ReturnFrame(t)}
    IN  /\ InThread /\ calls[t] # <<>>
        /\ \E i \in frames :
              /\ svc' = calls[t][i]
              /\ exc_return' = [exc_return EXCEPT ![t] = calls[t][i].r0]
        /\ pc' = "return_pop"
        /\ UNCHANGED <<mpuVars, schedVars, rpcVars, sp, fpca>>

ReturnPop ==
    /\ pc = "return_pop" /\ pc' = "return_load"
    /\ rpc_stack_pop(thread_current)
    /\ UNCHANGED <<mpuVars, schedVars, svc, stack_id, calls, frameVars>>

ReturnLoad ==
    LET t == thread_current
        frame == [at |-> svc.at, padding |-> FALSE]
    IN  /\ pc = "return_load" /\ pc' = "user" /\ svc' = NoCall
        /\ mpu' = mpu_load(mpu, os_processes[Host(t)].mpu, 0, HOSTED)
        /\ sp' = [sp EXCEPT ![t] = Unstacked(frame, exc_return[t]) + CallerWords]
        /\ fpca' = exc_return[t]
        /\ calls' = [calls EXCEPT ![t] = SubSeq(@, 1, Len(@) - 1)]
        /\ UNCHANGED <<armv8, os_processes, protection, schedVars, rpc_stack, stack_id, exc_return>>

------------------------------------------------------------------------------

\* A system call of any thread.  With interrupts locked the unit is switched off,
\* a forged frame leaves the kernel for cmrx_shutdown_handler, and that resets
\* the core: the program starts over.
os_kernel_shutdown ==
    /\ os_processes' = NoProcesses
    /\ mpu' = NoRegions /\ protection' = mpu_disable
    /\ thread_current' \in Threads /\ thread_next' = thread_current'
    /\ cpu_context' = NoContext /\ overlapped' = FALSE
    /\ pc' = "create"
    /\ rpc_stack' = EmptyRpcStacks
    /\ stack_id' = [t \in Threads |-> t]
    /\ calls' = [t \in Threads |-> <<>>]
    /\ sp' = StackTops
    /\ exc_return' = [t \in Threads |-> FALSE] /\ fpca' = FALSE
    /\ UNCHANGED <<armv8, pendsv, svc>>

os_shutdown == InThread /\ os_kernel_shutdown

------------------------------------------------------------------------------

Next ==
    \/ \E p \in Processes : os_process_create(p)
    \/ os_boot_thread
    \/ \E t \in Threads : schedule_context_switch(t)
    \/ os_perform_thread_switch
    \/ UseFpu
    \/ \E s \in Services : os_rpc_call_refused(s) \/ os_rpc_call(s)
    \/ os_shutdown
    \/ CallPush \/ CallLoad \/ CallFrame
    \/ os_rpc_return \/ ReturnPop \/ ReturnLoad

Spec == Init /\ [][Next]_vars

------------------------------------------------------------------------------
(***************************************************************************)
(* Properties.                                                             *)
(***************************************************************************)

\* Depths, processes and frames stay in their ranges: no handler works on a
\* process that does not exist, and no frame leaves the stack of its thread.
TypeOK ==
    /\ os_processes \in [Processes -> [definition : BOOLEAN, mpu : [Slots -> [base : Nat, size : Nat]]]]
    /\ mpu \in [Slots -> [base : Nat, size : Nat]]
    /\ protection \in BOOLEAN
    /\ thread_current \in Threads /\ thread_next \in Threads
    /\ pendsv \in BOOLEAN /\ overlapped \in BOOLEAN
    /\ pc \in {"create", "user"} \cup Handling
    /\ \A t \in Threads : /\ Depth(t) \in 0 .. RPC_SLOTS
                         /\ sp[t] \in 0 .. StackTop(t)
                         /\ \A i \in 1 .. Len(calls[t]) : calls[t][i].process \in Processes

\* The memory a definition describes.
Region(definition, q) ==
    IF definition[q + 1].size = 0 THEN Disabled
    ELSE [base |-> definition[q + 1].start, size |-> definition[q + 1].size]

\* Runs in the service's process while it is in a call, in its own otherwise.
Working(t) ==
    IF calls[t] = <<>> THEN ProcessOf[t] ELSE calls[t][Len(calls[t])].process

\* "By default, threads bound to different processes can't access each other's
\* memory" (runtime.h): a thread that runs reaches the memory of the process it
\* works in, what its own process shares, and its own stack, nothing else and
\* nothing less.  Except after an interrupt has asked for a switch while an RPC
\* handler ran, until a switch loads the unit again: the host captured for the
\* leaving thread may not be the one the unit is open to, so that the unit is not
\* loaded for the next thread.
MemoryIsolation ==
    pc = "user" /\ ~pendsv /\ ~overlapped =>
       /\ protection
       /\ \A q \in Slots :
          mpu[q] = CASE q < HOSTED -> Region(Definitions[Working(thread_current)], q)
                     [] HOSTED <= q /\ q < TASK_REGIONS ->
                           Region(Definitions[ProcessOf[thread_current]], q)
                     [] OTHER -> [base |-> Stacks[thread_current].start,
                                  size |-> Stacks[thread_current].size]

\* A call returns to its caller: whatever the method did with the FPU and however
\* often the thread was switched out, the frame that os_rpc_return finds is the
\* one of the innermost call, the hosts recorded are those of the calls, and the
\* byte behind them is left alone.  True while calls are nested less than RPC_SLOTS
\* deep; rpc_stack_push lets one more in ("It can accomodate up to 8 owners which
\* means 8 nested RPC calls", runtime.h, of eight entries with the depth).
RpcReturnsToCaller ==
    \A t \in Threads :
       pc = "user" /\ calls[t] # <<>> =>
          LET call == calls[t][Len(calls[t])]
          IN  /\ t = thread_current => ReturnFrame(t) = call.at
              /\ call.r0 = call.fpu
              /\ Depth(t) = Len(calls[t])
              /\ \A i \in 1 .. Len(calls[t]) : RpcEntry(t, i) = calls[t][i].process
              /\ stack_id[t] = t

------------------------------------------------------------------------------
(***************************************************************************)
(* The inductive invariant behind the theorems of ArmProofs, and what they *)
(* assume of an application and its memory map.                            *)
(***************************************************************************)

\* The unit can express every region of a process, and every stack, as it is.
Describable ==
    \A a \in Armv8 :
       /\ \A p \in Processes : \A q \in 0 .. TASK_REGIONS - 1 :
             mpu_configure_region(a, Definitions[p][q + 1].start, Definitions[p][q + 1].size)
                = Ok(Region(Definitions[p], q))
       /\ \A t \in Threads :
             mpu_configure_region(a, Stacks[t].start, Stacks[t].size)
                = Ok([base |-> Stacks[t].start, size |-> Stacks[t].size])

\* Words one call takes at most: what the caller keeps, a frame with FPU
\* registers and two arguments of the method.
CallWords == CallerWords + os_exception_frame_size(TRUE) + 2

\* Stacks end at a boundary of two words and have room for the nested calls.
FramesFit == \A t \in Threads : StackTop(t) % 2 = 0 /\ CallWords * MaxDepth <= StackTop(t)

\* What an application has to see to, for the kernel does not: rpc_stack_push
\* admits one call more than rpc_stack has room for.
WellConfigured == Describable /\ FramesFit /\ MaxDepth < RPC_SLOTS

Described(p) ==
    [definition |-> TRUE,
     mpu |-> [q \in Slots |-> IF q < TASK_REGIONS THEN Region(Definitions[p], q) ELSE Disabled]]

ProcessesInv ==
    /\ armv8 \in Armv8
    /\ os_processes \in [Processes -> [definition : BOOLEAN, mpu : [Slots -> [base : Nat, size : Nat]]]]
    /\ \A p \in Processes : os_processes[p] \in {NoProcess, Described(p)}
    /\ pc # "create" => \A p \in Processes : os_processes[p] = Described(p)

\* The process the unit is open to between any two steps of a handler: the one the
\* current thread works in, or that of the method it is about to enter.
Opened == IF pc = "call_frame" THEN svc.process ELSE Working(thread_current)

OpenTo(t, p) ==
    [q \in Slots |-> CASE q < HOSTED -> Region(Definitions[p], q)
                       [] HOSTED <= q /\ q < TASK_REGIONS -> Region(Definitions[ProcessOf[t]], q)
                       [] OTHER -> [base |-> Stacks[t].start, size |-> Stacks[t].size]]

UnitInv ==
    /\ mpu \in [Slots -> [base : Nat, size : Nat]]
    /\ protection \in BOOLEAN
    /\ pc # "create" => protection = TRUE

\* What the unit is open to, unless an interrupt reschedules within a call.
OpenInv ==
    pc # "create" /\ overlapped = FALSE => mpu = OpenTo(thread_current, Opened)

\* A switch that was asked for still describes the two threads when it is done,
\* but for the host of the one that leaves: an interrupt may ask before or after
\* the handler pushes it or pops it.
SwitchInv ==
    /\ thread_current \in Threads /\ thread_next \in Threads
    /\ pendsv \in BOOLEAN /\ overlapped \in BOOLEAN
    /\ pc \in {"create", "user"} \cup Handling
    /\ pendsv = TRUE =>
          /\ pc # "create" /\ thread_next # thread_current
          /\ cpu_context.old = thread_current /\ cpu_context.new = thread_next
          /\ cpu_context.old_parent = ProcessOf[thread_current]
          /\ cpu_context.new_parent = ProcessOf[thread_next]
          /\ cpu_context.new_host = Host(thread_next)
          /\ overlapped = FALSE => pc = "user" /\ cpu_context.old_host = Host(thread_current)

\* Calls of a thread are stacked one below the other.
Call == [process : Processes, at : Int, top : Int, fpu : BOOLEAN, r0 : BOOLEAN]

Below(t, n) == IF n = 0 THEN StackTop(t) ELSE calls[t][n].at - 2

FrameStands(t, i) ==
    LET c == calls[t][i]
    IN  /\ c.r0 = c.fpu
        /\ c.top = Below(t, i - 1) - CallerWords
        /\ c.at = c.top - os_exception_frame_size(c.fpu)
        /\ c.at % 2 = 0
        /\ c.at <= StackTop(t)
        /\ Below(t, i) >= StackTop(t) - CallWords * i

FramesInv ==
    /\ calls \in [Threads -> Seq(Call)]
    /\ sp \in [Threads -> Int]
    /\ exc_return \in [Threads -> BOOLEAN] /\ fpca \in BOOLEAN
    /\ \A t \in Threads :
          /\ Len(calls[t]) <= MaxDepth
          /\ sp[t] = Below(t, Len(calls[t]))
          /\ \A i \in 1 .. Len(calls[t]) : FrameStands(t, i)
          /\ \A i, j \in 1 .. Len(calls[t]) : i < j => calls[t][j].at < calls[t][i].at

\* The hosts recorded are those of the calls, with the one a handler has pushed
\* for a call or popped for a return already.
Pushed(t) ==
    CASE t = thread_current /\ pc \in {"call_load", "call_frame"} -> 1
      [] t = thread_current /\ pc = "return_load" -> -1
      [] OTHER -> 0

HostsInv ==
    /\ rpc_stack \in [Threads -> [0 .. RPC_SLOTS - 1 -> Nat]]
    /\ stack_id = [t \in Threads |-> t]
    /\ \A t \in Threads :
          /\ Depth(t) = Len(calls[t]) + Pushed(t)
          /\ \A i \in 1 .. Len(calls[t]) : rpc_stack[t][i] = calls[t][i].process
          /\ Pushed(t) = 1 => rpc_stack[t][Depth(t)] = svc.process

\* The call a handler works on; nobody calls before startup is over.
HandlerInv ==
    /\ pc = "create" => \A t \in Threads : calls[t] = <<>>
    /\ pc \in {"call_push", "call_load", "call_frame"} =>
          /\ svc \in Call
          /\ svc.top = sp[thread_current] - CallerWords
          /\ svc.at = Stacked(svc.top, svc.fpu).at
          /\ exc_return[thread_current] = svc.fpu
          /\ Len(calls[thread_current]) < MaxDepth
    /\ pc \in {"return_pop", "return_load"} =>
          /\ calls[thread_current] # <<>>
          /\ svc = calls[thread_current][Len(calls[thread_current])]
          /\ exc_return[thread_current] = svc.r0

ArmInv == ProcessesInv /\ UnitInv /\ OpenInv /\ SwitchInv /\ FramesInv /\ HostsInv /\ HandlerInv
==============================================================================
