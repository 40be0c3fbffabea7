---------------------------- MODULE ArmProofs ----------------------------
(***************************************************************************)
(* Theorems about remote procedure calls and memory protection on          *)
(* Cortex-M, for any number of threads and processes, any regions the unit *)
(* can express and any depth of calls the kernel has room for: an          *)
(* application has to keep to it, for rpc_stack_push does not.             *)
(***************************************************************************)
EXTENDS Arm, TLAPS

------------------------------------------------------------------------------
(***************************************************************************)
(* Regions.                                                                *)
(***************************************************************************)

\* On a core with the ARMv8-M unit, regions whose ends are multiples of 32 bytes
\* are expressed as they are.
LEMMA AlignedIsExact ==
    ASSUME NEW base \in Nat, NEW size \in Nat, size # 0,
           base % 32 = 0, size % 32 = 0, base + size <= AddressSpace
    PROVE  mpu_configure_region(TRUE, base, size) = Ok([base |-> base, size |-> size])
<1>1. AddressSpace \in Nat /\ AddressSpace > 0
  BY MpuAssumption
<1>2. base + size - 1 \in Nat /\ base + size - 1 < AddressSpace
  BY <1>1
<1>3. (base + size - 1) % AddressSpace = base + size - 1
  <2>1. \A x, m \in Nat : x < m => x % m = x
    OBVIOUS
  <2> QED BY <1>1, <1>2, <2>1
<1>4. base + size - 1 >= base /\ (base + size - 1) % 32 = 31
  OBVIOUS
<1> QED BY <1>3, <1>4 DEF mpu_configure_region, ConfigureV8

\* Slots of the unit.
LEMMA SlotNumbers ==
    /\ HOSTED \in Nat /\ TASK_REGIONS \in Nat /\ HOSTED <= TASK_REGIONS
    /\ Slots = 0 .. TASK_REGIONS /\ TASK_REGIONS \in Slots
    /\ MPU_STATE_SIZE = TASK_REGIONS + 1 /\ OS_MPU_REGION_STACK = TASK_REGIONS
BY MpuAssumption DEF Slots, MPU_STATE_SIZE, OS_MPU_REGION_STACK

\* What a definition describes is a region.
LEMMA RegionIsRegion ==
    ASSUME NEW p \in Processes, NEW q \in Slots, q < TASK_REGIONS
    PROVE  Region(Definitions[p], q) \in [base : Nat, size : Nat]
<1>1. q + 1 \in 1 .. TASK_REGIONS
  BY SlotNumbers
<1>2. Definitions[p] \in [1 .. TASK_REGIONS -> [start : Nat, size : Nat]]
  BY ArmAssumption
<1>3. Definitions[p][q + 1] \in [start : Nat, size : Nat]
  BY <1>1, <1>2
<1> QED BY <1>3 DEF Region, Disabled

LEMMA DescribedIsProcess ==
    ASSUME NEW p \in Processes
    PROVE  /\ Described(p) \in [definition : BOOLEAN, mpu : [Slots -> [base : Nat, size : Nat]]]
           /\ Described(p) # NoProcess
           /\ Described(p).definition = TRUE
           /\ \A q \in Slots : Described(p).mpu[q] = IF q < TASK_REGIONS THEN Region(Definitions[p], q) ELSE Disabled
<1>1. \A q \in Slots : (IF q < TASK_REGIONS THEN Region(Definitions[p], q) ELSE Disabled) \in [base : Nat, size : Nat]
  BY RegionIsRegion DEF Disabled
<1> QED BY <1>1 DEF Described, NoProcess

LEMMA NoProcessIsProcess ==
    NoProcess \in [definition : BOOLEAN, mpu : [Slots -> [base : Nat, size : Nat]]]
BY DEF NoProcess, Disabled

LEMMA OpenIsUnit ==
    ASSUME NEW t \in Threads, NEW p \in Processes
    PROVE  OpenTo(t, p) \in [Slots -> [base : Nat, size : Nat]]
<1>1. ProcessOf[t] \in Processes /\ Stacks[t] \in [start : Nat, size : Nat]
  BY ArmAssumption
<1>2. ASSUME NEW q \in Slots
      PROVE  OpenTo(t, p)[q] \in [base : Nat, size : Nat]
  <2>1. CASE q < HOSTED
    BY <2>1, SlotNumbers, RegionIsRegion DEF OpenTo
  <2>2. CASE HOSTED <= q /\ q < TASK_REGIONS
    BY <1>1, <2>2, SlotNumbers, RegionIsRegion DEF OpenTo
  <2>3. CASE ~(q < HOSTED) /\ ~(HOSTED <= q /\ q < TASK_REGIONS)
    BY <1>1, <2>3 DEF OpenTo
  <2> QED BY <2>1, <2>2, <2>3
<1>3. OpenTo(t, p) = [q \in Slots |-> OpenTo(t, p)[q]]
  BY DEF OpenTo
<1> QED BY <1>2, <1>3

\* os_process_create computes what the definition describes.
LEMMA CreatedIsDescribed ==
    ASSUME Describable, armv8 \in Armv8, NEW p \in Processes
    PROVE  Created(Definitions[p]) = Described(p)
<1> DEFINE config(q) == mpu_configure_region(armv8, Definitions[p][q + 1].start, Definitions[p][q + 1].size)
           good(q) == \A i \in 0 .. q : config(i).rv = "E_OK"
<1>1. \A q \in 0 .. TASK_REGIONS - 1 : config(q) = Ok(Region(Definitions[p], q))
  BY DEF Describable
<1>2. \A q \in 0 .. TASK_REGIONS - 1 : config(q).rv = "E_OK" /\ config(q).region = Region(Definitions[p], q)
  <2>1. \A region : Ok(region).rv = "E_OK" /\ Ok(region).region = region
    BY DEF Ok
  <2> HIDE DEF config
  <2> QED BY <1>1, <2>1
<1>3. ASSUME NEW q \in 0 .. TASK_REGIONS - 1
      PROVE  good(q)
  <2>1. \A i \in 0 .. q : i \in 0 .. TASK_REGIONS - 1
    BY SlotNumbers
  <2> HIDE DEF config
  <2> QED BY <1>2, <2>1
<1>4. good(TASK_REGIONS - 1)
  <2> HIDE DEF config
  <2> QED BY <1>2
<1>5. Created(Definitions[p]) =
        [definition |-> good(TASK_REGIONS - 1),
         mpu |-> [q \in Slots |-> IF q < TASK_REGIONS /\ good(q) THEN config(q).region ELSE Disabled]]
  BY DEF Created
<1> HIDE DEF good, config
<1>6. \A q \in Slots : (IF q < TASK_REGIONS /\ good(q) THEN config(q).region ELSE Disabled)
                     = IF q < TASK_REGIONS THEN Region(Definitions[p], q) ELSE Disabled
  <2> TAKE q \in Slots
  <2>1. q < TASK_REGIONS => q \in 0 .. TASK_REGIONS - 1
    BY SlotNumbers
  <2> QED BY <1>2, <1>3, <2>1
<1>7. [q \in Slots |-> IF q < TASK_REGIONS /\ good(q) THEN config(q).region ELSE Disabled]
      = [q \in Slots |-> IF q < TASK_REGIONS THEN Region(Definitions[p], q) ELSE Disabled]
  BY <1>6
<1> QED BY <1>4, <1>5, <1>7 DEF Described

LEMMA StackIsDescribed ==
    ASSUME Describable, armv8 \in Armv8, NEW t \in Threads
    PROVE  mpu_stack(t) = [base |-> Stacks[t].start, size |-> Stacks[t].size]
<1>1. mpu_configure_region(armv8, Stacks[t].start, Stacks[t].size)
        = Ok([base |-> Stacks[t].start, size |-> Stacks[t].size])
  BY DEF Describable
<1>2. \A region : Ok(region).region = region
  BY DEF Ok
<1> QED BY <1>1, <1>2 DEF mpu_stack

\* A full restore opens the unit to a thread and its host.
LEMMA RestoreOpens ==
    ASSUME NEW unit, NEW t \in Threads, NEW p \in Processes, Describable, armv8 \in Armv8
    PROVE  mpu_init_stack(mpu_restore(unit, Described(p).mpu, Described(ProcessOf[t]).mpu), mpu_stack(t))
             = OpenTo(t, p)
<1> DEFINE r == ProcessOf[t]
           loaded == mpu_restore(unit, Described(p).mpu, Described(r).mpu)
           result == mpu_init_stack(loaded, mpu_stack(t))
<1>1. r \in Processes
  BY ArmAssumption
<1>2. loaded = [q \in Slots |-> IF q \in HOSTED .. HOSTED + (MPU_STATE_SIZE - HOSTED) - 1 THEN Described(r).mpu[q]
                               ELSE mpu_load(unit, Described(p).mpu, 0, HOSTED)[q]]
  BY DEF mpu_restore, mpu_load
<1>3. ASSUME NEW q \in Slots
      PROVE  loaded[q] = IF q < HOSTED THEN Described(p).mpu[q] ELSE Described(r).mpu[q]
  <2>1. q \in HOSTED .. HOSTED + (MPU_STATE_SIZE - HOSTED) - 1 <=> ~(q < HOSTED)
    BY SlotNumbers
  <2>2. q \in 0 .. 0 + HOSTED - 1 <=> q < HOSTED
    BY SlotNumbers
  <2>3. mpu_load(unit, Described(p).mpu, 0, HOSTED)[q] = IF q \in 0 .. 0 + HOSTED - 1 THEN Described(p).mpu[q] ELSE unit[q]
    BY DEF mpu_load
  <2> HIDE DEF loaded, r
  <2> QED BY <1>2, <2>1, <2>2, <2>3
<1>4. result = [loaded EXCEPT ![TASK_REGIONS] = mpu_stack(t)]
  BY SlotNumbers DEF mpu_init_stack
<1>5. result = [q \in Slots |-> IF q = TASK_REGIONS THEN mpu_stack(t) ELSE loaded[q]]
  <2>1. DOMAIN loaded = Slots
    BY <1>2
  <2> HIDE DEF loaded, result
  <2> QED BY <1>4, <2>1
<1> HIDE DEF loaded, result, r
<1>6. ASSUME NEW q \in Slots
      PROVE  result[q] = OpenTo(t, p)[q]
  <2>0. q < TASK_REGIONS => /\ Described(p).mpu[q] = Region(Definitions[p], q)
                            /\ Described(r).mpu[q] = Region(Definitions[r], q)
    BY DEF Described
  <2>1. CASE q < HOSTED
    <3>1. result[q] = Described(p).mpu[q] /\ q < TASK_REGIONS
      BY <1>3, <1>5, <2>1, SlotNumbers
    <3> QED BY <2>0, <2>1, <3>1, SlotNumbers DEF OpenTo
  <2>2. CASE HOSTED <= q /\ q < TASK_REGIONS
    <3>1. result[q] = Described(r).mpu[q] /\ ~(q < HOSTED)
      BY <1>3, <1>5, <2>2, SlotNumbers
    <3> QED BY <2>0, <2>2, <3>1 DEF OpenTo, r
  <2>3. CASE q = TASK_REGIONS
    BY <1>5, <2>3, SlotNumbers, StackIsDescribed DEF OpenTo
  <2> QED BY <2>1, <2>2, <2>3, SlotNumbers
<1>7. OpenTo(t, p) = [q \in Slots |-> OpenTo(t, p)[q]]
  BY DEF OpenTo
<1>8. result = OpenTo(t, p)
  BY <1>5, <1>6, <1>7
<1> QED BY <1>8 DEF result, loaded, r

\* Between threads of one process and one host only the stack is exchanged.
LEMMA StackOpens ==
    ASSUME NEW t \in Threads, NEW u \in Threads, NEW p \in Processes, Describable, armv8 \in Armv8,
           ProcessOf[u] = ProcessOf[t]
    PROVE  mpu_init_stack(OpenTo(u, p), mpu_stack(t)) = OpenTo(t, p)
<1> DEFINE result == mpu_init_stack(OpenTo(u, p), mpu_stack(t))
<1>1. result = [q \in Slots |-> IF q = TASK_REGIONS THEN mpu_stack(t) ELSE OpenTo(u, p)[q]]
  <2>1. DOMAIN OpenTo(u, p) = Slots
    BY DEF OpenTo
  <2>2. result = [OpenTo(u, p) EXCEPT ![TASK_REGIONS] = mpu_stack(t)]
    BY SlotNumbers DEF mpu_init_stack
  <2> HIDE DEF result
  <2> QED BY <2>1, <2>2
<1> HIDE DEF result
<1>2. ASSUME NEW q \in Slots
      PROVE  result[q] = OpenTo(t, p)[q]
  <2>1. CASE q < TASK_REGIONS
    BY <1>1, <2>1, SlotNumbers DEF OpenTo
  <2>2. CASE q = TASK_REGIONS
    BY <1>1, <2>2, SlotNumbers, StackIsDescribed DEF OpenTo
  <2> QED BY <2>1, <2>2, SlotNumbers
<1>3. OpenTo(t, p) = [q \in Slots |-> OpenTo(t, p)[q]]
  BY DEF OpenTo
<1>4. result = OpenTo(t, p)
  BY <1>1, <1>2, <1>3
<1> QED BY <1>4 DEF result

\* A call and a return exchange the slots that follow the host.
LEMMA LoadOpens ==
    ASSUME NEW t \in Threads, NEW p \in Processes, NEW r \in Processes
    PROVE  mpu_load(OpenTo(t, p), Described(r).mpu, 0, HOSTED) = OpenTo(t, r)
<1> DEFINE result == mpu_load(OpenTo(t, p), Described(r).mpu, 0, HOSTED)
<1>1. result = [q \in Slots |-> IF q \in 0 .. 0 + HOSTED - 1 THEN Described(r).mpu[q] ELSE OpenTo(t, p)[q]]
  BY DEF mpu_load
<1> HIDE DEF result
<1>2. ASSUME NEW q \in Slots
      PROVE  result[q] = OpenTo(t, r)[q]
  <2>1. q \in 0 .. 0 + HOSTED - 1 <=> q < HOSTED
    BY SlotNumbers
  <2>2. CASE q < HOSTED
    <3>1. result[q] = Described(r).mpu[q] /\ q < TASK_REGIONS
      BY <1>1, <2>1, <2>2, SlotNumbers
    <3>2. Described(r).mpu[q] = Region(Definitions[r], q)
      BY <3>1 DEF Described
    <3> QED BY <2>2, <3>1, <3>2, SlotNumbers DEF OpenTo
  <2>3. CASE ~(q < HOSTED)
    BY <1>1, <2>1, <2>3, SlotNumbers DEF OpenTo
  <2> QED BY <2>2, <2>3
<1>3. OpenTo(t, r) = [q \in Slots |-> OpenTo(t, r)[q]]
  BY DEF OpenTo
<1>4. result = OpenTo(t, r)
  BY <1>1, <1>2, <1>3
<1> QED BY <1>4 DEF result

\* Loads leave regions in the unit, whatever it was open to.
LEMMA LoadIsUnit ==
    ASSUME NEW unit \in [Slots -> [base : Nat, size : Nat]],
           NEW from \in [Slots -> [base : Nat, size : Nat]], NEW base, NEW count
    PROVE  mpu_load(unit, from, base, count) \in [Slots -> [base : Nat, size : Nat]]
BY DEF mpu_load

LEMMA StackIsUnit ==
    ASSUME NEW unit \in [Slots -> [base : Nat, size : Nat]], NEW t \in Threads, Describable, armv8 \in Armv8
    PROVE  mpu_init_stack(unit, mpu_stack(t)) \in [Slots -> [base : Nat, size : Nat]]
<1>1. mpu_stack(t) \in [base : Nat, size : Nat]
  BY StackIsDescribed, ArmAssumption
<1> QED BY <1>1 DEF mpu_init_stack

------------------------------------------------------------------------------
(***************************************************************************)
(* Frames.                                                                 *)
(***************************************************************************)

LEMMA FrameSizes ==
    /\ \A f \in BOOLEAN : os_exception_frame_size(f) \in {8, 26}
    /\ os_exception_frame_size(TRUE) = 26 /\ CallerWords = 2 /\ CallWords = 30
    /\ \A f \in BOOLEAN : CallerWords + os_exception_frame_size(f) + 2 <= CallWords
BY DEF os_exception_frame_size, CallerWords, CallWords

\* Under an even stack pointer the core leaves out no word.
LEMMA StackedEven ==
    ASSUME NEW top \in Int, top % 2 = 0, NEW f \in BOOLEAN
    PROVE  Stacked(top, f) = [at |-> top - os_exception_frame_size(f), padding |-> FALSE]
<1>1. os_exception_frame_size(f) \in {8, 26}
  BY FrameSizes
<1>2. (top - 8) % 2 = 0 /\ (top - 26) % 2 = 0
  OBVIOUS
<1>3. (top - os_exception_frame_size(f)) % 2 = 0 /\ top - os_exception_frame_size(f) \in Int
  BY <1>1, <1>2
<1> DEFINE at == top - os_exception_frame_size(f)
<1>4. Stacked(top, f) = [at |-> at - (at % 2), padding |-> at % 2 = 1]
  BY DEF Stacked
<1>5. at \in Int /\ at % 2 = 0
  BY <1>3
<1> HIDE DEF at
<1>6. at - (at % 2) = at /\ (at % 2 = 1) = FALSE
  BY <1>5
<1>7. Stacked(top, f) = [at |-> at, padding |-> FALSE]
  BY <1>4, <1>6
<1> QED BY <1>7 DEF at

\* The method starts below the frame of its caller and its two arguments.
LEMMA PushedEven ==
    ASSUME NEW at \in Int, at % 2 = 0, NEW f \in BOOLEAN
    PROVE  Unstacked(push_exception_frame(at, 2, f), f) = at - 2
<1> DEFINE n == os_exception_frame_size(f)
           outframe == at - (n + 2)
<1>1. n \in {8, 26}
  BY FrameSizes
<1>2. (at - 10) % 2 = 0 /\ (at - 28) % 2 = 0
  OBVIOUS
<1>3. outframe \in Int /\ outframe % 2 = 0 /\ outframe + n + 0 = at - 2
  BY <1>1, <1>2
<1>4. push_exception_frame(at, 2, f) = IF outframe % 2 # 0 THEN [at |-> outframe - 1, padding |-> TRUE]
                                      ELSE [at |-> outframe, padding |-> FALSE]
  BY DEF push_exception_frame
<1>5. push_exception_frame(at, 2, f) = [at |-> outframe, padding |-> FALSE]
  <2> HIDE DEF outframe
  <2> QED BY <1>3, <1>4
<1>6. Unstacked([at |-> outframe, padding |-> FALSE], f) = outframe + n + 0
  BY DEF Unstacked
<1> HIDE DEF outframe, n
<1> QED BY <1>3, <1>5, <1>6

\* The pointer of a thread is even, on its stack, and below all frames of its
\* calls.
LEMMA PointerOnStack ==
    ASSUME FramesInv, FramesFit, NEW t \in Threads
    PROVE  /\ StackTop(t) \in Nat /\ sp[t] \in Int /\ sp[t] % 2 = 0 /\ sp[t] <= StackTop(t)
           /\ sp[t] >= StackTop(t) - CallWords * Len(calls[t])
           /\ sp[t] >= 0
           /\ Len(calls[t]) \in Nat /\ Len(calls[t]) <= MaxDepth /\ MaxDepth \in Nat
           /\ \A i \in 1 .. Len(calls[t]) : calls[t][i] \in Call /\ sp[t] < calls[t][i].at
<1> DEFINE n == Len(calls[t])
<1>1. StackTop(t) \in Nat /\ StackTop(t) % 2 = 0 /\ CallWords * MaxDepth <= StackTop(t) /\ MaxDepth \in Nat
  <2>1. Stacks[t].size \in Nat
    BY ArmAssumption
  <2> QED BY <2>1, ArmAssumption DEF FramesFit, StackTop
<1>2. /\ calls[t] \in Seq(Call) /\ sp[t] \in Int /\ n <= MaxDepth /\ sp[t] = Below(t, n)
      /\ \A i \in 1 .. n : FrameStands(t, i)
      /\ \A i, j \in 1 .. n : i < j => calls[t][j].at < calls[t][i].at
  BY DEF FramesInv
<1>3. n \in Nat /\ \A i \in 1 .. n : calls[t][i] \in Call /\ calls[t][i].at \in Int
  <2>1. n \in Nat /\ \A i \in 1 .. n : calls[t][i] \in Call
    BY <1>2
  <2>2. \A c \in Call : c.at \in Int
    BY DEF Call
  <2> HIDE DEF n
  <2> QED BY <2>1, <2>2
<1> HIDE DEF n
<1>4. CASE n = 0
  <2>1. sp[t] = StackTop(t)
    BY <1>2, <1>4 DEF Below
  <2> QED BY <1>1, <1>2, <1>3, <1>4, <2>1, FrameSizes DEF n
<1>5. CASE n > 0
  <2>1. n \in 1 .. n /\ n # 0
    BY <1>3, <1>5
  <2>2. sp[t] = calls[t][n].at - 2 /\ FrameStands(t, n)
    BY <1>2, <2>1 DEF Below
  <2>3. /\ calls[t][n].at % 2 = 0 /\ calls[t][n].at <= StackTop(t) /\ sp[t] >= StackTop(t) - CallWords * n
    BY <1>2, <2>2 DEF FrameStands
  <2>4. ASSUME NEW i \in 1 .. n PROVE sp[t] < calls[t][i].at
    BY <1>2, <1>3, <2>1, <2>2
  <2>5. sp[t] % 2 = 0 /\ sp[t] <= StackTop(t)
    BY <1>1, <1>2, <1>3, <2>1, <2>2, <2>3
  <2>6. sp[t] >= 0
    <3>1. 30 * n <= 30 * MaxDepth /\ 30 * MaxDepth <= StackTop(t) /\ sp[t] >= StackTop(t) - 30 * n
      BY <1>1, <1>2, <1>3, <2>3, FrameSizes
    <3> QED BY <1>1, <1>2, <1>3, <3>1
  <2> QED BY <1>1, <1>2, <1>3, <2>3, <2>4, <2>5, <2>6 DEF n
<1> QED BY <1>3, <1>4, <1>5

\* What os_rpc_return takes for the caller's frame is the frame of the innermost
\* call, whether the method used the FPU or not.
LEMMA ReturnFindsFrame ==
    ASSUME FramesInv, FramesFit, NEW t \in Threads
    PROVE  ReturnFrame(t) = sp[t] + 2
<1>1. sp[t] \in Int /\ sp[t] % 2 = 0 /\ fpca \in BOOLEAN
  BY PointerOnStack DEF FramesInv
<1> DEFINE s == Stacked(sp[t], fpca)
           n == os_exception_frame_size(fpca)
<1>2. s.at = sp[t] - n /\ s.padding = FALSE
  BY <1>1, StackedEven
<1>3. n \in Int
  BY <1>1, FrameSizes
<1>4. ReturnFrame(t) = s.at + (n + 2) + (IF s.padding THEN 1 ELSE 0)
  BY DEF ReturnFrame, pop_exception_frame
<1> HIDE DEF s, n
<1> QED BY <1>1, <1>2, <1>3, <1>4

------------------------------------------------------------------------------
(***************************************************************************)
(* Hosts.                                                                  *)
(***************************************************************************)

LEMMA WorkingIsProcess ==
    ASSUME FramesInv, NEW t \in Threads
    PROVE  Working(t) \in Processes
<1>1. calls[t] \in Seq(Call) /\ ProcessOf[t] \in Processes
  BY ArmAssumption DEF FramesInv
<1>2. calls[t] # <<>> => calls[t][Len(calls[t])] \in Call
  BY <1>1
<1> QED BY <1>1, <1>2 DEF Working, Call

\* The host the kernel records for a thread is the process it works in.
LEMMA HostIsWorking ==
    ASSUME FramesInv, HostsInv, MaxDepth < RPC_SLOTS, NEW t \in Threads, Pushed(t) = 0
    PROVE  Host(t) = Working(t)
<1>1. /\ calls[t] \in Seq(Call) /\ Len(calls[t]) \in Nat /\ Len(calls[t]) <= MaxDepth
      /\ Depth(t) = Len(calls[t])
      /\ \A i \in 1 .. Len(calls[t]) : rpc_stack[t][i] = calls[t][i].process
  BY DEF FramesInv, HostsInv
<1>2. RPC_SLOTS \in Nat /\ MaxDepth \in Nat
  BY ArmAssumption
<1>3. CASE calls[t] = <<>>
  BY <1>1, <1>3 DEF Host, Working
<1>4. CASE calls[t] # <<>>
  <2>1. Len(calls[t]) \in 1 .. Len(calls[t]) /\ Len(calls[t]) # 0 /\ Len(calls[t]) < RPC_SLOTS
    BY <1>1, <1>2, <1>4
  <2> QED BY <1>1, <1>4, <2>1 DEF Host, Working, rpc_stack_top, RpcEntry
<1> QED BY <1>3, <1>4

\* The same of every thread, in a form that holds of the next state too.
LEMMA EveryHostIsWorking ==
    \A u \in Threads : WellConfigured /\ FramesInv /\ HostsInv /\ Pushed(u) = 0
                       => Host(u) = Working(u) /\ Working(u) \in Processes
BY HostIsWorking, WorkingIsProcess DEF WellConfigured

------------------------------------------------------------------------------
(***************************************************************************)
(* The inductive invariant: what each step leaves alone.                   *)
(***************************************************************************)

LEMMA ProcessesStand ==
    ASSUME ProcessesInv, UNCHANGED <<armv8, os_processes>>, pc # "create" \/ pc' = "create"
    PROVE  ProcessesInv'
BY DEF ProcessesInv

LEMMA FramesStand ==
    ASSUME FramesInv, UNCHANGED <<calls, sp>>, exc_return' \in [Threads -> BOOLEAN], fpca' \in BOOLEAN
    PROVE  FramesInv'
BY DEF FramesInv, FrameStands, Below

LEMMA HostsStand ==
    ASSUME HostsInv, UNCHANGED <<rpc_stack, stack_id, calls>>,
           \A t \in Threads : Pushed(t)' = Pushed(t) /\ (Pushed(t) = 1 => svc' = svc)
    PROVE  HostsInv'
<1>1. \A t \in Threads : Depth(t)' = Depth(t)
  BY DEF Depth
<1>2. rpc_stack' = rpc_stack /\ stack_id' = stack_id /\ calls' = calls
  OBVIOUS
<1>3. ASSUME NEW t \in Threads
      PROVE  /\ Depth(t)' = Len(calls'[t]) + Pushed(t)'
             /\ \A i \in 1 .. Len(calls'[t]) : rpc_stack'[t][i] = calls'[t][i].process
             /\ Pushed(t)' = 1 => rpc_stack'[t][Depth(t)'] = svc'.process
  BY <1>1, <1>2 DEF HostsInv
<1> QED BY <1>2, <1>3 DEF HostsInv

\* A step of a handler: a switch may have been asked for, and the hosts of the
\* other threads stay.
LEMMA SwitchStands ==
    ASSUME SwitchInv, UNCHANGED <<thread_current, thread_next, cpu_context, pendsv, overlapped>>,
           pc \in Handling, pc' \in {"user"} \cup Handling,
           \A u \in Threads \ {thread_current} : Host(u)' = Host(u)
    PROVE  SwitchInv'
<1>1. overlapped = FALSE => pendsv = FALSE
  BY DEF SwitchInv, Handling
<1>2. pc' # "create"
  BY DEF Handling
<1> QED BY <1>1, <1>2 DEF SwitchInv

\* Nothing changed at all.
LEMMA StutterKeepsArm ==
    ASSUME ArmInv, UNCHANGED vars
    PROVE  ArmInv'
<1>1. UNCHANGED <<armv8, os_processes, mpu, protection, thread_current, thread_next, cpu_context, pendsv, overlapped,
                  pc, svc, rpc_stack, stack_id, calls, sp, exc_return, fpca>>
  BY DEF vars, mpuVars, schedVars, rpcVars, frameVars
<1>2. ProcessesInv' /\ FramesInv'
  BY <1>1, ProcessesStand, FramesStand DEF ArmInv, FramesInv
<1>3. HostsInv'
  BY <1>1, HostsStand DEF ArmInv, Pushed
<1>4. UnitInv' /\ OpenInv'
  BY <1>1 DEF ArmInv, UnitInv, OpenInv, Opened, Working
<1>5. SwitchInv'
  BY <1>1 DEF ArmInv, SwitchInv, Host, Depth, rpc_stack_top, RpcEntry
<1>6. HandlerInv'
  BY <1>1 DEF ArmInv, HandlerInv
<1> QED BY <1>2, <1>3, <1>4, <1>5, <1>6 DEF ArmInv

------------------------------------------------------------------------------
(***************************************************************************)
(* Startup and reset.                                                      *)
(***************************************************************************)

\* The state the core is reset to.
ResetState ==
    /\ armv8 \in Armv8
    /\ os_processes = NoProcesses
    /\ mpu = NoRegions /\ protection = mpu_disable
    /\ thread_current \in Threads /\ thread_next = thread_current
    /\ pendsv = FALSE /\ overlapped = FALSE /\ pc = "create"
    /\ rpc_stack = EmptyRpcStacks
    /\ stack_id = [t \in Threads |-> t]
    /\ calls = [t \in Threads |-> <<>>]
    /\ sp = StackTops
    /\ exc_return = [t \in Threads |-> FALSE] /\ fpca = FALSE

LEMMA ResetIsSound == ResetState => ArmInv
<1> SUFFICES ASSUME ResetState PROVE ArmInv
  OBVIOUS
<1>1. ProcessesInv
  BY NoProcessIsProcess DEF ResetState, ProcessesInv, NoProcesses
<1>2. UnitInv /\ OpenInv
  <2>1. mpu \in [Slots -> [base : Nat, size : Nat]]
    BY DEF ResetState, NoRegions, Disabled
  <2> QED BY <2>1 DEF ResetState, UnitInv, OpenInv, mpu_disable
<1>3. SwitchInv
  BY DEF ResetState, SwitchInv
<1>4. FramesInv
  <2>1. \A t \in Threads : StackTop(t) \in Int
    <3>1. \A t \in Threads : Stacks[t].size \in Nat
      BY ArmAssumption
    <3>2. \A x \in Nat : x \div 4 \in Int
      OBVIOUS
    <3> QED BY <3>1, <3>2 DEF StackTop
  <2>2. calls \in [Threads -> Seq(Call)] /\ \A t \in Threads : calls[t] = <<>> /\ Len(calls[t]) = 0
    BY DEF ResetState
  <2>3. sp \in [Threads -> Int] /\ \A t \in Threads : sp[t] = StackTop(t)
    BY <2>1 DEF ResetState, StackTops
  <2>4. 0 <= MaxDepth /\ 1 .. 0 = {}
    BY ArmAssumption
  <2>5. exc_return \in [Threads -> BOOLEAN] /\ fpca \in BOOLEAN
    BY DEF ResetState
  <2>6. ASSUME NEW t \in Threads
        PROVE  /\ Len(calls[t]) <= MaxDepth
               /\ sp[t] = Below(t, Len(calls[t]))
               /\ 1 .. Len(calls[t]) = {}
    BY <2>2, <2>3, <2>4 DEF Below
  <2> QED BY <2>2, <2>3, <2>5, <2>6 DEF FramesInv
<1>5. HostsInv
  <2>1. \A t \in Threads : Pushed(t) = 0
    BY DEF ResetState, Pushed
  <2>2. \A t \in Threads : Len(calls[t]) = 0 /\ 1 .. Len(calls[t]) = {}
    BY DEF ResetState
  <2>3. 0 \in 0 .. RPC_SLOTS - 1
    BY ArmAssumption
  <2>4. rpc_stack \in [Threads -> [0 .. RPC_SLOTS - 1 -> Nat]] /\ \A t \in Threads : Depth(t) = 0
    BY <2>3 DEF ResetState, EmptyRpcStacks, Depth
  <2> QED BY <2>1, <2>2, <2>4 DEF ResetState, HostsInv
<1>6. HandlerInv
  BY DEF ResetState, HandlerInv
<1> QED BY <1>1, <1>2, <1>3, <1>4, <1>5, <1>6 DEF ArmInv

LEMMA InitArm == Init => ArmInv
BY ResetIsSound DEF Init, ResetState

LEMMA ShutdownStep ==
    ASSUME ArmInv, os_shutdown
    PROVE  ArmInv'
<1>1. ResetState'
  BY DEF ArmInv, ProcessesInv, SwitchInv, os_shutdown, InThread, os_kernel_shutdown, ResetState
<1>2. (ResetState => ArmInv)'
  BY ResetIsSound, PTL
<1> QED BY <1>1, <1>2

LEMMA CreateStep ==
    ASSUME ArmInv, Describable, NEW p \in Processes, os_process_create(p)
    PROVE  ArmInv'
<1>1. /\ pc = "create" /\ UNCHANGED <<armv8, mpu, protection, thread_current, thread_next, cpu_context, pendsv, overlapped,
                  pc, svc, rpc_stack, stack_id, calls, sp, exc_return, fpca>>
      /\ os_processes' = [os_processes EXCEPT ![p] = Created(Definitions[p])]
  BY DEF os_process_create, schedVars, rpcVars, frameVars
<1>2. ProcessesInv'
  <2>1. Created(Definitions[p]) = Described(p)
    BY CreatedIsDescribed DEF ArmInv, ProcessesInv
  <2>2. Described(p) \in [definition : BOOLEAN, mpu : [Slots -> [base : Nat, size : Nat]]]
    BY DescribedIsProcess
  <2>3. os_processes \in [Processes -> [definition : BOOLEAN, mpu : [Slots -> [base : Nat, size : Nat]]]]
        /\ \A r \in Processes : os_processes[r] \in {NoProcess, Described(r)}
    BY DEF ArmInv, ProcessesInv
  <2>4. os_processes' \in [Processes -> [definition : BOOLEAN, mpu : [Slots -> [base : Nat, size : Nat]]]]
    BY <1>1, <2>1, <2>2, <2>3
  <2>5. \A r \in Processes : os_processes'[r] \in {NoProcess, Described(r)}
    BY <1>1, <2>1, <2>3
  <2> QED BY <1>1, <2>4, <2>5 DEF ArmInv, ProcessesInv
<1>3. FramesInv'
  BY <1>1, FramesStand DEF ArmInv, FramesInv
<1>4. HostsInv'
  BY <1>1, HostsStand DEF ArmInv, Pushed
<1>5. UnitInv' /\ OpenInv'
  BY <1>1 DEF ArmInv, UnitInv, OpenInv
<1>6. SwitchInv'
  BY <1>1 DEF ArmInv, SwitchInv
<1>7. HandlerInv'
  BY <1>1 DEF ArmInv, HandlerInv
<1> QED BY <1>2, <1>3, <1>4, <1>5, <1>6, <1>7 DEF ArmInv

LEMMA BootStep ==
    ASSUME ArmInv, WellConfigured, os_boot_thread
    PROVE  ArmInv'
<1> DEFINE t == thread_current
<1>1. /\ pc = "create" /\ pc' = "user" /\ protection' = TRUE
      /\ \A p \in Processes : os_processes[p] # NoProcess
      /\ UNCHANGED <<armv8, os_processes, thread_current, thread_next, cpu_context, pendsv, overlapped,
                     svc, rpc_stack, stack_id, calls, sp, exc_return, fpca>>
  BY DEF os_boot_thread, schedVars, rpcVars, frameVars, mpu_enable
<1>2. \A p \in Processes : os_processes[p] = Described(p)
  BY <1>1 DEF ArmInv, ProcessesInv
<1>3. t \in Threads /\ ProcessOf[t] \in Processes /\ pendsv = FALSE /\ armv8 \in Armv8
  BY <1>1, ArmAssumption DEF ArmInv, SwitchInv, ProcessesInv
<1>4. ProcessesInv'
  BY <1>1, <1>2 DEF ArmInv, ProcessesInv
<1>5. FramesInv'
  BY <1>1, FramesStand DEF ArmInv, FramesInv
<1>6. \A u \in Threads : Pushed(u) = 0 /\ Pushed(u)' = 0
  BY <1>1 DEF Pushed
<1>7. HostsInv'
  BY <1>1, <1>6, HostsStand DEF ArmInv
<1>8. SwitchInv'
  BY <1>1, <1>3 DEF ArmInv, SwitchInv
<1>9. HandlerInv'
  BY <1>1 DEF HandlerInv
<1>10. UnitInv' /\ OpenInv'
  <2>1. Opened' = ProcessOf[t]
    BY <1>1, <1>3 DEF Opened, Working, ArmInv, HandlerInv
  <2>2. mpu' = mpu_init_stack(mpu_restore(mpu, Described(ProcessOf[t]).mpu, Described(ProcessOf[t]).mpu),
                              mpu_stack(t))
    BY <1>2, <1>3 DEF os_boot_thread
  <2>3. mpu' = OpenTo(t, ProcessOf[t])
    BY <1>3, <2>2, RestoreOpens DEF WellConfigured
  <2> QED BY <1>1, <1>3, <2>1, <2>3, OpenIsUnit DEF UnitInv, OpenInv
<1> QED BY <1>4, <1>5, <1>7, <1>8, <1>9, <1>10 DEF ArmInv

------------------------------------------------------------------------------
(***************************************************************************)
(* Switching.                                                              *)
(***************************************************************************)

LEMMA ScheduleStep ==
    ASSUME ArmInv, WellConfigured, NEW t \in Threads, schedule_context_switch(t)
    PROVE  ArmInv'
<1>1. /\ pc \in {"user"} \cup Handling
      /\ overlapped' = (overlapped \/ pc \in Handling)
      /\ UNCHANGED <<armv8, os_processes, mpu, protection, thread_current, pc, svc,
                     rpc_stack, stack_id, calls, sp, exc_return, fpca>>
      /\ t # thread_current /\ thread_next' = t /\ pendsv' = TRUE
      /\ cpu_context' = [old |-> thread_current, new |-> t,
                         old_parent |-> ProcessOf[thread_current], new_parent |-> ProcessOf[t],
                         old_host |-> Host(thread_current), new_host |-> Host(t)]
  BY ArmAssumption DEF schedule_context_switch, mpuVars, rpcVars, frameVars
<1>2. ProcessesInv' /\ FramesInv'
  BY <1>1, ProcessesStand, FramesStand DEF ArmInv, FramesInv
<1>3. HostsInv'
  BY <1>1, HostsStand DEF ArmInv, Pushed
<1>4. UnitInv' /\ OpenInv'
  <2>1. overlapped' = FALSE => overlapped = FALSE
    BY <1>1 DEF ArmInv, SwitchInv
  <2> QED BY <1>1, <2>1 DEF ArmInv, UnitInv, OpenInv, Opened, Working
<1>5. \A u \in Threads : Host(u)' = Host(u)
  BY <1>1 DEF Host, Depth, rpc_stack_top, RpcEntry
<1>6. SwitchInv'
  BY <1>1, <1>5 DEF ArmInv, SwitchInv, Handling
<1>7. HandlerInv'
  BY <1>1 DEF ArmInv, HandlerInv
<1> QED BY <1>2, <1>3, <1>4, <1>6, <1>7 DEF ArmInv

\* The unit is opened to the next thread, in full or but for its stack.
LEMMA SwitchStep ==
    ASSUME ArmInv, WellConfigured, os_perform_thread_switch
    PROVE  ArmInv'
<1> DEFINE old == thread_current
           new == thread_next
           loaded == mpu_restore(mpu, os_processes[cpu_context.new_host].mpu,
                                      os_processes[cpu_context.new_parent].mpu)
<1>1. /\ pc = "user" /\ pc' = "user" /\ pendsv = TRUE /\ pendsv' = FALSE
      /\ thread_current' = new /\ old \in Threads /\ new \in Threads
      /\ UNCHANGED <<armv8, os_processes, protection, thread_next, svc, rpc_stack, stack_id, calls, sp>>
  BY DEF os_perform_thread_switch, rpcVars, ArmInv, SwitchInv
<1>2. /\ cpu_context.old = old /\ cpu_context.new = new
      /\ cpu_context.old_parent = ProcessOf[old] /\ cpu_context.new_parent = ProcessOf[new]
      /\ cpu_context.new_host = Host(new)
      /\ overlapped = FALSE => cpu_context.old_host = Host(old)
  BY <1>1 DEF ArmInv, SwitchInv
<1>3. \A u \in Threads : Pushed(u) = 0 /\ Pushed(u)' = 0
  BY <1>1 DEF Pushed
<1>4. /\ Host(old) = Working(old) /\ Host(new) = Working(new)
      /\ Working(old) \in Processes /\ Working(new) \in Processes
      /\ ProcessOf[old] \in Processes /\ ProcessOf[new] \in Processes
  BY <1>1, <1>3, HostIsWorking, WorkingIsProcess, ArmAssumption DEF ArmInv, WellConfigured
<1>5. /\ exc_return' = [exc_return EXCEPT ![old] = fpca] /\ fpca' = exc_return[new]
      /\ mpu' = mpu_init_stack(IF ProcessOf[old] # ProcessOf[new] \/ cpu_context.old_host # Host(new)
                               THEN loaded ELSE mpu, mpu_stack(new))
      /\ overlapped' = (overlapped /\ ~(ProcessOf[old] # ProcessOf[new] \/ cpu_context.old_host # Host(new)))
  BY <1>2 DEF os_perform_thread_switch
<1>6. FramesInv'
  <2>1. exc_return \in [Threads -> BOOLEAN] /\ fpca \in BOOLEAN
    BY DEF ArmInv, FramesInv
  <2>2. exc_return' \in [Threads -> BOOLEAN] /\ fpca' \in BOOLEAN
    BY <1>1, <1>5, <2>1
  <2> QED BY <1>1, <2>2, FramesStand DEF ArmInv
<1>7. ProcessesInv'
  BY <1>1, ProcessesStand DEF ArmInv
<1>8. HostsInv'
  BY <1>1, <1>3, HostsStand DEF ArmInv
<1>9. SwitchInv'
  BY <1>1, <1>5 DEF ArmInv, SwitchInv
<1>10. HandlerInv'
  BY <1>1 DEF HandlerInv
<1>11. UnitInv'
  <2>1. armv8 \in Armv8 /\ Describable /\ mpu \in [Slots -> [base : Nat, size : Nat]] /\ protection = TRUE
    BY <1>1 DEF ArmInv, ProcessesInv, UnitInv, WellConfigured
  <2>2. /\ os_processes[Host(new)].mpu \in [Slots -> [base : Nat, size : Nat]]
        /\ os_processes[ProcessOf[new]].mpu \in [Slots -> [base : Nat, size : Nat]]
    BY <1>1, <1>4 DEF ArmInv, ProcessesInv
  <2>3. loaded \in [Slots -> [base : Nat, size : Nat]]
    BY <1>2, <2>1, <2>2, LoadIsUnit DEF mpu_restore
  <2> HIDE DEF loaded
  <2>4. mpu' \in [Slots -> [base : Nat, size : Nat]]
    BY <1>1, <1>5, <2>1, <2>3, StackIsUnit
  <2> QED BY <1>1, <2>1, <2>4 DEF UnitInv
<1>12. ASSUME overlapped' = FALSE
       PROVE  OpenInv'
  <2>1. armv8 \in Armv8 /\ Describable /\ \A p \in Processes : os_processes[p] = Described(p)
    BY <1>1 DEF ArmInv, ProcessesInv, WellConfigured
  <2>2. Opened' = Working(new)
    BY <1>1 DEF Opened, Working
  <2>3. mpu' = OpenTo(new, Working(new))
    <3>1. CASE ProcessOf[old] # ProcessOf[new] \/ cpu_context.old_host # Host(new)
      <4>1. loaded = mpu_restore(mpu, Described(Working(new)).mpu, Described(ProcessOf[new]).mpu)
        BY <1>2, <1>4, <2>1
      <4>2. mpu' = mpu_init_stack(loaded, mpu_stack(new))
        BY <1>5, <3>1
      <4> HIDE DEF loaded
      <4> QED BY <1>1, <1>4, <2>1, <4>1, <4>2, RestoreOpens
    <3>2. CASE ~(ProcessOf[old] # ProcessOf[new] \/ cpu_context.old_host # Host(new))
      <4>1. overlapped = FALSE
        BY <1>1, <1>5, <1>12, <3>2 DEF ArmInv, SwitchInv
      <4>2. mpu = OpenTo(old, Working(old)) /\ cpu_context.old_host = Host(old)
        BY <1>1, <1>2, <4>1 DEF ArmInv, OpenInv, Opened
      <4>3. mpu' = mpu_init_stack(OpenTo(old, Working(new)), mpu_stack(new))
        BY <1>4, <1>5, <3>2, <4>2
      <4> QED BY <1>1, <1>4, <2>1, <3>2, <4>3, StackOpens
    <3> QED BY <3>1, <3>2
  <2> QED BY <1>1, <2>2, <2>3 DEF OpenInv
<1>13. OpenInv'
  BY <1>12 DEF OpenInv
<1> QED BY <1>6, <1>7, <1>8, <1>9, <1>10, <1>11, <1>13 DEF ArmInv

LEMMA UseFpuStep ==
    ASSUME ArmInv, UseFpu
    PROVE  ArmInv'
<1>1. /\ pc = "user" /\ fpca' = TRUE
      /\ UNCHANGED <<armv8, os_processes, mpu, protection, thread_current, thread_next, cpu_context, pendsv, overlapped, pc, svc,
                     rpc_stack, stack_id, calls, sp, exc_return>>
  BY DEF UseFpu, mpuVars, schedVars, rpcVars
<1>2. ProcessesInv' /\ FramesInv'
  BY <1>1, ProcessesStand, FramesStand DEF ArmInv, FramesInv
<1>3. HostsInv'
  BY <1>1, HostsStand DEF ArmInv, Pushed
<1>4. UnitInv' /\ OpenInv'
  BY <1>1 DEF ArmInv, UnitInv, OpenInv, Opened, Working
<1>5. SwitchInv'
  BY <1>1 DEF ArmInv, SwitchInv, Host, Depth, rpc_stack_top, RpcEntry
<1>6. HandlerInv'
  BY <1>1 DEF HandlerInv
<1> QED BY <1>2, <1>3, <1>4, <1>5, <1>6 DEF ArmInv

------------------------------------------------------------------------------
(***************************************************************************)
(* Calls.                                                                  *)
(***************************************************************************)

LEMMA RefusedStep ==
    ASSUME ArmInv, NEW s \in Services, os_rpc_call_refused(s)
    PROVE  ArmInv'
<1>1. /\ pc = "user" /\ exc_return' = [exc_return EXCEPT ![thread_current] = fpca]
      /\ UNCHANGED <<armv8, os_processes, mpu, protection, thread_current, thread_next, cpu_context, pendsv, overlapped, pc, svc,
                     rpc_stack, stack_id, calls, sp, fpca>>
  BY DEF os_rpc_call_refused, InThread, mpuVars, schedVars, rpcVars
<1>2. ProcessesInv' /\ FramesInv'
  <2>1. exc_return' \in [Threads -> BOOLEAN] /\ fpca' \in BOOLEAN
    BY <1>1 DEF ArmInv, FramesInv
  <2> QED BY <1>1, <2>1, ProcessesStand, FramesStand DEF ArmInv
<1>3. HostsInv'
  BY <1>1, HostsStand DEF ArmInv, Pushed
<1>4. UnitInv' /\ OpenInv'
  BY <1>1 DEF ArmInv, UnitInv, OpenInv, Opened, Working
<1>5. SwitchInv'
  BY <1>1 DEF ArmInv, SwitchInv, Host, Depth, rpc_stack_top, RpcEntry
<1>6. HandlerInv'
  BY <1>1 DEF HandlerInv
<1> QED BY <1>2, <1>3, <1>4, <1>5, <1>6 DEF ArmInv

LEMMA CallStep ==
    ASSUME ArmInv, WellConfigured, NEW s \in Services, os_rpc_call(s)
    PROVE  ArmInv'
<1> DEFINE t == thread_current
           top == sp[t] - CallerWords
<1>1. /\ pc = "user" /\ ~pendsv /\ pc' = "call_push"
      /\ exc_return' = [exc_return EXCEPT ![t] = fpca]
      /\ UNCHANGED <<armv8, os_processes, mpu, protection, thread_current, thread_next, cpu_context, pendsv, overlapped,
                     rpc_stack, stack_id, calls, sp, fpca>>
      /\ Len(calls[t]) < MaxDepth
  BY DEF os_rpc_call, InThread, mpuVars, schedVars, rpcVars
<1>2. t \in Threads /\ fpca \in BOOLEAN /\ exc_return \in [Threads -> BOOLEAN] /\ pendsv = FALSE
  BY <1>1 DEF ArmInv, SwitchInv, FramesInv
<1>3. get_vtable_process(s) \in Processes
  BY DEF os_rpc_call, Refuses, get_vtable_process
<1>4. svc' = [process |-> get_vtable_process(s), at |-> Stacked(top, fpca).at,
              top |-> top, fpu |-> fpca, r0 |-> fpca]
  BY DEF os_rpc_call
<1>5. ProcessesInv' /\ FramesInv'
  <2>1. exc_return' \in [Threads -> BOOLEAN] /\ fpca' \in BOOLEAN
    BY <1>1, <1>2
  <2> QED BY <1>1, <2>1, ProcessesStand, FramesStand DEF ArmInv
<1>6. HostsInv'
  <2>1. \A u \in Threads : Pushed(u) = 0 /\ Pushed(u)' = 0
    BY <1>1 DEF Pushed
  <2> QED BY <1>1, <2>1, HostsStand DEF ArmInv
<1>7. UnitInv' /\ OpenInv'
  BY <1>1 DEF ArmInv, UnitInv, OpenInv, Opened, Working
<1>8. SwitchInv'
  BY <1>1, <1>2 DEF ArmInv, SwitchInv, Handling
<1>9. HandlerInv'
  <2>1. sp[t] \in Int /\ sp[t] % 2 = 0
    BY <1>2, PointerOnStack DEF ArmInv, WellConfigured
  <2>2. top \in Int /\ top % 2 = 0
    BY <2>1, FrameSizes
  <2> HIDE DEF top
  <2>3. Stacked(top, fpca).at \in Int
    <3>1. Stacked(top, fpca).at = top - os_exception_frame_size(fpca)
      BY <1>2, <2>2, StackedEven
    <3> QED BY <1>2, <2>2, <3>1, FrameSizes
  <2>4. svc' \in Call
    BY <1>2, <1>3, <1>4, <2>2, <2>3 DEF Call
  <2>5. svc'.top = top /\ svc'.fpu = fpca /\ svc'.at = Stacked(top, fpca).at
    BY <1>4
  <2>6. svc'.top = sp'[thread_current'] - CallerWords /\ exc_return'[thread_current'] = svc'.fpu
    BY <1>1, <1>2, <2>5 DEF top
  <2> QED BY <1>1, <2>4, <2>5, <2>6 DEF HandlerInv
<1> QED BY <1>5, <1>6, <1>7, <1>8, <1>9 DEF ArmInv

LEMMA CallPushStep ==
    ASSUME ArmInv, WellConfigured, CallPush
    PROVE  ArmInv'
<1> DEFINE t == thread_current
           d == Len(calls[t])
           pushed == [n \in 0 .. RPC_SLOTS - 1 |-> CASE n = 0 -> d + 1
                                                    [] n # 0 /\ n = d + 1 -> svc.process
                                                    [] OTHER -> rpc_stack[t][n]]
<1>1. /\ pc = "call_push" /\ pc' = "call_load"
      /\ UNCHANGED <<armv8, os_processes, mpu, protection, thread_current, thread_next, cpu_context, pendsv, overlapped,
                     svc, calls, sp, exc_return, fpca>>
  BY DEF CallPush, mpuVars, schedVars, frameVars
<1>2. t \in Threads
  BY <1>1 DEF ArmInv, SwitchInv
<1>3. svc.process \in Processes /\ svc.process \in Nat /\ d < MaxDepth
  BY <1>1, ArmAssumption DEF ArmInv, HandlerInv, Call
<1>4. d \in Nat /\ MaxDepth \in Nat /\ RPC_SLOTS \in Nat /\ MaxDepth < RPC_SLOTS /\ d + 1 < RPC_SLOTS
  <2>1. d \in Nat
    BY <1>2, PointerOnStack DEF ArmInv, WellConfigured
  <2> QED BY <1>3, <2>1, ArmAssumption DEF WellConfigured
<1>5. /\ \A u \in Threads : Pushed(u) = 0
      /\ \A u \in Threads : Pushed(u)' = IF u = t THEN 1 ELSE 0
  BY <1>1 DEF Pushed
<1>6. /\ rpc_stack \in [Threads -> [0 .. RPC_SLOTS - 1 -> Nat]]
      /\ \A u \in Threads : rpc_stack[u] \in [0 .. RPC_SLOTS - 1 -> Nat]
      /\ \A u \in Threads : Len(calls[u]) \in Nat /\ Depth(u) = Len(calls[u])
  BY <1>5, PointerOnStack DEF ArmInv, HostsInv, WellConfigured
<1>7. rpc_stack' = [rpc_stack EXCEPT ![t] = pushed] /\ stack_id' = stack_id
  <2>1. DOMAIN rpc_stack[t] = 0 .. RPC_SLOTS - 1 /\ Depth(t) = d
    BY <1>2, <1>6
  <2>2. d + 1 # RPC_SLOTS
    BY <1>4
  <2> HIDE DEF d
  <2> QED BY <1>1, <2>1, <2>2 DEF CallPush, rpc_stack_push
<1> HIDE DEF d
<1>8. /\ pushed \in [0 .. RPC_SLOTS - 1 -> Nat] /\ pushed[0] = d + 1 /\ pushed[d + 1] = svc.process
      /\ \A n \in 1 .. d : pushed[n] = rpc_stack[t][n]
  <2>1. pushed[0] = d + 1
    BY <1>4
  <2>2. pushed[d + 1] = svc.process
    BY <1>4
  <2>3. ASSUME NEW n \in 0 .. RPC_SLOTS - 1, n # 0, n # d + 1
        PROVE  pushed[n] = rpc_stack[t][n]
    BY <2>3
  <2>4. ASSUME NEW n \in 0 .. RPC_SLOTS - 1
        PROVE  pushed[n] \in Nat
    <3>1. rpc_stack[t][n] \in Nat
      BY <1>2, <1>6
    <3> HIDE DEF pushed
    <3> QED BY <1>3, <1>4, <2>1, <2>2, <2>3, <3>1
  <2>5. pushed = [n \in 0 .. RPC_SLOTS - 1 |-> pushed[n]]
    OBVIOUS
  <2>6. \A n \in 1 .. d : n \in 0 .. RPC_SLOTS - 1 /\ n # 0 /\ n # d + 1
    BY <1>4
  <2> HIDE DEF pushed
  <2>7. pushed \in [0 .. RPC_SLOTS - 1 -> Nat]
    BY <2>4, <2>5
  <2> QED BY <2>1, <2>2, <2>3, <2>6, <2>7
<1> HIDE DEF pushed
<1>9. HostsInv'
  <2>1. rpc_stack' \in [Threads -> [0 .. RPC_SLOTS - 1 -> Nat]]
    BY <1>2, <1>6, <1>7, <1>8
  <2>2. ASSUME NEW u \in Threads
        PROVE  /\ Depth(u)' = Len(calls'[u]) + Pushed(u)'
               /\ \A i \in 1 .. Len(calls'[u]) : rpc_stack'[u][i] = calls'[u][i].process
               /\ Pushed(u)' = 1 => rpc_stack'[u][Depth(u)'] = svc'.process
    <3>1. \A i \in 1 .. Len(calls[u]) : rpc_stack[u][i] = calls[u][i].process
      BY DEF ArmInv, HostsInv
    <3>2. CASE u = t
      <4>1. rpc_stack'[u] = pushed /\ Depth(u)' = d + 1
        BY <1>2, <1>6, <1>7, <1>8, <3>2 DEF Depth
      <4> QED BY <1>1, <1>4, <1>5, <1>8, <3>1, <3>2, <4>1 DEF d
    <3>3. CASE u # t
      <4>1. rpc_stack'[u] = rpc_stack[u] /\ Depth(u)' = Depth(u)
        BY <1>6, <1>7, <3>3 DEF Depth
      <4> QED BY <1>1, <1>5, <1>6, <3>1, <3>3, <4>1
    <3> QED BY <3>2, <3>3
  <2> QED BY <1>7, <2>1, <2>2 DEF ArmInv, HostsInv
<1>10. ProcessesInv' /\ FramesInv'
  BY <1>1, ProcessesStand, FramesStand DEF ArmInv, FramesInv
<1>11. UnitInv' /\ OpenInv'
  BY <1>1 DEF ArmInv, UnitInv, OpenInv, Opened, Working
<1>12. SwitchInv'
  <2>1. \A u \in Threads \ {t} : rpc_stack'[u] = rpc_stack[u] /\ stack_id' = stack_id
    BY <1>2, <1>6, <1>7
  <2>2. \A u \in Threads \ {thread_current} : Host(u)' = Host(u)
    BY <2>1 DEF Host, Depth, rpc_stack_top, RpcEntry
  <2> QED BY <1>1, <2>2, SwitchStands DEF ArmInv, Handling
<1>13. HandlerInv'
  BY <1>1 DEF ArmInv, HandlerInv
<1> QED BY <1>9, <1>10, <1>11, <1>12, <1>13 DEF ArmInv

LEMMA CallLoadStep ==
    ASSUME ArmInv, CallLoad
    PROVE  ArmInv'
<1> DEFINE t == thread_current
<1>1. /\ pc = "call_load" /\ pc' = "call_frame"
      /\ UNCHANGED <<armv8, os_processes, protection, thread_current, thread_next, cpu_context, pendsv, overlapped,
                     svc, rpc_stack, stack_id, calls, sp, exc_return, fpca>>
      /\ mpu' = mpu_load(mpu, os_processes[svc.process].mpu, 0, HOSTED)
  BY DEF CallLoad, schedVars, rpcVars, frameVars
<1>2. t \in Threads
  BY <1>1 DEF ArmInv, SwitchInv
<1>3. svc.process \in Processes
  BY <1>1 DEF ArmInv, HandlerInv, Call
<1>4. UnitInv'
  <2>1. os_processes[svc.process].mpu \in [Slots -> [base : Nat, size : Nat]]
    BY <1>3 DEF ArmInv, ProcessesInv
  <2> QED BY <1>1, <2>1, LoadIsUnit DEF ArmInv, UnitInv
<1>9. ASSUME overlapped = FALSE
      PROVE  OpenInv'
  <2>1. os_processes[svc.process] = Described(svc.process)
    BY <1>1, <1>3 DEF ArmInv, ProcessesInv
  <2>2. mpu = OpenTo(t, Working(t)) /\ Working(t) \in Processes
    BY <1>1, <1>2, <1>9, WorkingIsProcess DEF ArmInv, OpenInv, Opened
  <2>3. mpu' = OpenTo(t, svc.process)
    BY <1>1, <1>2, <1>3, <2>1, <2>2, LoadOpens
  <2>4. Opened' = svc.process
    BY <1>1 DEF Opened
  <2> QED BY <1>1, <2>3, <2>4 DEF OpenInv
<1>10. OpenInv'
  BY <1>1, <1>9 DEF OpenInv
<1>5. ProcessesInv' /\ FramesInv'
  BY <1>1, ProcessesStand, FramesStand DEF ArmInv, FramesInv
<1>6. HostsInv'
  <2>1. \A u \in Threads : Pushed(u)' = Pushed(u)
    BY <1>1 DEF Pushed
  <2> QED BY <1>1, <2>1, HostsStand DEF ArmInv
<1>7. SwitchInv'
  <2>1. \A u \in Threads \ {thread_current} : Host(u)' = Host(u)
    BY <1>1 DEF Host, Depth, rpc_stack_top, RpcEntry
  <2> QED BY <1>1, <2>1, SwitchStands DEF ArmInv, Handling
<1>8. HandlerInv'
  BY <1>1 DEF ArmInv, HandlerInv
<1> QED BY <1>4, <1>5, <1>6, <1>7, <1>8, <1>10 DEF ArmInv

\* The new call goes below all the others.
LEMMA CallFrameStep ==
    ASSUME ArmInv, WellConfigured, CallFrame
    PROVE  ArmInv'
<1>0. PICK t \in Threads : t = thread_current
  BY DEF ArmInv, SwitchInv
<1>d. PICK d \in Nat : d = Len(calls[t])
  BY <1>0, PointerOnStack DEF ArmInv, WellConfigured
<1>1. /\ pc = "call_frame" /\ pc' = "user"
      /\ UNCHANGED <<armv8, os_processes, mpu, protection, thread_current, thread_next, cpu_context, pendsv, overlapped,
                     rpc_stack, stack_id, exc_return>>
  BY DEF CallFrame, mpuVars, schedVars
<1>2. thread_current = t /\ thread_current' = t
  BY <1>0, <1>1
<1>3. /\ svc \in Call /\ svc.top = sp[t] - CallerWords /\ svc.at = Stacked(svc.top, svc.fpu).at
      /\ exc_return[t] = svc.fpu /\ d < MaxDepth
  BY <1>1, <1>2, <1>d DEF ArmInv, HandlerInv
<1>4. svc.process \in Processes /\ svc.at \in Int /\ svc.top \in Int /\ svc.fpu \in BOOLEAN
  BY <1>3 DEF Call
<1>5. /\ sp[t] \in Int /\ sp[t] % 2 = 0 /\ sp[t] <= StackTop(t) /\ StackTop(t) \in Nat
      /\ sp[t] >= StackTop(t) - CallWords * d /\ d \in Nat /\ MaxDepth \in Nat
      /\ \A i \in 1 .. d : calls[t][i] \in Call /\ sp[t] < calls[t][i].at
  BY <1>d, PointerOnStack DEF ArmInv, WellConfigured
<1> DEFINE c == [svc EXCEPT !.r0 = svc.fpu]
           n == os_exception_frame_size(svc.fpu)
<1>6. /\ c \in Call /\ c.r0 = c.fpu /\ c.at = svc.at /\ c.top = svc.top /\ c.process = svc.process
      /\ c.fpu = svc.fpu
  BY <1>3 DEF Call
<1>7. n \in {8, 26} /\ CallerWords = 2 /\ CallWords = 30
  BY <1>4, FrameSizes
<1>8. /\ svc.top = sp[t] - 2 /\ svc.at = svc.top - n /\ svc.at % 2 = 0
      /\ svc.at < sp[t] /\ svc.at - 2 >= sp[t] - 30
  <2>1. svc.top = sp[t] - 2 /\ svc.top % 2 = 0
    BY <1>3, <1>5, <1>7
  <2>2. svc.at = svc.top - n
    BY <1>3, <1>4, <2>1, StackedEven
  <2> HIDE DEF n
  <2> QED BY <1>4, <1>5, <1>7, <2>1, <2>2
<1>9. /\ calls' = [calls EXCEPT ![t] = Append(@, c)]
      /\ sp' = [sp EXCEPT ![t] = svc.at - 2]
      /\ fpca' = svc.fpu
  <2>1. Unstacked(push_exception_frame(svc.at, 2, svc.fpu), svc.fpu) = svc.at - 2
    BY <1>4, <1>8, PushedEven
  <2> QED BY <1>2, <1>3, <2>1 DEF CallFrame
<1>10. /\ calls \in [Threads -> Seq(Call)] /\ sp \in [Threads -> Int] /\ exc_return \in [Threads -> BOOLEAN]
       /\ \A u \in Threads : Len(calls[u]) \in Nat
  BY DEF ArmInv, FramesInv
<1> HIDE DEF c, n
<1>11. /\ calls'[t] = Append(calls[t], c) /\ calls'[t] \in Seq(Call) /\ Len(calls'[t]) = d + 1
       /\ calls'[t][d + 1] = c /\ \A i \in 1 .. d : calls'[t][i] = calls[t][i]
       /\ sp'[t] = svc.at - 2
  BY <1>d, <1>6, <1>9, <1>10
<1>12. \A u \in Threads \ {t} : calls'[u] = calls[u] /\ sp'[u] = sp[u]
  BY <1>9, <1>10
<1>13. FramesInv'
  <2>1. calls' \in [Threads -> Seq(Call)] /\ sp' \in [Threads -> Int] /\ fpca' \in BOOLEAN
    BY <1>2, <1>4, <1>6, <1>9, <1>10
  <2>2. ASSUME NEW u \in Threads
        PROVE  /\ Len(calls'[u]) <= MaxDepth
               /\ sp'[u] = Below(u, Len(calls[u]))'
               /\ \A i \in 1 .. Len(calls'[u]) : FrameStands(u, i)'
               /\ \A i, j \in 1 .. Len(calls'[u]) : i < j => calls'[u][j].at < calls'[u][i].at
    <3>1. /\ Len(calls[u]) <= MaxDepth
          /\ sp[u] = Below(u, Len(calls[u]))
          /\ \A i \in 1 .. Len(calls[u]) : FrameStands(u, i)
          /\ \A i, j \in 1 .. Len(calls[u]) : i < j => calls[u][j].at < calls[u][i].at
      BY DEF ArmInv, FramesInv
    <3>2. CASE u # t
      <4>1. calls'[u] = calls[u] /\ sp'[u] = sp[u]
        BY <1>12, <3>2
      <4> QED BY <3>1, <4>1 DEF Below, FrameStands
    <3>3. CASE u = t
      <4>1. Below(t, d + 1)' = svc.at - 2 /\ Below(t, d)' = sp[t]
        <5>1. d + 1 # 0
          BY <1>5
        <5>2. sp[t] = Below(t, d)
          BY <1>d, <3>1, <3>3
        <5>3. CASE d = 0
          BY <1>6, <1>11, <5>1, <5>2, <5>3 DEF Below
        <5>4. CASE d # 0
          <6>1. d \in 1 .. d
            BY <1>5, <5>4
          <6> QED BY <1>6, <1>11, <5>1, <5>2, <5>4, <6>1 DEF Below
        <5> QED BY <5>3, <5>4
      <4>2. FrameStands(t, d + 1)'
        <5>1. d + 1 - 1 = d /\ svc.at <= StackTop(t) /\ svc.at - 2 >= StackTop(t) - CallWords * (d + 1)
          BY <1>4, <1>5, <1>7, <1>8
        <5> QED BY <1>6, <1>7, <1>8, <1>11, <4>1, <5>1 DEF FrameStands, n
      <4>3. ASSUME NEW i \in 1 .. d PROVE FrameStands(t, i)'
        <5>1. calls'[t][i] = calls[t][i] /\ i # 0 /\ FrameStands(t, i)
          BY <1>d, <1>11, <3>1, <3>3
        <5>2. i - 1 \in 1 .. d \/ i - 1 = 0
          BY <1>5
        <5>3. Below(t, i - 1)' = Below(t, i - 1) /\ Below(t, i)' = Below(t, i)
          BY <1>11, <5>1, <5>2 DEF Below
        <5> QED BY <5>1, <5>3 DEF FrameStands
      <4>4. \A i \in 1 .. d + 1 : FrameStands(t, i)'
        <5>1. \A i \in 1 .. d + 1 : i \in 1 .. d \/ i = d + 1
          BY <1>5
        <5> QED BY <4>2, <4>3, <5>1
      <4>5. ASSUME NEW i \in 1 .. d + 1, NEW j \in 1 .. d + 1, i < j
            PROVE  calls'[t][j].at < calls'[t][i].at
        <5>1. i \in 1 .. d
          BY <1>5, <4>5
        <5>2. CASE j = d + 1
          <6>1. calls'[t][j].at = svc.at /\ calls'[t][i] = calls[t][i] /\ sp[t] < calls[t][i].at
            BY <1>5, <1>6, <1>11, <5>1, <5>2
          <6>2. calls[t][i].at \in Int
            BY <1>5, <5>1 DEF Call
          <6> QED BY <1>4, <1>5, <1>8, <6>1, <6>2
        <5>3. CASE j # d + 1
          <6>1. j \in 1 .. d
            BY <1>5, <5>3
          <6> QED BY <1>d, <1>11, <3>1, <3>3, <4>5, <5>1, <6>1
        <5> QED BY <5>2, <5>3
      <4>6. d + 1 <= MaxDepth
        BY <1>3, <1>5
      <4> QED BY <1>11, <3>3, <4>1, <4>4, <4>5, <4>6
    <3> QED BY <3>2, <3>3
  <2> QED BY <1>1, <1>10, <2>1, <2>2 DEF FramesInv
<1>14. HostsInv'
  <2>1. /\ \A u \in Threads : Pushed(u) = IF u = t THEN 1 ELSE 0
        /\ \A u \in Threads : Pushed(u)' = 0
    BY <1>1, <1>2 DEF Pushed
  <2>2. ASSUME NEW u \in Threads
        PROVE  /\ Depth(u)' = Len(calls'[u]) + Pushed(u)'
               /\ \A i \in 1 .. Len(calls'[u]) : rpc_stack'[u][i] = calls'[u][i].process
    <3>1. /\ Depth(u) = Len(calls[u]) + Pushed(u)
          /\ \A i \in 1 .. Len(calls[u]) : rpc_stack[u][i] = calls[u][i].process
          /\ Pushed(u) = 1 => rpc_stack[u][Depth(u)] = svc.process
      BY DEF ArmInv, HostsInv
    <3>2. Depth(u)' = Depth(u) /\ rpc_stack'[u] = rpc_stack[u]
      BY <1>1 DEF Depth
    <3>3. CASE u # t
      <4>1. calls'[u] = calls[u]
        BY <1>12, <3>3
      <4> QED BY <2>1, <3>1, <3>2, <3>3, <4>1
    <3>4. CASE u = t
      <4>1. Depth(t) = d + 1 /\ rpc_stack[t][d + 1] = svc.process
        BY <1>d, <2>1, <3>1, <3>4
      <4>2. \A i \in 1 .. d + 1 : i \in 1 .. d \/ i = d + 1
        BY <1>5
      <4>3. \A i \in 1 .. d : rpc_stack[t][i] = calls[t][i].process
        BY <1>d, <3>1, <3>4
      <4>4. \A i \in 1 .. d + 1 : rpc_stack[t][i] = calls'[t][i].process
        BY <1>6, <1>11, <4>1, <4>2, <4>3
      <4>5. Depth(t)' = d + 1 /\ Len(calls'[t]) + Pushed(t)' = d + 1
        <5>1. Depth(t)' = Depth(t) /\ Pushed(t)' = 0 /\ Len(calls'[t]) = d + 1
          BY <1>11, <2>1, <3>2, <3>4
        <5> QED BY <4>1, <5>1
      <4>6. \A i \in 1 .. Len(calls'[t]) : rpc_stack'[t][i] = calls'[t][i].process
        BY <1>11, <3>2, <3>4, <4>4
      <4> QED BY <3>4, <4>5, <4>6
    <3> QED BY <3>3, <3>4
  <2>3. rpc_stack' \in [Threads -> [0 .. RPC_SLOTS - 1 -> Nat]] /\ stack_id' = [u \in Threads |-> u]
    BY <1>1 DEF ArmInv, HostsInv
  <2> QED BY <2>1, <2>2, <2>3 DEF HostsInv
<1>15. UnitInv' /\ OpenInv'
  <2>1. overlapped = FALSE => mpu = OpenTo(t, svc.process)
    BY <1>1, <1>2 DEF ArmInv, OpenInv, Opened
  <2>2. Opened' = svc.process
    <3>1. calls'[t] # <<>> /\ calls'[t][Len(calls'[t])] = c
      <4>1. Len(calls'[t]) # 0 /\ calls'[t][d + 1] = c /\ Len(calls'[t]) = d + 1
        BY <1>11
      <4>2. Len(<<>>) = 0
        OBVIOUS
      <4> QED BY <4>1, <4>2
    <3> QED BY <1>1, <1>2, <1>6, <3>1 DEF Opened, Working
  <2>3. UnitInv'
    BY <1>1 DEF ArmInv, UnitInv
  <2> QED BY <1>1, <1>2, <2>1, <2>2, <2>3 DEF OpenInv
<1>16. ProcessesInv'
  BY <1>1, ProcessesStand DEF ArmInv
<1>17. SwitchInv'
  <2>1. \A u \in Threads \ {thread_current} : Host(u)' = Host(u)
    BY <1>1 DEF Host, Depth, rpc_stack_top, RpcEntry
  <2> QED BY <1>1, <2>1, SwitchStands DEF ArmInv, Handling
<1>18. HandlerInv'
  BY <1>1 DEF HandlerInv
<1> QED BY <1>13, <1>14, <1>15, <1>16, <1>17, <1>18 DEF ArmInv

------------------------------------------------------------------------------
(***************************************************************************)
(* Returns.                                                                *)
(***************************************************************************)

\* Of all frames on the stack the handler finds the innermost.
LEMMA ReturnStep ==
    ASSUME ArmInv, WellConfigured, os_rpc_return
    PROVE  ArmInv'
<1>0. PICK t \in Threads : t = thread_current
  BY DEF ArmInv, SwitchInv
<1>d. PICK d \in Nat : d = Len(calls[t])
  BY <1>0, PointerOnStack DEF ArmInv, WellConfigured
<1>1. /\ pc = "user" /\ ~pendsv /\ pc' = "return_pop" /\ calls[t] # <<>>
      /\ UNCHANGED <<armv8, os_processes, mpu, protection, thread_current, thread_next, cpu_context, pendsv, overlapped,
                     rpc_stack, stack_id, calls, sp, fpca>>
  BY <1>0 DEF os_rpc_return, InThread, mpuVars, schedVars, rpcVars
<1>2. thread_current = t /\ thread_current' = t /\ pendsv = FALSE
  BY <1>0, <1>1 DEF ArmInv, SwitchInv
<1>3. PICK i \in 1 .. d : /\ calls[t][i].at = ReturnFrame(t) /\ svc' = calls[t][i]
                          /\ exc_return' = [exc_return EXCEPT ![t] = calls[t][i].r0]
  BY <1>0, <1>d DEF os_rpc_return
<1>4. calls[t] \in Seq(Call) /\ sp[t] \in Int /\ sp[t] = Below(t, d) /\ exc_return \in [Threads -> BOOLEAN]
      /\ \A k, j \in 1 .. d : k < j => calls[t][j].at < calls[t][k].at
  BY <1>d DEF ArmInv, FramesInv
<1>5. d \in 1 .. d /\ d # 0 /\ calls[t][d] \in Call /\ calls[t][i] \in Call
  BY <1>d, <1>1, <1>3, <1>4
<1>6. calls[t][d].at \in Int /\ calls[t][i].at \in Int /\ calls[t][i].r0 \in BOOLEAN
  BY <1>5 DEF Call
<1>7. calls[t][i].at = calls[t][d].at
  <2>1. ReturnFrame(t) = sp[t] + 2
    BY ReturnFindsFrame DEF ArmInv, WellConfigured
  <2>2. sp[t] = calls[t][d].at - 2
    BY <1>4, <1>5 DEF Below
  <2> QED BY <1>3, <1>6, <2>1, <2>2
<1>8. i = d
  <2>1. i < d => calls[t][d].at < calls[t][i].at
    BY <1>4, <1>5
  <2> QED BY <1>3, <1>6, <1>7, <2>1
<1>9. ProcessesInv' /\ FramesInv'
  <2>1. exc_return' \in [Threads -> BOOLEAN] /\ fpca' \in BOOLEAN
    BY <1>1, <1>3, <1>4, <1>6 DEF ArmInv, FramesInv
  <2> QED BY <1>1, <2>1, ProcessesStand, FramesStand DEF ArmInv
<1>10. HostsInv'
  <2>1. \A u \in Threads : Pushed(u) = 0 /\ Pushed(u)' = 0
    BY <1>1 DEF Pushed
  <2> QED BY <1>1, <2>1, HostsStand DEF ArmInv
<1>11. UnitInv' /\ OpenInv'
  BY <1>1 DEF ArmInv, UnitInv, OpenInv, Opened, Working
<1>12. SwitchInv'
  BY <1>1, <1>2 DEF ArmInv, SwitchInv, Handling
<1>13. HandlerInv'
  <2>1. exc_return'[t] = svc'.r0
    BY <1>3, <1>4
  <2>2. svc' = calls'[t][Len(calls'[t])]
    BY <1>d, <1>1, <1>3, <1>8
  <2> QED BY <1>1, <1>2, <2>1, <2>2 DEF HandlerInv
<1> QED BY <1>9, <1>10, <1>11, <1>12, <1>13 DEF ArmInv

LEMMA ReturnPopStep ==
    ASSUME ArmInv, WellConfigured, ReturnPop
    PROVE  ArmInv'
<1>0. PICK t \in Threads : t = thread_current
  BY DEF ArmInv, SwitchInv
<1>d. PICK d \in Nat : d = Len(calls[t])
  BY <1>0, PointerOnStack DEF ArmInv, WellConfigured
<1>1. /\ pc = "return_pop" /\ pc' = "return_load"
      /\ UNCHANGED <<armv8, os_processes, mpu, protection, thread_current, thread_next, cpu_context, pendsv, overlapped,
                     svc, stack_id, calls, sp, exc_return, fpca>>
  BY DEF ReturnPop, mpuVars, schedVars, frameVars
<1>2. thread_current = t /\ thread_current' = t /\ d > 0
  <2>1. calls[t] # <<>> /\ calls[t] \in Seq(Call)
    BY <1>0, <1>1 DEF ArmInv, HandlerInv, FramesInv
  <2>2. d > 0
    BY <1>d, <2>1
  <2> QED BY <1>0, <1>1, <2>2 DEF ArmInv, SwitchInv
<1>3. /\ \A u \in Threads : Pushed(u) = 0
      /\ \A u \in Threads : Pushed(u)' = IF u = t THEN -1 ELSE 0
  BY <1>1, <1>2 DEF Pushed
<1>4. /\ rpc_stack \in [Threads -> [0 .. RPC_SLOTS - 1 -> Nat]]
      /\ \A u \in Threads : Len(calls[u]) \in Nat /\ Depth(u) = Len(calls[u])
      /\ \A u \in Threads : \A i \in 1 .. Len(calls[u]) : rpc_stack[u][i] = calls[u][i].process
  BY <1>3, PointerOnStack DEF ArmInv, HostsInv, WellConfigured
<1>5. 0 \in 0 .. RPC_SLOTS - 1 /\ d <= MaxDepth /\ MaxDepth < RPC_SLOTS
  BY <1>d, ArmAssumption, PointerOnStack DEF ArmInv, WellConfigured
<1>6. rpc_stack' = [rpc_stack EXCEPT ![t] = [rpc_stack[t] EXCEPT ![0] = d - 1]]
  <2>1. rpc_stack[t][0] = d
    BY <1>d, <1>4 DEF Depth
  <2> QED BY <1>2, <1>4, <1>5, <2>1 DEF ReturnPop, rpc_stack_pop
<1>7. HostsInv'
  <2>1. rpc_stack' \in [Threads -> [0 .. RPC_SLOTS - 1 -> Nat]]
    <3>1. [rpc_stack[t] EXCEPT ![0] = d - 1] \in [0 .. RPC_SLOTS - 1 -> Nat]
      BY <1>2, <1>4, <1>5
    <3> QED BY <1>4, <1>6, <3>1
  <2>2. ASSUME NEW u \in Threads
        PROVE  /\ Depth(u)' = Len(calls'[u]) + Pushed(u)'
               /\ \A i \in 1 .. Len(calls'[u]) : rpc_stack'[u][i] = calls'[u][i].process
    <3>1. CASE u = t
      <4>1. rpc_stack'[t] = [rpc_stack[t] EXCEPT ![0] = d - 1] /\ rpc_stack[t] \in [0 .. RPC_SLOTS - 1 -> Nat]
        BY <1>4, <1>6
      <4>2. Depth(t)' = d - 1
        BY <1>5, <4>1 DEF Depth
      <4>3. \A i \in 1 .. d : rpc_stack'[t][i] = rpc_stack[t][i]
        <5>1. \A i \in 1 .. d : i \in 0 .. RPC_SLOTS - 1 /\ i # 0
          BY <1>5, ArmAssumption
        <5> QED BY <4>1, <5>1
      <4>4. calls'[t] = calls[t] /\ \A i \in 1 .. d : rpc_stack[t][i] = calls[t][i].process
        BY <1>d, <1>1, <1>4
      <4>5. Len(calls'[t]) + Pushed(t)' = d - 1
        BY <1>d, <1>3, <4>4
      <4> QED BY <1>d, <3>1, <4>2, <4>3, <4>4, <4>5
    <3>2. CASE u # t
      <4>1. rpc_stack'[u] = rpc_stack[u] /\ Depth(u)' = Depth(u)
        BY <1>4, <1>6, <3>2 DEF Depth
      <4> QED BY <1>1, <1>3, <1>4, <3>2, <4>1
    <3> QED BY <3>1, <3>2
  <2>3. \A u \in Threads : Pushed(u)' # 1
    BY <1>3
  <2> QED BY <1>1, <2>1, <2>2, <2>3 DEF ArmInv, HostsInv
<1>8. ProcessesInv' /\ FramesInv'
  BY <1>1, ProcessesStand, FramesStand DEF ArmInv, FramesInv
<1>9. UnitInv' /\ OpenInv'
  BY <1>1 DEF ArmInv, UnitInv, OpenInv, Opened, Working
<1>10. SwitchInv'
  <2>1. \A u \in Threads \ {t} : rpc_stack'[u] = rpc_stack[u]
    BY <1>4, <1>6
  <2>2. \A u \in Threads \ {thread_current} : Host(u)' = Host(u)
    BY <1>1, <1>2, <2>1 DEF Host, Depth, rpc_stack_top, RpcEntry
  <2> QED BY <1>1, <2>2, SwitchStands DEF ArmInv, Handling
<1>11. HandlerInv'
  BY <1>1 DEF ArmInv, HandlerInv
<1> QED BY <1>7, <1>8, <1>9, <1>10, <1>11 DEF ArmInv

\* The thread is back where its call was: the same stack pointer, and the memory
\* of the process it called from.
LEMMA ReturnLoadStep ==
    ASSUME ArmInv, WellConfigured, ReturnLoad
    PROVE  ArmInv'
<1>0. PICK t \in Threads : t = thread_current
  BY DEF ArmInv, SwitchInv
<1>d. PICK d \in Nat : d = Len(calls[t])
  BY <1>0, PointerOnStack DEF ArmInv, WellConfigured
<1>1. /\ pc = "return_load" /\ pc' = "user"
      /\ UNCHANGED <<armv8, os_processes, protection, thread_current, thread_next, cpu_context, pendsv, overlapped,
                     rpc_stack, stack_id, exc_return>>
  BY DEF ReturnLoad, schedVars
<1>2. thread_current = t /\ thread_current' = t
  BY <1>0, <1>1
<1>3. /\ calls \in [Threads -> Seq(Call)] /\ sp \in [Threads -> Int] /\ exc_return \in [Threads -> BOOLEAN]
      /\ calls[t] \in Seq(Call) /\ calls[t] # <<>>
      /\ svc = calls[t][d] /\ exc_return[t] = svc.r0
  BY <1>d, <1>1, <1>2 DEF ArmInv, FramesInv, HandlerInv
<1>4. d > 0 /\ d \in 1 .. d /\ svc \in Call
  BY <1>d, <1>3
<1>5. svc.at \in Int /\ svc.top \in Int /\ svc.fpu \in BOOLEAN
  BY <1>4 DEF Call
<1>6. FrameStands(t, d)
  BY <1>d, <1>4 DEF ArmInv, FramesInv
<1>7. /\ svc.r0 = svc.fpu /\ svc.top = Below(t, d - 1) - CallerWords
      /\ svc.at = svc.top - os_exception_frame_size(svc.fpu)
  BY <1>3, <1>6 DEF FrameStands
<1>8. Below(t, d - 1) \in Int
  <2>1. StackTop(t) \in Int
    BY PointerOnStack DEF ArmInv, WellConfigured
  <2>2. d - 1 # 0 => calls[t][d - 1] \in Call
    BY <1>d, <1>3, <1>4
  <2> QED BY <2>1, <2>2 DEF Below, Call
<1>9. sp' = [sp EXCEPT ![t] = Below(t, d - 1)] /\ fpca' = svc.fpu
  <2>1. Unstacked([at |-> svc.at, padding |-> FALSE], svc.fpu) + CallerWords = Below(t, d - 1)
    <3>1. Unstacked([at |-> svc.at, padding |-> FALSE], svc.fpu) = svc.at + os_exception_frame_size(svc.fpu) + 0
      BY DEF Unstacked
    <3>2. os_exception_frame_size(svc.fpu) \in Int /\ CallerWords = 2
      BY <1>5, FrameSizes
    <3> QED BY <1>5, <1>7, <1>8, <3>1, <3>2
  <2> QED BY <1>2, <1>3, <1>7, <2>1 DEF ReturnLoad
<1>10. /\ calls' = [calls EXCEPT ![t] = SubSeq(calls[t], 1, d - 1)]
       /\ calls'[t] \in Seq(Call) /\ Len(calls'[t]) = d - 1
       /\ \A i \in 1 .. d - 1 : calls'[t][i] = calls[t][i]
       /\ sp'[t] = Below(t, d - 1)
  <2>1. calls' = [calls EXCEPT ![t] = SubSeq(calls[t], 1, d - 1)]
    BY <1>d, <1>2 DEF ReturnLoad
  <2>2. calls'[t] = SubSeq(calls[t], 1, d - 1)
    BY <1>3, <2>1
  <2>3. d - 1 \in Nat /\ d - 1 <= d
    BY <1>4
  <2>4. sp'[t] = Below(t, d - 1)
    BY <1>3, <1>9
  <2> QED BY <1>d, <1>3, <2>1, <2>2, <2>3, <2>4
<1>11. \A u \in Threads \ {t} : calls'[u] = calls[u] /\ sp'[u] = sp[u]
  BY <1>3, <1>9, <1>10
<1>12. \A i \in 0 .. d - 1 : Below(t, i)' = Below(t, i)
  <2>1. \A i \in 0 .. d - 1 : i # 0 => i \in 1 .. d - 1
    OBVIOUS
  <2> QED BY <1>10, <2>1 DEF Below
<1>13. FramesInv'
  <2>1. calls' \in [Threads -> Seq(Call)] /\ sp' \in [Threads -> Int] /\ fpca' \in BOOLEAN
    <3>1. SubSeq(calls[t], 1, d - 1) \in Seq(Call)
      BY <1>3, <1>10
    <3> QED BY <1>3, <1>5, <1>8, <1>9, <1>10, <3>1
  <2>2. ASSUME NEW u \in Threads
        PROVE  /\ Len(calls'[u]) <= MaxDepth
               /\ sp'[u] = Below(u, Len(calls[u]))'
               /\ \A i \in 1 .. Len(calls'[u]) : FrameStands(u, i)'
               /\ \A i, j \in 1 .. Len(calls'[u]) : i < j => calls'[u][j].at < calls'[u][i].at
    <3>1. /\ Len(calls[u]) <= MaxDepth
          /\ sp[u] = Below(u, Len(calls[u]))
          /\ \A i \in 1 .. Len(calls[u]) : FrameStands(u, i)
          /\ \A i, j \in 1 .. Len(calls[u]) : i < j => calls[u][j].at < calls[u][i].at
      BY DEF ArmInv, FramesInv
    <3>2. CASE u # t
      <4>1. calls'[u] = calls[u] /\ sp'[u] = sp[u]
        BY <1>11, <3>2
      <4> QED BY <3>1, <4>1 DEF Below, FrameStands
    <3>3. CASE u = t
      <4>1. d - 1 \in 0 .. d - 1 /\ d - 1 <= MaxDepth /\ \A i \in 1 .. d - 1 : i \in 1 .. d
        BY <1>d, <1>4, <3>1, <3>3, ArmAssumption
      <4>2. sp'[t] = Below(t, d - 1)'
        BY <1>10, <1>12, <4>1
      <4>3. ASSUME NEW i \in 1 .. d - 1 PROVE FrameStands(t, i)'
        <5>1. calls'[t][i] = calls[t][i] /\ FrameStands(t, i)
          BY <1>d, <1>10, <3>1, <3>3, <4>1
        <5>2. Below(t, i - 1)' = Below(t, i - 1) /\ Below(t, i)' = Below(t, i)
          <6>1. i - 1 \in 0 .. d - 1 /\ i \in 0 .. d - 1
            OBVIOUS
          <6> QED BY <1>12, <6>1
        <5> QED BY <5>1, <5>2 DEF FrameStands
      <4>4. \A i, j \in 1 .. d - 1 : i < j => calls'[t][j].at < calls'[t][i].at
        BY <1>d, <1>10, <3>1, <3>3, <4>1
      <4>5. Below(u, Len(calls[u]))' = Below(t, d - 1)'
        BY <1>10, <3>3
      <4> QED BY <1>10, <3>3, <4>1, <4>2, <4>3, <4>4, <4>5
    <3> QED BY <3>2, <3>3
  <2> QED BY <1>1, <1>3, <2>1, <2>2 DEF FramesInv
<1>14. HostsInv'
  <2>1. /\ \A u \in Threads : Pushed(u) = IF u = t THEN -1 ELSE 0
        /\ \A u \in Threads : Pushed(u)' = 0
    BY <1>1, <1>2 DEF Pushed
  <2>2. ASSUME NEW u \in Threads
        PROVE  /\ Depth(u)' = Len(calls'[u]) + Pushed(u)'
               /\ \A i \in 1 .. Len(calls'[u]) : rpc_stack'[u][i] = calls'[u][i].process
    <3>1. /\ Depth(u) = Len(calls[u]) + Pushed(u)
          /\ \A i \in 1 .. Len(calls[u]) : rpc_stack[u][i] = calls[u][i].process
      BY DEF ArmInv, HostsInv
    <3>2. Depth(u)' = Depth(u) /\ rpc_stack'[u] = rpc_stack[u]
      BY <1>1 DEF Depth
    <3>3. CASE u # t
      <4>1. calls'[u] = calls[u]
        BY <1>11, <3>3
      <4> QED BY <2>1, <3>1, <3>2, <3>3, <4>1
    <3>4. CASE u = t
      <4>1. Depth(t) = d - 1
        BY <1>d, <2>1, <3>1, <3>4
      <4>2. Depth(t)' = d - 1 /\ Len(calls'[t]) + Pushed(t)' = d - 1
        <5>1. Depth(t)' = Depth(t) /\ Pushed(t)' = 0 /\ Len(calls'[t]) = d - 1
          BY <1>10, <2>1, <3>2, <3>4
        <5> QED BY <4>1, <5>1
      <4>3. \A i \in 1 .. d - 1 : i \in 1 .. d
        OBVIOUS
      <4>4. \A i \in 1 .. d - 1 : rpc_stack'[t][i] = calls'[t][i].process
        BY <1>d, <1>10, <3>1, <3>2, <3>4, <4>3
      <4> QED BY <1>10, <3>4, <4>2, <4>4
    <3> QED BY <3>3, <3>4
  <2>3. rpc_stack' \in [Threads -> [0 .. RPC_SLOTS - 1 -> Nat]] /\ stack_id' = [u \in Threads |-> u]
    BY <1>1 DEF ArmInv, HostsInv
  <2> QED BY <2>1, <2>2, <2>3 DEF HostsInv
<1>15. UnitInv' /\ OpenInv'
  <2>1. /\ Working(t) \in Processes
        /\ overlapped = FALSE => mpu = OpenTo(t, Working(t))
    BY <1>1, <1>2, WorkingIsProcess DEF ArmInv, OpenInv, Opened
  <2>2. Host(t)' = Working(t)' /\ Working(t)' \in Processes
    <3>1. (\A u \in Threads : WellConfigured /\ FramesInv /\ HostsInv /\ Pushed(u) = 0
                              => Host(u) = Working(u) /\ Working(u) \in Processes)'
      BY EveryHostIsWorking, PTL
    <3>2. Pushed(t)' = 0
      BY <1>1 DEF Pushed
    <3> QED BY <1>13, <1>14, <3>1, <3>2
  <2>3. Host(t)' = Host(t)
    BY <1>1 DEF Host, Depth, rpc_stack_top, RpcEntry
  <2>4. os_processes[Host(t)] = Described(Host(t))
    BY <1>1, <2>2, <2>3 DEF ArmInv, ProcessesInv
  <2>5. mpu' = mpu_load(mpu, os_processes[Host(t)].mpu, 0, HOSTED)
    BY <1>2 DEF ReturnLoad
  <2>6. overlapped = FALSE => mpu' = OpenTo(t, Host(t))
    BY <2>1, <2>2, <2>3, <2>4, <2>5, LoadOpens
  <2>7. Opened' = Host(t)
    BY <1>1, <1>2, <2>2, <2>3 DEF Opened
  <2>8. UnitInv'
    <3>1. os_processes[Host(t)].mpu \in [Slots -> [base : Nat, size : Nat]]
      BY <2>2, <2>3 DEF ArmInv, ProcessesInv
    <3> QED BY <1>1, <2>5, <3>1, LoadIsUnit DEF ArmInv, UnitInv
  <2> QED BY <1>1, <1>2, <2>6, <2>7, <2>8 DEF OpenInv
<1>16. ProcessesInv'
  BY <1>1, ProcessesStand DEF ArmInv
<1>17. SwitchInv'
  <2>1. \A u \in Threads \ {thread_current} : Host(u)' = Host(u)
    BY <1>1 DEF Host, Depth, rpc_stack_top, RpcEntry
  <2> QED BY <1>1, <2>1, SwitchStands DEF ArmInv, Handling
<1>18. HandlerInv'
  BY <1>1 DEF HandlerInv
<1> QED BY <1>13, <1>14, <1>15, <1>16, <1>17, <1>18 DEF ArmInv

------------------------------------------------------------------------------
(***************************************************************************)
(* The theorems.                                                           *)
(***************************************************************************)

LEMMA NextKeepsArm ==
    ASSUME WellConfigured, ArmInv, [Next]_vars
    PROVE  ArmInv'
<1>1. ASSUME NEW p \in Processes, os_process_create(p) PROVE ArmInv'
  BY <1>1, CreateStep DEF WellConfigured
<1>2. ASSUME NEW t \in Threads, schedule_context_switch(t) PROVE ArmInv'
  BY <1>2, ScheduleStep
<1>3. ASSUME NEW s \in Services, os_rpc_call_refused(s) \/ os_rpc_call(s) PROVE ArmInv'
  BY <1>3, RefusedStep, CallStep
<1>4. CASE os_boot_thread \/ os_shutdown
  BY <1>4, BootStep, ShutdownStep
<1>5. CASE os_perform_thread_switch \/ UseFpu
  BY <1>5, SwitchStep, UseFpuStep
<1>6. CASE CallPush \/ CallLoad \/ CallFrame
  BY <1>6, CallPushStep, CallLoadStep, CallFrameStep
<1>7. CASE os_rpc_return \/ ReturnPop \/ ReturnLoad
  BY <1>7, ReturnStep, ReturnPopStep, ReturnLoadStep
<1>8. CASE UNCHANGED vars
  BY <1>8, StutterKeepsArm
<1> QED BY <1>1, <1>2, <1>3, <1>4, <1>5, <1>6, <1>7, <1>8 DEF Next

THEOREM ArmIsSound ==
    ASSUME WellConfigured
    PROVE  Spec => []ArmInv
<1>1. ArmInv /\ [Next]_vars => ArmInv'
  BY NextKeepsArm
<1> QED BY <1>1, InitArm, PTL DEF Spec

\* Depths, hosts and stack pointers stay in range in an application that nests its
\* calls less than RPC_SLOTS deep, whenever interrupts reschedule.
THEOREM ArmTypes ==
    ASSUME WellConfigured
    PROVE  Spec => []TypeOK
<1>1. ArmInv => TypeOK
  <2> SUFFICES ASSUME ArmInv PROVE TypeOK
    OBVIOUS
  <2>1. ASSUME NEW t \in Threads
        PROVE  /\ Depth(t) \in 0 .. RPC_SLOTS
               /\ sp[t] \in 0 .. StackTop(t)
               /\ \A i \in 1 .. Len(calls[t]) : calls[t][i].process \in Processes
    <3>1. /\ sp[t] \in Int /\ sp[t] >= 0 /\ sp[t] <= StackTop(t) /\ StackTop(t) \in Nat
          /\ Len(calls[t]) \in Nat /\ Len(calls[t]) <= MaxDepth /\ MaxDepth \in Nat
          /\ \A i \in 1 .. Len(calls[t]) : calls[t][i] \in Call
      BY PointerOnStack DEF ArmInv, WellConfigured
    <3>2. RPC_SLOTS \in Nat /\ MaxDepth < RPC_SLOTS
      BY ArmAssumption DEF WellConfigured
    <3>3. Depth(t) = Len(calls[t]) + Pushed(t) /\ Pushed(t) \in {-1, 0, 1}
      BY DEF ArmInv, HostsInv, Pushed
    <3>4. Pushed(t) = -1 => Len(calls[t]) > 0
      <4> SUFFICES ASSUME Pushed(t) = -1 PROVE Len(calls[t]) > 0
        OBVIOUS
      <4>1. t = thread_current /\ pc = "return_load"
        BY DEF Pushed
      <4>2. calls[t] # <<>> /\ calls[t] \in Seq(Call)
        BY <4>1 DEF ArmInv, HandlerInv, FramesInv
      <4> QED BY <4>2
    <3>5. Depth(t) \in 0 .. RPC_SLOTS
      BY <3>1, <3>2, <3>3, <3>4
    <3>6. \A i \in 1 .. Len(calls[t]) : calls[t][i].process \in Processes
      BY <3>1 DEF Call
    <3> QED BY <3>1, <3>5, <3>6
  <2> QED BY <2>1 DEF ArmInv, ProcessesInv, UnitInv, SwitchInv, TypeOK
<1> QED BY <1>1, ArmIsSound, PTL

\* A thread that runs reaches the memory of the process it works in, what its own
\* process shares and its own stack, whatever calls, switches and interrupts went
\* before, except from a switch an interrupt asks for within an RPC handler until the
\* unit is loaded again.
THEOREM MemoryIsIsolated ==
    ASSUME WellConfigured
    PROVE  Spec => []MemoryIsolation
<1>1. ArmInv => MemoryIsolation
  <2> SUFFICES ASSUME ArmInv, pc = "user", ~overlapped
               PROVE  protection /\ mpu = OpenTo(thread_current, Working(thread_current))
    BY DEF MemoryIsolation, OpenTo
  <2> QED BY DEF ArmInv, UnitInv, OpenInv, Opened
<1> QED BY <1>1, ArmIsSound, PTL

\* os_rpc_return finds the frame of the innermost call of the thread, whatever
\* the method did with the FPU, whoever ran in between and whenever interrupts
\* reschedule, and the recorded hosts are those of its calls, in an application
\* that nests its calls less than RPC_SLOTS deep.
THEOREM CallsReturnToCaller ==
    ASSUME WellConfigured
    PROVE  Spec => []RpcReturnsToCaller
<1>1. ArmInv => RpcReturnsToCaller
  <2> SUFFICES ASSUME ArmInv, NEW t \in Threads, pc = "user", calls[t] # <<>>
               PROVE  LET call == calls[t][Len(calls[t])]
                      IN  /\ t = thread_current => ReturnFrame(t) = call.at
                          /\ call.r0 = call.fpu
                          /\ Depth(t) = Len(calls[t])
                          /\ \A i \in 1 .. Len(calls[t]) : RpcEntry(t, i) = calls[t][i].process
                          /\ stack_id[t] = t
    BY DEF RpcReturnsToCaller
  <2> DEFINE d == Len(calls[t])
  <2>1. calls[t] \in Seq(Call) /\ d \in Nat /\ d <= MaxDepth /\ sp[t] = Below(t, d)
    BY DEF ArmInv, FramesInv
  <2>2. d \in 1 .. d /\ d # 0 /\ calls[t][d] \in Call
    BY <2>1
  <2>3. FrameStands(t, d)
    BY <2>2 DEF ArmInv, FramesInv
  <2>4. ReturnFrame(t) = calls[t][d].at
    <3>1. ReturnFrame(t) = sp[t] + 2
      BY ReturnFindsFrame DEF ArmInv, WellConfigured
    <3>2. sp[t] = calls[t][d].at - 2 /\ calls[t][d].at \in Int
      BY <2>1, <2>2 DEF Below, Call
    <3> QED BY <3>1, <3>2
  <2>5. Pushed(t) = 0
    BY DEF Pushed
  <2>6. /\ Depth(t) = d + 0 /\ stack_id[t] = t
        /\ \A i \in 1 .. d : rpc_stack[t][i] = calls[t][i].process
    BY <2>5 DEF ArmInv, HostsInv
  <2>7. \A i \in 1 .. d : RpcEntry(t, i) = calls[t][i].process
    <3>1. \A i \in 1 .. d : i < RPC_SLOTS
      BY <2>1, ArmAssumption DEF WellConfigured
    <3> QED BY <2>6, <3>1 DEF RpcEntry
  <2>8. calls[t][d].r0 = calls[t][d].fpu
    BY <2>3 DEF FrameStands
  <2> QED BY <2>1, <2>4, <2>6, <2>7, <2>8
<1> QED BY <1>1, ArmIsSound, PTL
==============================================================================
