-------------------------------- MODULE Mpu --------------------------------
(***************************************************************************)
(* The regions of the Cortex-M memory protection unit (arch/arm/mpu.c):    *)
(* what mpu_configure_region asks the hardware for, given a range of       *)
(* memory, and the two ways the kernel loads what it computed.  ARMv6-M    *)
(* and ARMv7-M describe a region by its base and a power of two, ARMv8-M   *)
(* by its base and its limit.  Access classes are left out: the process    *)
(* regions and the stacks are all MPU_RW.                                  *)
(***************************************************************************)
EXTENDS Integers

CONSTANTS
    AddressSpace,   \* number of addresses, 2^32 on the hardware
    HOSTED,         \* MPU_HOSTED_STATE_SIZE: slots that follow the host process
    TASK_REGIONS    \* OS_TASK_MPU_REGIONS: slots a process describes

ASSUME MpuAssumption ==
    /\ AddressSpace \in Nat \ {0}
    /\ HOSTED \in Nat /\ TASK_REGIONS \in Nat /\ HOSTED <= TASK_REGIONS

OS_MPU_REGION_STACK == TASK_REGIONS
MPU_STATE_SIZE == TASK_REGIONS + 1
Slots == 0 .. MPU_STATE_SIZE - 1

\* The contents of a slot: the addresses an unprivileged access may touch.
Disabled == [base |-> 0, size |-> 0]

Ok(region) == [rv |-> "E_OK", region |-> region]
Refused(code) == [rv |-> code, region |-> Disabled]

\* The hardware compares the address bits above the size of the region.
Block(base, size) == [base |-> base - (base % size), size |-> size]

Log2(n) == CHOOSE k \in 0 .. 31 : 2^k <= n /\ n < 2^(k + 1)

\* The SIZE field of a region of size bytes: the unit protects 2^(SIZE + 1).
regszbits(size) == Log2(size) - 1

\* Sizes that are no power of two and have to be put together from subregions.
\* The subregion mask itself is compiled out.
ConfigureSubregions(base, size) ==
    LET bits == regszbits(size) + 1
        sub == 2^(bits - 3)
    IN  CASE size % sub # 0 -> Refused("E_WRONG_SIZE")
          [] size % sub = 0 /\ base % sub # 0 -> Refused("E_MISALIGNED")
          [] OTHER -> IF ((base % 2^bits) \div sub) + (size \div sub) > 7
                      THEN Refused("E_MISALIGNED")
                      ELSE Ok(Block(base, 2^(bits + 1)))

ConfigureV7(base, size) ==
    CASE size = 0 -> Ok(Disabled)
      [] size # 0 /\ size % 2^regszbits(size) # 0 -> ConfigureSubregions(base, size)
      [] OTHER -> IF base % 2^regszbits(size) # 0
                  THEN Refused("E_MISALIGNED")
                  ELSE Ok(Block(base, 2^(regszbits(size) + 1)))

ConfigureV8(base, size) ==
    LET limit == (base + size - 1) % AddressSpace
    IN  CASE size = 0 -> Ok(Disabled)
          [] size # 0 /\ base % 32 # 0 -> Refused("E_MISALIGNED")
          [] OTHER -> IF limit < base \/ limit % 32 # 31
                      THEN Refused("E_WRONG_SIZE")
                      ELSE Ok([base |-> base, size |-> size])

mpu_configure_region(armv8, base, size) ==
    IF armv8 THEN ConfigureV8(base, size) ELSE ConfigureV7(base, size)

\* count slots from base on are loaded, the others keep what they hold.
mpu_load(unit, from, base, count) ==
    [q \in Slots |-> IF q \in base .. base + count - 1 THEN from[q] ELSE unit[q]]

mpu_restore(unit, hosted_state, parent_state) ==
    mpu_load(mpu_load(unit, hosted_state, 0, HOSTED),
             parent_state, HOSTED, MPU_STATE_SIZE - HOSTED)

mpu_init_stack(unit, mpu_stack) == [unit EXCEPT ![OS_MPU_REGION_STACK] = mpu_stack]
==============================================================================
