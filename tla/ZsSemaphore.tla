---------------------------- MODULE ZsSemaphore ----------------------------
(***************************************************************************)
(* struct zs__semaphore of lib/zslib.c: handles on one System V semaphore  *)
(* set which share a heap cell, *references, that counts the handles.      *)
(*                                                                         *)
(* zs__semaphore_op works on a handle of its own: it duplicates the one it *)
(* was given, does the kernel operation and destroys the duplicate, so     *)
(* that the owner may destroy the original while the operation is blocked. *)
(* A call is a chain of stages of the calling thread:                      *)
(*                                                                         *)
(*      inc --> [incStore] --> kernel --> dec --> [decStore --> test] -->  *)
(*      idle                                                               *)
(*                                                                         *)
(* Nothing protects *references.  With Smp = TRUE ++ and -- are a load and *)
(* a store that the accesses of other threads come between, and the test   *)
(* for 0 reads the cell again or uses the register, as the compiler likes; *)
(* with Smp = FALSE they are the one instruction the -O2 build for x86 has *)
(* for them, on one processor.                                             *)
(*                                                                         *)
(* The module has no Next: SemaphoreClients and ZsMessageLoop use it.      *)
(***************************************************************************)
EXTENDS Integers

CONSTANTS
  Threads,    \* the threads that use the semaphores
  Count,      \* a_count: how many semaphores the set has
  ShortMax,   \* largest short, also SEMVMX, the kernel's largest value (32767)
  RefMod,     \* 2^32: unsigned int arithmetic of *references
  Smp         \* TRUE: ++ and -- of *references are interruptible

ASSUME SemaphoreAssumption ==
  /\ Count \in Nat
  /\ ShortMax \in Nat \ {0}
  /\ RefMod \in Nat \ {0, 1}
  /\ Smp \in BOOLEAN

VARIABLES
  val,         \* the kernel's values
  removed,     \* the set was removed (IPC_RMID)
  references,  \* *a_sem->references
  freed,       \* the cell was freed
  stage,       \* where each thread is in a call
  call,        \* the call each thread is in, or was in last
  loaded,      \* what each thread's split ++ or -- loaded
  result,      \* what each thread's last zs__semaphore_op returned
  crashed      \* a double free or a wild access ended the process

semVars == <<val, removed, references, freed, stage, call, loaded, result, crashed>>

SemIds == 0 .. Count - 1
Stages == {"idle", "inc", "incStore", "kernel", "dec", "decStore", "test"}
Calls  == [kind : {"op", "duplicate", "destroy"}, id : Nat, value : Int, timed : BOOLEAN]

SemTypeOK ==
  /\ val \in [SemIds -> 0 .. ShortMax]
  /\ references \in 0 .. RefMod - 1
  /\ {removed, freed, crashed} \subseteq BOOLEAN
  /\ stage \in [Threads -> Stages]
  /\ call \in [Threads -> Calls]
  /\ loaded \in [Threads -> 0 .. RefMod - 1]
  /\ result \in [Threads -> {0, -1, -2}]

(***************************************************************************)
(* zs__semaphore_create followed by zs__semaphore_set of every value.      *)
(***************************************************************************)
SemInit(initial) ==
  /\ val = initial
  /\ references = 1
  /\ removed = FALSE /\ freed = FALSE /\ crashed = FALSE
  /\ stage = [t \in Threads |-> "idle"]
  /\ call = [t \in Threads |->
               [kind |-> "op", id |-> 0, value |-> 0, timed |-> FALSE]]
  /\ loaded = [t \in Threads |-> 0]
  /\ result = [t \in Threads |-> 0]

Idle(t) == stage[t] = "idle"

Begin(t, kind, id, value, timed, first) ==
  /\ Idle(t) /\ ~crashed
  /\ stage' = [stage EXCEPT ![t] = first]
  /\ call' = [call EXCEPT ![t] =
                [kind |-> kind, id |-> id, value |-> value, timed |-> timed]]
  /\ UNCHANGED <<val, removed, references, freed, loaded, result, crashed>>

(* Mutant of Op: the operation works on the handle itself, not on a duplicate. *)
OpOnOriginal(t, id, value, timed) ==
  Begin(t, "op", id, value, timed, IF id < Count /\ value # 0 THEN "kernel" ELSE "inc")

(***************************************************************************)
(* The calls.  timed: a_sec or a_nano_sec is not 0.                        *)
(***************************************************************************)
Op(t, id, value, timed) == Begin(t, "op", id, value, timed, "inc")
Duplicate(t) == Begin(t, "duplicate", 0, 0, FALSE, "inc")
Destroy(t)   == Begin(t, "destroy", 0, 0, FALSE, "dec")

(***************************************************************************)
(* zs__semaphore_set: SETVAL, one system call that the kernel refuses out  *)
(* of range.                                                               *)
(***************************************************************************)
Set(t, id, value) ==
  /\ Idle(t) /\ ~crashed
  /\ val' = IF id \in SemIds /\ ~removed /\ value \in 0 .. ShortMax
              THEN [val EXCEPT ![id] = value] ELSE val
  /\ UNCHANGED <<removed, references, freed, stage, call, loaded, result, crashed>>

(***************************************************************************)
(* zs__semaphore_duplicate: ++*references, then on to what the call is     *)
(* for.  A wrong id or the value 0 skips the kernel with the result -2.    *)
(***************************************************************************)
Refused(c) == c.kind = "op" /\ (c.id >= Count \/ c.value = 0)

(* Mutant of AfterIncrement: the early return does not destroy the duplicate. *)
AfterIncrementLeak(c) == IF c.kind = "duplicate" \/ Refused(c) THEN "idle" ELSE "kernel"

AfterIncrement(c) ==
  IF c.kind = "duplicate" THEN "idle" ELSE IF Refused(c) THEN "dec" ELSE "kernel"

IncrementFrom(t, base) ==
  /\ references' = (base + 1) % RefMod
  /\ stage' = [stage EXCEPT ![t] = AfterIncrement(call[t])]
  /\ result' = IF Refused(call[t]) THEN [result EXCEPT ![t] = -2] ELSE result
  /\ UNCHANGED <<val, removed, freed, call, loaded, crashed>>

Load(t, from, to) ==
  /\ Smp /\ stage[t] = from
  /\ loaded' = [loaded EXCEPT ![t] = references]
  /\ stage' = [stage EXCEPT ![t] = to]
  /\ UNCHANGED <<val, removed, references, freed, call, result, crashed>>

Increment(t) ==
  \/ ~Smp /\ stage[t] = "inc" /\ IncrementFrom(t, references)
  \/ Load(t, "inc", "incStore")
  \/ stage[t] = "incStore" /\ IncrementFrom(t, loaded[t])

(***************************************************************************)
(* The semtimedop loop.  sb.sem_op is a short, and the timeout argument is *)
(* the constant 0, so a blocked call waits for ever.  An error other than  *)
(* EINTR and EAGAIN (the set removed, the sum above SEMVMX) repeats the    *)
(* system call: the thread spins in this stage.                            *)
(***************************************************************************)
Short(v) == ((v + ShortMax + 1) % (2 * ShortMax + 2)) - ShortMax - 1

OutOfRange(t) == val[call[t].id] + Short(call[t].value) > ShortMax
KernelError(t) == stage[t] = "kernel" /\ (removed \/ OutOfRange(t))

(* Mutant of SemTimedOp: a P does not wait for a value above 0. *)
SemTimedOpNoWait(t) ==
  /\ stage[t] = "kernel" /\ ~removed /\ ~OutOfRange(t)
  /\ val' = [val EXCEPT ![call[t].id] = @ + Short(call[t].value)]
  /\ stage' = [stage EXCEPT ![t] = "dec"]
  /\ result' = [result EXCEPT ![t] = 0]
  /\ UNCHANGED <<removed, references, freed, call, loaded, crashed>>

SemTimedOp(t) ==
  /\ stage[t] = "kernel" /\ ~removed
  /\ LET id == call[t].id
         op == Short(call[t].value)
     IN /\ IF op = 0 THEN val[id] = 0 ELSE val[id] + op \in 0 .. ShortMax
        /\ val' = [val EXCEPT ![id] = @ + op]
  /\ stage' = [stage EXCEPT ![t] = "dec"]
  /\ result' = [result EXCEPT ![t] = 0]
  /\ UNCHANGED <<removed, references, freed, call, loaded, crashed>>

(* Mutant of EndDestroy: the set is removed, the cell is not freed. *)
EndDestroyLeak(t, left) ==
  /\ removed' = (removed \/ left = 0)
  /\ stage' = [stage EXCEPT ![t] = "idle"]
  /\ UNCHANGED <<val, freed, call, loaded, result, crashed>>

(***************************************************************************)
(* zs__semaphore_destroy: the thread that sees its -- yield 0 removes the  *)
(* set and frees the cell; to free it twice ends the process.              *)
(***************************************************************************)
EndDestroy(t, left) ==
  /\ removed' = (removed \/ left = 0)
  /\ freed' = (freed \/ left = 0)
  /\ crashed' = (freed /\ left = 0)
  /\ stage' = [stage EXCEPT ![t] = "idle"]
  /\ UNCHANGED <<val, call, loaded, result>>

Less(n) == (n - 1) % RefMod

Decrement(t) ==
  \/ /\ ~Smp /\ stage[t] = "dec"
     /\ references' = Less(references)
     /\ EndDestroy(t, Less(references))
  \/ Load(t, "dec", "decStore")
  \/ /\ stage[t] = "decStore"
     /\ references' = Less(loaded[t])
     /\ loaded' = [loaded EXCEPT ![t] = Less(@)]
     /\ stage' = [stage EXCEPT ![t] = "test"]
     /\ UNCHANGED <<val, removed, freed, call, result, crashed>>
  \/ /\ stage[t] = "test"
     /\ \E seen \in {references, loaded[t]} : EndDestroy(t, seen)
     /\ UNCHANGED references

(***************************************************************************)
(* A use of the freed cell either goes on with what the memory holds (the  *)
(* actions above) or ends the process.                                     *)
(***************************************************************************)
TouchesCell(t) == stage[t] \notin {"idle", "kernel"}

Fault(t) ==
  /\ freed /\ TouchesCell(t)
  /\ crashed' = TRUE
  /\ UNCHANGED <<val, removed, references, freed, stage, call, loaded, result>>

CallStep(t) ==
  /\ ~crashed
  /\ Increment(t) \/ SemTimedOp(t) \/ Decrement(t) \/ Fault(t)
=============================================================================
