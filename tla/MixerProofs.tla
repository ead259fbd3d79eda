------------------------------- MODULE MixerProofs -------------------------------
(***************************************************************************)
(* No copy through a stream unit goes wrong and no mark is lost, for any   *)
(* set of threads and any number of macros.                                *)
(***************************************************************************)
EXTENDS Mixer, TLAPS

Nobody == Threads \cup {NoThread}
Types ==
  /\ DOMAIN pc = Threads /\ pc = [t \in Threads |-> pc[t]]
  /\ tmp \in [Threads -> SUBSET Threads]
  /\ arb_monarch \in BOOLEAN /\ monarch \in Nobody /\ init_done \in BOOLEAN
  /\ locked \in [Locks -> BOOLEAN]
  /\ active_threads_mask \subseteq Threads /\ strm_unit_use_mask \subseteq Threads
  /\ finish_mask \subseteq Threads
  /\ strm_mpa \in [Cores -> Nobody] /\ strm_buf \in [Cores -> Nobody]
  /\ strm_dst \in [Threads -> Nobody]

(* A lock is set exactly while one thread is in its section.               *)
Alone(l) == \A t, s \in Threads :
              pc[t] \in Inside(l) /\ pc[s] \in Inside(l) => t = s
LockInv ==
  \A l \in Locks : /\ Alone(l)
                   /\ locked[l] <=> \E t \in Threads : pc[t] \in Inside(l)

(* There is one monarch, and the others wait until it has initialised.     *)
Waiting == {"arb", "ldstub", "crown", "wait_init"}
ElectionInv ==
  /\ \A t \in Threads : pc[t] = "crown" => /\ arb_monarch /\ monarch = NoThread
                                           /\ \A s \in Threads : pc[s] = "crown" => s = t
  /\ monarch # NoThread => arb_monarch
  /\ \A t \in Threads : pc[t] = "init" => t = monarch
  /\ monarch # NoThread => pc[monarch] \notin {"ldstub", "crown", "wait_init"}
  /\ init_done => monarch # NoThread /\ pc[monarch] \notin {"arb", "init"}
  /\ ~ init_done => \A t \in Threads : t # monarch => pc[t] \in Waiting

(* A mask that was read under its lock is still what it was.               *)
Unmarked == Waiting \cup {"init", "mark", "mark_read", "mark_write"}
MarkInv ==
  \A t \in Threads :
    /\ pc[t] = "mark_write" => tmp[t] = active_threads_mask
    /\ pc[t] \notin Unmarked => t \in active_threads_mask
FinishInv ==
  \A t \in Threads :
    /\ pc[t] = "finish_write" => tmp[t] = finish_mask
    /\ pc[t] \in {"finish_unlock", "finished", "passed"} => t \in finish_mask

(* Of the threads of a core at most one is in the mask, and one that uses  *)
(* the unit or is about to give it back is.                                *)
OneOfCore(mask) == \A t, s \in mask : t # s => Core(t) # Core(s)
MaskInv ==
  /\ OneOfCore(strm_unit_use_mask)
  /\ \A t \in Threads :
       /\ pc[t] \in {"strm_write", "give_write"} => tmp[t] = strm_unit_use_mask
       /\ pc[t] = "strm_write" => strm_unit_use_mask \cap Siblings(t) = {}
       /\ Using(t) \/ pc[t] \in {"give_lock", "give_read", "give_write"}
            => t \in strm_unit_use_mask

(* Step by step, the unit of its core has the user's array and data.       *)
CopyInv ==
  \A t \in Threads :
    /\ pc[t] # "fail"
    /\ pc[t] \in {"ctl_read", "ctl_write"} => strm_mpa[Core(t)] = t
    /\ pc[t] \in {"mpa_dst", "ctl_write"} => strm_buf[Core(t)] = t
    /\ pc[t] = "compare" => strm_dst[t] = t

IInv == Types /\ LockInv /\ ElectionInv /\ MarkInv /\ FinishInv /\ MaskInv /\ CopyInv

LEMMA InsideSets ==
  /\ Inside("thread_status") = {"mark_read", "mark_write", "mark_unlock"}
  /\ Inside("strm_unit_lock") = {"strm_read", "strm_write", "strm_unlock",
                                "give_read", "give_write", "give_unlock"}
  /\ Inside("finish_mask_lock") = {"finish_read", "finish_write", "finish_unlock"}
BY DEF Inside

LEMMA InitStep == Init => IInv
<1> SUFFICES ASSUME Init PROVE IInv
  OBVIOUS
<1>1. Types
  BY ThreadsAssumption DEF Init, Types, Nobody, NoThread
<1>2. LockInv
  BY InsideSets DEF Init, LockInv, Alone, Locks
<1>3. ElectionInv /\ MarkInv /\ FinishInv /\ MaskInv /\ CopyInv
  BY DEF Init, ElectionInv, MarkInv, FinishInv, MaskInv, CopyInv, Waiting, Unmarked,
         OneOfCore, Using
<1> QED BY <1>1, <1>2, <1>3 DEF IInv


-----------------------------------------------------------------------------
(* A step of a thread, part by part: either one of the few actions that    *)
(* the part is about, or nothing of interest to it.                        *)
LEMMA OwnMove ==
  ASSUME Types, NEW t \in Threads, Step(t)
  PROVE  /\ pc' = [pc EXCEPT ![t] = pc'[t]] /\ tmp' = [tmp EXCEPT ![t] = tmp'[t]]
BY DEF Types, Step, SeeMonarch, Arbitrate, Crown, init_sys_thrd_status, WaitInit,
         mark_thrd_active, ReadActive, WriteActive, InitDone, PickMacro,
         InterruptMonarch, Block, Unblocked, TakeUnit, StrmMine, StrmRead,
         StrmWrite, UseUnit, prg_strm_ma_mpa_reg, StrmLoad, StrmStore,
         StrmCompare, GiveUnit, GiveMine, GiveRead, GiveWrite, MarkFinished,
         MacrosDone, ReadFinish, WriteFinish, WaitForOthers, Stay, pass,
         lock_a_byte, unlock_a_byte, Goto, election, masks, unit, vars

TakeLock(t, l) ==
  /\ ~ locked[l] /\ locked' = [locked EXCEPT ![l] = TRUE]
  /\ \A k \in Locks : pc[t] \notin Inside(k) /\ (pc'[t] \in Inside(k) <=> k = l)
GiveLock(t, l) ==
  /\ locked' = [locked EXCEPT ![l] = FALSE]
  /\ \A k \in Locks : pc'[t] \notin Inside(k) /\ (pc[t] \in Inside(k) <=> k = l)
KeepLocks(t) ==
  /\ UNCHANGED locked
  /\ \A k \in Locks : pc[t] \in Inside(k) <=> pc'[t] \in Inside(k)

LEMMA LockMove ==
  ASSUME Types, NEW t \in Threads, Step(t)
  PROVE  KeepLocks(t) \/ \E l \in Locks : TakeLock(t, l) \/ GiveLock(t, l)
<1>1. CASE lock_a_byte(t, "thread_status", "mark", "mark_read")
  <2>1. TakeLock(t, "thread_status")
    BY <1>1, InsideSets DEF TakeLock, lock_a_byte, Goto, Types, Locks
  <2> QED BY <2>1 DEF Locks
<1>2. CASE \/ lock_a_byte(t, "strm_unit_lock", "strm_lock", "strm_read")
           \/ lock_a_byte(t, "strm_unit_lock", "give_lock", "give_read")
  <2>1. TakeLock(t, "strm_unit_lock")
    BY <1>2, InsideSets DEF TakeLock, lock_a_byte, Goto, Types, Locks
  <2> QED BY <2>1 DEF Locks
<1>3. CASE lock_a_byte(t, "finish_mask_lock", "finish_lock", "finish_read")
  <2>1. TakeLock(t, "finish_mask_lock")
    BY <1>3, InsideSets DEF TakeLock, lock_a_byte, Goto, Types, Locks
  <2> QED BY <2>1 DEF Locks
<1>4. CASE unlock_a_byte(t, "thread_status", "mark_unlock", "marked")
  <2>1. GiveLock(t, "thread_status")
    BY <1>4, InsideSets DEF GiveLock, unlock_a_byte, Goto, Types, Locks
  <2> QED BY <2>1 DEF Locks
<1>5. CASE \/ unlock_a_byte(t, "strm_unit_lock", "strm_unlock", "strm")
           \/ unlock_a_byte(t, "strm_unit_lock", "give_unlock", "give")
  <2>1. GiveLock(t, "strm_unit_lock")
    BY <1>5, InsideSets DEF GiveLock, unlock_a_byte, Goto, Types, Locks
  <2> QED BY <2>1 DEF Locks
<1>6. CASE unlock_a_byte(t, "finish_mask_lock", "finish_unlock", "finished")
  <2>1. GiveLock(t, "finish_mask_lock")
    BY <1>6, InsideSets DEF GiveLock, unlock_a_byte, Goto, Types, Locks
  <2> QED BY <2>1 DEF Locks
<1>7. ASSUME ~ lock_a_byte(t, "thread_status", "mark", "mark_read"),
             ~ lock_a_byte(t, "strm_unit_lock", "strm_lock", "strm_read"),
             ~ lock_a_byte(t, "strm_unit_lock", "give_lock", "give_read"),
             ~ lock_a_byte(t, "finish_mask_lock", "finish_lock", "finish_read"),
             ~ unlock_a_byte(t, "thread_status", "mark_unlock", "marked"),
             ~ unlock_a_byte(t, "strm_unit_lock", "strm_unlock", "strm"),
             ~ unlock_a_byte(t, "strm_unit_lock", "give_unlock", "give"),
             ~ unlock_a_byte(t, "finish_mask_lock", "finish_unlock", "finished")
      PROVE  KeepLocks(t)
  <2>1. /\ UNCHANGED locked
        /\ pc[t] \in {"mark_read", "mark_write", "mark_unlock"}
             <=> pc'[t] \in {"mark_read", "mark_write", "mark_unlock"}
        /\ pc[t] \in {"strm_read", "strm_write", "strm_unlock",
                      "give_read", "give_write", "give_unlock"}
             <=> pc'[t] \in {"strm_read", "strm_write", "strm_unlock",
                             "give_read", "give_write", "give_unlock"}
        /\ pc[t] \in {"finish_read", "finish_write", "finish_unlock"}
             <=> pc'[t] \in {"finish_read", "finish_write", "finish_unlock"}
    BY <1>7 DEF Types, Step, SeeMonarch, Arbitrate, Crown, init_sys_thrd_status, WaitInit,
         mark_thrd_active, ReadActive, WriteActive, InitDone, PickMacro,
         InterruptMonarch, Block, Unblocked, TakeUnit, StrmMine, StrmRead,
         StrmWrite, UseUnit, prg_strm_ma_mpa_reg, StrmLoad, StrmStore,
         StrmCompare, GiveUnit, GiveMine, GiveRead, GiveWrite, MarkFinished,
         MacrosDone, ReadFinish, WriteFinish, WaitForOthers, Stay, pass, Goto,
         election, masks, unit, vars
  <2> QED BY <2>1, InsideSets DEF KeepLocks, Locks
<1> QED BY <1>1, <1>2, <1>3, <1>4, <1>5, <1>6, <1>7

LEMMA ElectionMove ==
  ASSUME Types, NEW t \in Threads, Step(t),
         ~ SeeMonarch(t), ~ Arbitrate(t), ~ Crown(t), ~ init_sys_thrd_status(t),
         ~ WaitInit(t), ~ InitDone(t)
  PROVE  /\ UNCHANGED election
         /\ {pc[t], pc'[t]} \cap (Waiting \cup {"init"}) = {}
BY DEF Types, Waiting, Step, mark_thrd_active, ReadActive, WriteActive, PickMacro,
         InterruptMonarch, Block, Unblocked, TakeUnit, StrmMine, StrmRead,
         StrmWrite, UseUnit, prg_strm_ma_mpa_reg, StrmLoad, StrmStore,
         StrmCompare, GiveUnit, GiveMine, GiveRead, GiveWrite, MarkFinished,
         MacrosDone, ReadFinish, WriteFinish, WaitForOthers, Stay, pass,
         lock_a_byte, unlock_a_byte, Goto, election, masks, unit, vars

LEMMA MarkMove ==
  ASSUME Types, NEW t \in Threads, Step(t),
         ~ init_sys_thrd_status(t), ~ ReadActive(t), ~ WriteActive(t)
  PROVE  /\ UNCHANGED active_threads_mask
         /\ pc'[t] # "mark_write"
         /\ pc'[t] \notin Unmarked => pc[t] \notin Unmarked
BY DEF Types, Unmarked, Waiting, Step, SeeMonarch, Arbitrate, Crown, WaitInit, mark_thrd_active,
         InitDone, PickMacro, InterruptMonarch, Block, Unblocked, TakeUnit,
         StrmMine, StrmRead, StrmWrite, UseUnit, prg_strm_ma_mpa_reg,
         StrmLoad, StrmStore, StrmCompare, GiveUnit, GiveMine, GiveRead,
         GiveWrite, MarkFinished, MacrosDone, ReadFinish, WriteFinish,
         WaitForOthers, Stay, pass, lock_a_byte, unlock_a_byte, Goto,
         election, masks, unit, vars

LEMMA FinishMove ==
  ASSUME Types, NEW t \in Threads, Step(t), ~ ReadFinish(t), ~ WriteFinish(t)
  PROVE  /\ UNCHANGED finish_mask
         /\ pc'[t] # "finish_write"
         /\ pc'[t] \in {"finish_unlock", "finished", "passed"}
              => pc[t] \in {"finish_unlock", "finished", "passed"}
BY DEF Types, Step, SeeMonarch, Arbitrate, Crown, init_sys_thrd_status, WaitInit,
         mark_thrd_active, ReadActive, WriteActive, InitDone, PickMacro,
         InterruptMonarch, Block, Unblocked, TakeUnit, StrmMine, StrmRead,
         StrmWrite, UseUnit, prg_strm_ma_mpa_reg, StrmLoad, StrmStore,
         StrmCompare, GiveUnit, GiveMine, GiveRead, GiveWrite, MarkFinished,
         MacrosDone, WaitForOthers, Stay, pass, lock_a_byte, unlock_a_byte,
         Goto, election, masks, unit, vars

InUse == {"mpa_src", "ctl_read", "mpa_dst", "ctl_write", "compare",
          "give_lock", "give_read", "give_write"}
LEMMA MaskMove ==
  ASSUME Types, NEW t \in Threads, Step(t),
         ~ StrmMine(t), ~ StrmRead(t), ~ StrmWrite(t),
         ~ GiveMine(t), ~ GiveRead(t), ~ GiveWrite(t)
  PROVE  /\ UNCHANGED strm_unit_use_mask
         /\ pc'[t] \notin {"strm_write", "give_write"}
         /\ pc'[t] \in InUse => pc[t] \in InUse
BY DEF Types, InUse, Step, SeeMonarch, Arbitrate, Crown, init_sys_thrd_status, WaitInit,
         mark_thrd_active, ReadActive, WriteActive, InitDone, PickMacro,
         InterruptMonarch, Block, Unblocked, TakeUnit, UseUnit,
         prg_strm_ma_mpa_reg, StrmLoad, StrmStore, StrmCompare, GiveUnit,
         MarkFinished, MacrosDone, ReadFinish, WriteFinish, WaitForOthers,
         Stay, pass, lock_a_byte, unlock_a_byte, Goto, election, masks, unit,
         vars

LEMMA CopyMove ==
  ASSUME Types, NEW t \in Threads, Step(t), ~ UseUnit(t)
  PROVE  /\ UNCHANGED unit
         /\ pc'[t] \notin {"ctl_read", "mpa_dst", "ctl_write", "compare", "fail"}
BY DEF Types, Step, SeeMonarch, Arbitrate, Crown, init_sys_thrd_status, WaitInit,
         mark_thrd_active, ReadActive, WriteActive, InitDone, PickMacro,
         InterruptMonarch, Block, Unblocked, TakeUnit, StrmMine, StrmRead,
         StrmWrite, GiveUnit, GiveMine, GiveRead, GiveWrite, MarkFinished,
         MacrosDone, ReadFinish, WriteFinish, WaitForOthers, Stay, pass,
         lock_a_byte, unlock_a_byte, Goto, election, masks, unit, vars

-----------------------------------------------------------------------------
(* What a step does to each part of the invariant.                         *)
LEMMA TypesStep ==
  ASSUME Types, NEW t \in Threads, Step(t)
  PROVE  Types'
<1>1. DOMAIN pc' = Threads /\ pc' = [s \in Threads |-> pc'[s]]
  BY OwnMove DEF Types
<1>2. Core(t) \in Cores
  BY DEF Cores
<1>3. /\ tmp' \in [Threads -> SUBSET Threads]
      /\ arb_monarch' \in BOOLEAN /\ monarch' \in Nobody /\ init_done' \in BOOLEAN
      /\ locked' \in [Locks -> BOOLEAN]
  BY DEF Nobody, Types, Step, SeeMonarch, Arbitrate, Crown, init_sys_thrd_status, WaitInit,
         mark_thrd_active, ReadActive, WriteActive, InitDone, PickMacro,
         InterruptMonarch, Block, Unblocked, TakeUnit, StrmMine, StrmRead,
         StrmWrite, UseUnit, prg_strm_ma_mpa_reg, StrmLoad, StrmStore,
         StrmCompare, GiveUnit, GiveMine, GiveRead, GiveWrite, MarkFinished,
         MacrosDone, ReadFinish, WriteFinish, WaitForOthers, Stay, pass,
         lock_a_byte, unlock_a_byte, Goto, election, masks, unit, vars
<1>4. /\ active_threads_mask' \subseteq Threads /\ strm_unit_use_mask' \subseteq Threads
      /\ finish_mask' \subseteq Threads
  BY DEF Types, Step, SeeMonarch, Arbitrate, Crown, init_sys_thrd_status, WaitInit,
         mark_thrd_active, ReadActive, WriteActive, InitDone, PickMacro,
         InterruptMonarch, Block, Unblocked, TakeUnit, StrmMine, StrmRead,
         StrmWrite, UseUnit, prg_strm_ma_mpa_reg, StrmLoad, StrmStore,
         StrmCompare, GiveUnit, GiveMine, GiveRead, GiveWrite, MarkFinished,
         MacrosDone, ReadFinish, WriteFinish, WaitForOthers, Stay, pass,
         lock_a_byte, unlock_a_byte, Goto, election, masks, unit, vars
<1>5. /\ strm_mpa' \in [Cores -> Nobody] /\ strm_buf' \in [Cores -> Nobody]
      /\ strm_dst' \in [Threads -> Nobody]
  <2>1. CASE ~ UseUnit(t)
    BY <2>1, CopyMove DEF Types, unit
  <2>2. CASE StrmStore(t)
    BY <1>2, <2>2 DEF StrmStore, Types
  <2>3. CASE StrmCompare(t)
    BY <2>3 DEF StrmCompare, Types, Nobody
  <2>4. CASE StrmLoad(t)
    BY <1>2, <2>4 DEF StrmLoad, Types
  <2>5. CASE \/ prg_strm_ma_mpa_reg(t, "mpa_src", "ctl_read")
             \/ prg_strm_ma_mpa_reg(t, "mpa_dst", "ctl_write")
    BY <1>2, <2>5 DEF prg_strm_ma_mpa_reg, Types, Nobody
  <2> QED BY <2>1, <2>2, <2>3, <2>4, <2>5 DEF UseUnit
<1> QED BY <1>1, <1>3, <1>4, <1>5 DEF Types

LEMMA LockStep ==
  ASSUME Types, LockInv, NEW t \in Threads, Step(t)
  PROVE  LockInv'
<1>1. /\ \A s \in Threads : s # t => pc'[s] = pc[s]
      /\ \A l \in Locks : locked[l] \in BOOLEAN
  BY OwnMove DEF Types
<1> SUFFICES ASSUME NEW l \in Locks
             PROVE  Alone(l)' /\ (locked'[l] <=> \E s \in Threads : pc'[s] \in Inside(l))
  BY DEF LockInv
<1>2. Alone(l) /\ (locked[l] <=> \E s \in Threads : pc[s] \in Inside(l))
  BY DEF LockInv
<1>3. CASE KeepLocks(t)
  <2>1. \A s \in Threads : pc[s] \in Inside(l) <=> pc'[s] \in Inside(l)
    BY <1>1, <1>3 DEF KeepLocks
  <2> QED BY <1>2, <1>3, <2>1 DEF Alone, KeepLocks
<1>4. CASE \E k \in Locks : TakeLock(t, k)
  <2>1. PICK k \in Locks : TakeLock(t, k)
    BY <1>4
  <2>2. CASE l = k
    BY <1>1, <1>2, <2>1, <2>2 DEF Alone, TakeLock, Types
  <2>3. CASE l # k
    <3>1. \A s \in Threads : pc[s] \in Inside(l) <=> pc'[s] \in Inside(l)
      BY <1>1, <2>1, <2>3 DEF TakeLock
    <3> QED BY <1>2, <2>1, <2>3, <3>1 DEF Alone, TakeLock, Types
  <2> QED BY <2>2, <2>3
<1>5. CASE \E k \in Locks : GiveLock(t, k)
  <2>1. PICK k \in Locks : GiveLock(t, k)
    BY <1>5
  <2>2. CASE l = k
    BY <1>1, <1>2, <2>1, <2>2 DEF Alone, GiveLock, Types
  <2>3. CASE l # k
    <3>1. \A s \in Threads : pc[s] \in Inside(l) <=> pc'[s] \in Inside(l)
      BY <1>1, <2>1, <2>3 DEF GiveLock
    <3> QED BY <1>2, <2>1, <2>3, <3>1 DEF Alone, GiveLock, Types
  <2> QED BY <2>2, <2>3
<1> QED BY <1>3, <1>4, <1>5, LockMove

LEMMA ElectionStep ==
  ASSUME Types, ElectionInv, NEW t \in Threads, Step(t)
  PROVE  ElectionInv'
<1>1. \A s \in Threads : s # t => pc'[s] = pc[s]
  BY OwnMove DEF Types
<1>2. CASE SeeMonarch(t)
  BY <1>2 DEF Types, ElectionInv, Waiting, SeeMonarch, election, Nobody
<1>3. CASE Arbitrate(t)
  BY <1>3 DEF Types, ElectionInv, Waiting, Arbitrate, Goto, Nobody
<1>4. CASE Crown(t)
  BY <1>4, ThreadsAssumption DEF Types, ElectionInv, Waiting, Crown, Goto, Nobody, NoThread
<1>5. CASE init_sys_thrd_status(t)
  BY <1>5 DEF Types, ElectionInv, Waiting, init_sys_thrd_status, Goto, election, Nobody
<1>6. CASE WaitInit(t)
  BY <1>6 DEF Types, ElectionInv, Waiting, WaitInit, Goto, election, Nobody
<1>7. CASE InitDone(t)
  BY <1>7, ThreadsAssumption DEF Types, ElectionInv, Waiting, InitDone, Goto, Nobody, NoThread
<1>8. CASE UNCHANGED election /\ {pc[t], pc'[t]} \cap (Waiting \cup {"init"}) = {}
  <2>1. \A s \in Threads : pc[s] \in Waiting \cup {"init"} \/ pc'[s] \in Waiting \cup {"init"}
          => pc'[s] = pc[s]
    BY <1>1, <1>8
  <2> QED BY <1>8, <2>1 DEF Types, ElectionInv, Waiting, election, Nobody
<1> QED BY <1>2, <1>3, <1>4, <1>5, <1>6, <1>7, <1>8, ElectionMove

LEMMA MarkStep ==
  ASSUME Types, LockInv, ElectionInv, MarkInv, NEW t \in Threads, Step(t)
  PROVE  MarkInv'
<1>1. \A s \in Threads : s # t => pc'[s] = pc[s] /\ tmp'[s] = tmp[s]
  BY OwnMove DEF Types
<1>2. CASE init_sys_thrd_status(t)
  <2>1. \A s \in Threads : s # t => pc[s] \in Waiting
    BY <1>2 DEF init_sys_thrd_status, Goto, ElectionInv, Types
  <2> QED BY <1>1, <1>2, <2>1 DEF init_sys_thrd_status, Goto, MarkInv, Types, Unmarked, Waiting
<1>3. CASE ReadActive(t)
  BY <1>1, <1>3 DEF ReadActive, Goto, MarkInv, Types, Unmarked, Waiting, masks
<1>4. CASE WriteActive(t)
  <2>1. \A s \in Threads : s # t => pc[s] # "mark_write"
    BY <1>4, InsideSets DEF WriteActive, Goto, LockInv, Alone, Locks
  <2> QED BY <1>1, <1>4, <2>1 DEF WriteActive, Goto, MarkInv, Types, Unmarked, Waiting
<1>5. CASE /\ UNCHANGED active_threads_mask /\ pc'[t] # "mark_write"
           /\ pc'[t] \notin Unmarked => pc[t] \notin Unmarked
  BY <1>1, <1>5 DEF MarkInv
<1> QED BY <1>2, <1>3, <1>4, <1>5, MarkMove

LEMMA FinishStep ==
  ASSUME Types, LockInv, FinishInv, NEW t \in Threads, Step(t)
  PROVE  FinishInv'
<1>1. \A s \in Threads : s # t => pc'[s] = pc[s] /\ tmp'[s] = tmp[s]
  BY OwnMove DEF Types
<1>2. CASE ReadFinish(t)
  BY <1>1, <1>2 DEF ReadFinish, Goto, FinishInv, Types, masks
<1>3. CASE WriteFinish(t)
  <2>1. \A s \in Threads : s # t => pc[s] # "finish_write"
    BY <1>3, InsideSets DEF WriteFinish, Goto, LockInv, Alone, Locks
  <2> QED BY <1>1, <1>3, <2>1 DEF WriteFinish, Goto, FinishInv, Types
<1>4. CASE /\ UNCHANGED finish_mask /\ pc'[t] # "finish_write"
           /\ pc'[t] \in {"finish_unlock", "finished", "passed"}
                => pc[t] \in {"finish_unlock", "finished", "passed"}
  BY <1>1, <1>4 DEF FinishInv
<1> QED BY <1>2, <1>3, <1>4, FinishMove

LEMMA MaskStep ==
  ASSUME Types, LockInv, MaskInv, NEW t \in Threads, Step(t)
  PROVE  MaskInv'
<1>1. \A s \in Threads : s # t => pc'[s] = pc[s] /\ tmp'[s] = tmp[s]
  BY OwnMove DEF Types
<1>2. CASE StrmMine(t)
  BY <1>1, <1>2 DEF StrmMine, Goto, MaskInv, Using, Types, masks
<1>3. CASE StrmRead(t)
  BY <1>1, <1>3 DEF StrmRead, Goto, MaskInv, Using, Types, masks
<1>4. CASE StrmWrite(t)
  <2>1. \A s \in Threads : s # t => pc[s] \notin {"strm_write", "give_write"}
    BY <1>4, InsideSets DEF StrmWrite, Goto, LockInv, Alone, Locks
  <2>2. /\ strm_unit_use_mask' = strm_unit_use_mask \cup {t}
        /\ strm_unit_use_mask \cap Siblings(t) = {} /\ pc'[t] = "strm_unlock"
    BY <1>4 DEF StrmWrite, Goto, MaskInv, Types
  <2>3. OneOfCore(strm_unit_use_mask')
    BY <2>2 DEF MaskInv, OneOfCore, Siblings, Types
  <2> QED BY <1>1, <2>1, <2>2, <2>3 DEF MaskInv, Using
<1>5. CASE GiveMine(t)
  BY <1>1, <1>5 DEF GiveMine, Goto, MaskInv, Using, Types, masks
<1>6. CASE GiveRead(t)
  BY <1>1, <1>6 DEF GiveRead, Goto, MaskInv, Using, Types, masks
<1>7. CASE GiveWrite(t)
  <2>1. \A s \in Threads : s # t => pc[s] \notin {"strm_write", "give_write"}
    BY <1>7, InsideSets DEF GiveWrite, Goto, LockInv, Alone, Locks
  <2>2. strm_unit_use_mask' = strm_unit_use_mask \ {t} /\ pc'[t] = "give_unlock"
    BY <1>7 DEF GiveWrite, Goto, MaskInv, Types
  <2>3. OneOfCore(strm_unit_use_mask')
    BY <2>2 DEF MaskInv, OneOfCore
  <2> QED BY <1>1, <2>1, <2>2, <2>3 DEF MaskInv, Using
<1>8. CASE /\ UNCHANGED strm_unit_use_mask
           /\ pc'[t] \notin {"strm_write", "give_write"}
           /\ pc'[t] \in InUse => pc[t] \in InUse
  BY <1>1, <1>8 DEF MaskInv, Using, InUse
<1> QED BY <1>2, <1>3, <1>4, <1>5, <1>6, <1>7, <1>8, MaskMove

(* A thread that uses the unit does so alone.                              *)
LEMMA UsesAlone ==
  ASSUME Types, MaskInv, NEW t \in Threads, NEW s \in Threads,
         Using(t), Using(s), Core(t) = Core(s)
  PROVE  t = s
BY DEF MaskInv, OneOfCore

LEMMA CopyStep ==
  ASSUME Types, MaskInv, CopyInv, NEW t \in Threads, Step(t)
  PROVE  CopyInv'
<1>1. \A s \in Threads : s # t => pc'[s] = pc[s]
  BY OwnMove DEF Types
<1>2. \A s \in Threads : Core(s) \in Cores
  BY DEF Cores
<1>3. CASE ~ UseUnit(t)
  <2>1. /\ UNCHANGED unit
        /\ pc'[t] \notin {"ctl_read", "mpa_dst", "ctl_write", "compare", "fail"}
    BY <1>3, CopyMove
  <2> QED BY <1>1, <2>1 DEF CopyInv, unit
<1>4. CASE UseUnit(t)
  <2>1. Using(t)
    BY <1>4 DEF UseUnit, Using, prg_strm_ma_mpa_reg, StrmLoad, StrmStore, StrmCompare, Goto
  <2>2. \A s \in Threads : s # t /\ Using(s) => Core(s) # Core(t)
    BY <2>1, UsesAlone
  <2>3. CASE prg_strm_ma_mpa_reg(t, "mpa_src", "ctl_read")
    BY <1>1, <1>2, <2>2, <2>3 DEF prg_strm_ma_mpa_reg, Goto, CopyInv, Using, Types
  <2>4. CASE prg_strm_ma_mpa_reg(t, "mpa_dst", "ctl_write")
    BY <1>1, <1>2, <2>2, <2>4 DEF prg_strm_ma_mpa_reg, Goto, CopyInv, Using, Types
  <2>5. CASE StrmLoad(t)
    BY <1>1, <1>2, <2>2, <2>5 DEF StrmLoad, Goto, CopyInv, Using, Types
  <2>6. CASE StrmStore(t)
    BY <1>1, <1>2, <2>2, <2>6 DEF StrmStore, Goto, CopyInv, Using, Types
  <2>7. CASE StrmCompare(t)
    BY <1>1, <1>2, <2>2, <2>7 DEF StrmCompare, Goto, CopyInv, Using, Types
  <2> QED BY <1>4, <2>3, <2>4, <2>5, <2>6, <2>7 DEF UseUnit
<1> QED BY <1>3, <1>4

-----------------------------------------------------------------------------
LEMMA NextStep ==
  ASSUME IInv, [Next]_vars
  PROVE  IInv'
<1>1. ASSUME NEW t \in Threads, Step(t)
      PROVE  IInv'
  BY <1>1, TypesStep, LockStep, ElectionStep, MarkStep, FinishStep, MaskStep, CopyStep
     DEF IInv
<1>2. CASE UNCHANGED vars
  BY <1>2 DEF vars, election, masks, unit, IInv, Types, LockInv, Alone, ElectionInv,
              MarkInv, FinishInv, MaskInv, OneOfCore, Using, CopyInv
<1> QED BY <1>1, <1>2 DEF Next

LEMMA Always == Spec => []IInv
BY InitStep, NextStep, PTL DEF Spec

(* No copy through a stream unit goes wrong, and each lock byte is set     *)
(* exactly while a thread is in its section.                               *)
THEOREM CopiesAreOwn == Spec => []StreamCopies
<1>1. IInv => StreamCopies
  <2> SUFFICES ASSUME IInv PROVE StreamCopies
    OBVIOUS
  <2>1. /\ \A t \in Threads : pc[t] # "fail"
        /\ \A t \in Threads : Using(t) => t \in strm_unit_use_mask
    BY DEF IInv, CopyInv, MaskInv
  <2>2. \A t, s \in Threads : t # s /\ Core(t) = Core(s) => ~(Using(t) /\ Using(s))
    BY UsesAlone DEF IInv
  <2>3. \A l \in Locks : locked[l] <=> \E t \in Threads : pc[t] \in Inside(l)
    BY DEF IInv, LockInv
  <2> QED BY <2>1, <2>2, <2>3 DEF StreamCopies
<1> QED BY <1>1, Always, PTL

(* No mark of a thread that is active or has finished is lost.             *)
THEOREM NoMarkIsLost == Spec => []MarksKept
<1>1. IInv => MarksKept
  BY DEF IInv, MarkInv, FinishInv, MarksKept, Unmarked, Waiting
<1> QED BY <1>1, Always, PTL

(* Nobody but the monarch goes on before it has initialised.               *)
OthersWait == \A t \in Threads : pc[t] \notin Waiting /\ t # monarch => init_done

THEOREM MonarchFirst == Spec => []OthersWait
<1>1. IInv => OthersWait
  BY DEF IInv, ElectionInv, OthersWait
<1> QED BY <1>1, Always, PTL
=============================================================================
