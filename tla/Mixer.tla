---------------------------------- MODULE Mixer ----------------------------------
(***************************************************************************)
(* The mixer diag (verif/diag/c/mixer/mixer.c): every hardware thread runs *)
(* main.  The threads elect a monarch, run macros - among them one that    *)
(* shares the stream unit of a core and one that blocks until the monarch  *)
(* lets go - and meet at the end.                                          *)
(*                                                                         *)
(* A step is one access to shared memory.  A lock is taken with ldstub and *)
(* given back with a store; the limit on the number of tries is left out   *)
(* (see the README).                                                       *)
(***************************************************************************)
EXTENDS Integers, FiniteSets

CONSTANTS
  Threads,       \* the hardware threads in use, by number
  run_macros     \* how many macros each of them runs

ASSUME ThreadsAssumption == Threads \subseteq 0 .. 31 /\ 0 \in Threads
ASSUME RunAssumption == run_macros \in Nat

NoThread == -1
Locks == {"thread_status", "strm_unit_lock", "finish_mask_lock"}

VARIABLES
  pc,                   \* where each thread is in main
  run,                  \* macros it has run
  tmp,                  \* the mask it has read and will write back
  arb_monarch, monarch, init_done,
  locked,               \* the lock bytes
  active_threads_mask, strm_unit_use_mask, finish_mask,
  blocking_req,
  strm_mpa, strm_buf,   \* stream unit of each core: array programmed, contents
  strm_dst              \* whose data each thread's destination array holds

election == <<arb_monarch, monarch, init_done>>
masks == <<active_threads_mask, strm_unit_use_mask, finish_mask>>
unit == <<strm_mpa, strm_buf, strm_dst>>
vars == <<pc, run, tmp, election, locked, masks, blocking_req, unit>>

Core(t) == t \div 4
Siblings(t) == {s \in Threads : Core(s) = Core(t)}
Cores == {Core(t) : t \in Threads}

Init ==
  /\ pc = [t \in Threads |-> "arb"]
  /\ run = [t \in Threads |-> 0]
  /\ tmp = [t \in Threads |-> {}]
  /\ arb_monarch = FALSE /\ monarch = NoThread /\ init_done = FALSE
  /\ locked = [l \in Locks |-> FALSE]
  /\ active_threads_mask = {} /\ strm_unit_use_mask = {} /\ finish_mask = {}
  /\ blocking_req = FALSE
  /\ strm_mpa = [c \in Cores |-> NoThread] /\ strm_buf = [c \in Cores |-> NoThread]
  /\ strm_dst = [t \in Threads |-> NoThread]

Goto(t, from, to) == pc[t] = from /\ pc' = [pc EXCEPT ![t] = to]

(* Mutant: the lock byte is read before it is set. *)
MutLockAByte(t, l, from, to) ==
  /\ Goto(t, from, to)
  /\ locked' = [locked EXCEPT ![l] = TRUE]
  /\ UNCHANGED <<run, tmp, election, masks, blocking_req, unit>>

lock_a_byte(t, l, from, to) ==
  /\ Goto(t, from, to)
  /\ ~locked[l] /\ locked' = [locked EXCEPT ![l] = TRUE]
  /\ UNCHANGED <<run, tmp, election, masks, blocking_req, unit>>

unlock_a_byte(t, l, from, to) ==
  /\ Goto(t, from, to)
  /\ locked' = [locked EXCEPT ![l] = FALSE]
  /\ UNCHANGED <<run, tmp, election, masks, blocking_req, unit>>

-----------------------------------------------------------------------------
(* The election: whoever finds the byte clear is the monarch, initialises  *)
(* the shared status and only then lets the others in.                     *)

SeeMonarch(t) ==
  /\ pc[t] = "arb"
  /\ pc' = [pc EXCEPT ![t] = CASE monarch = NoThread -> "ldstub"
                               [] monarch = t -> "init"
                               [] OTHER -> "wait_init"]
  /\ UNCHANGED <<run, tmp, election, locked, masks, blocking_req, unit>>

Arbitrate(t) ==
  /\ Goto(t, "ldstub", IF arb_monarch THEN "arb" ELSE "crown")
  /\ arb_monarch' = TRUE
  /\ UNCHANGED <<run, tmp, monarch, init_done, locked, masks, blocking_req, unit>>

Crown(t) ==
  /\ Goto(t, "crown", "arb")
  /\ monarch' = t
  /\ UNCHANGED <<run, tmp, arb_monarch, init_done, locked, masks, blocking_req, unit>>

init_sys_thrd_status(t) ==
  /\ Goto(t, "init", "mark")
  /\ active_threads_mask' = {}
  /\ UNCHANGED <<run, tmp, election, locked, strm_unit_use_mask, finish_mask,
                 blocking_req, unit>>

(* Mutant: nobody waits for the initialisation. *)
MutWaitInit(t) ==
  /\ Goto(t, "wait_init", "mark")
  /\ UNCHANGED <<run, tmp, election, locked, masks, blocking_req, unit>>

WaitInit(t) ==
  /\ Goto(t, "wait_init", "mark")
  /\ init_done
  /\ UNCHANGED <<run, tmp, election, locked, masks, blocking_req, unit>>

(* mark_thrd_active *)
ReadActive(t) ==
  /\ Goto(t, "mark_read", "mark_write")
  /\ tmp' = [tmp EXCEPT ![t] = active_threads_mask]
  /\ UNCHANGED <<run, election, locked, masks, blocking_req, unit>>

WriteActive(t) ==
  /\ Goto(t, "mark_write", "mark_unlock")
  /\ active_threads_mask' = tmp[t] \cup {t}
  /\ UNCHANGED <<run, tmp, election, locked, strm_unit_use_mask, finish_mask,
                 blocking_req, unit>>

InitDone(t) ==
  /\ Goto(t, "marked", "macro")
  /\ init_done' = (init_done \/ t = monarch)
  /\ UNCHANGED <<run, tmp, arb_monarch, monarch, locked, masks, blocking_req, unit>>

mark_thrd_active(t) ==
  \/ lock_a_byte(t, "thread_status", "mark", "mark_read")
  \/ ReadActive(t) \/ WriteActive(t)
  \/ unlock_a_byte(t, "thread_status", "mark_unlock", "marked")

-----------------------------------------------------------------------------
(* A macro at random; when a thread is blocked the others block as well,   *)
(* but for the monarch, who lets go and never blocks.                      *)
PickMacro(t) ==
  /\ pc[t] = "macro" /\ run[t] < run_macros
  /\ run' = [run EXCEPT ![t] = @ + 1]
  /\ \E m \in IF t # monarch /\ blocking_req THEN {"block"}
              ELSE IF t = monarch THEN {"strm", "macro"}
              ELSE {"block", "strm", "macro"} :
       pc' = [pc EXCEPT ![t] = m]
  /\ blocking_req' = (blocking_req /\ t # monarch)
  /\ UNCHANGED <<tmp, election, locked, masks, unit>>

(* gen_blocking_req: types 6 and 7 interrupt the monarch and do not block, *)
(* 6 does not even ask to be let go.                                       *)
InterruptMonarch(t) ==
  /\ Goto(t, "block", "macro")
  /\ blocking_req' \in {blocking_req, TRUE}
  /\ UNCHANGED <<run, tmp, election, locked, masks, unit>>

Block(t) ==
  /\ Goto(t, "block", "blocked")
  /\ blocking_req' = TRUE
  /\ UNCHANGED <<run, tmp, election, locked, masks, unit>>

Unblocked(t) ==
  /\ Goto(t, "blocked", "macro")
  /\ ~blocking_req
  /\ UNCHANGED <<run, tmp, election, locked, masks, blocking_req, unit>>

-----------------------------------------------------------------------------
(* gen_strm_array_macro: take the unit of the core when no thread of the   *)
(* core has it, copy an array through it, compare, give it back.           *)
StrmMine(t) ==
  /\ Goto(t, "strm", IF t \in strm_unit_use_mask THEN "mpa_src" ELSE "strm_lock")
  /\ UNCHANGED <<run, tmp, election, locked, masks, blocking_req, unit>>

StrmRead(t) ==
  /\ Goto(t, "strm_read", IF strm_unit_use_mask \cap Siblings(t) = {}
                          THEN "strm_write" ELSE "strm_unlock")
  /\ tmp' = [tmp EXCEPT ![t] = strm_unit_use_mask]
  /\ UNCHANGED <<run, election, locked, masks, blocking_req, unit>>

StrmWrite(t) ==
  /\ Goto(t, "strm_write", "strm_unlock")
  /\ strm_unit_use_mask' = tmp[t] \cup {t}
  /\ UNCHANGED <<run, tmp, election, locked, active_threads_mask, finish_mask,
                 blocking_req, unit>>

TakeUnit(t) ==
  \/ StrmMine(t)
  \/ lock_a_byte(t, "strm_unit_lock", "strm_lock", "strm_read")
  \/ StrmRead(t) \/ StrmWrite(t)
  \/ unlock_a_byte(t, "strm_unit_lock", "strm_unlock", "strm")

(* The array of t is programmed, and the unit told to read or write it.    *)
prg_strm_ma_mpa_reg(t, from, to) ==
  /\ Goto(t, from, to)
  /\ strm_mpa' = [strm_mpa EXCEPT ![Core(t)] = t]
  /\ UNCHANGED <<run, tmp, election, locked, masks, blocking_req, strm_buf, strm_dst>>

StrmLoad(t) ==
  /\ Goto(t, "ctl_read", "mpa_dst")
  /\ strm_buf' = [strm_buf EXCEPT ![Core(t)] = strm_mpa[Core(t)]]
  /\ UNCHANGED <<run, tmp, election, locked, masks, blocking_req, strm_mpa, strm_dst>>

StrmStore(t) ==
  /\ Goto(t, "ctl_write", "compare")
  /\ strm_dst' = [strm_dst EXCEPT ![strm_mpa[Core(t)]] = strm_buf[Core(t)]]
  /\ UNCHANGED <<run, tmp, election, locked, masks, blocking_req, strm_mpa, strm_buf>>

(* The next run of the macro overwrites the destination first. *)
StrmCompare(t) ==
  /\ Goto(t, "compare", IF strm_dst[t] = t THEN "give" ELSE "fail")
  /\ strm_dst' = [strm_dst EXCEPT ![t] = NoThread]
  /\ UNCHANGED <<run, tmp, election, locked, masks, blocking_req, strm_mpa, strm_buf>>

UseUnit(t) ==
  \/ prg_strm_ma_mpa_reg(t, "mpa_src", "ctl_read")
  \/ StrmLoad(t)
  \/ prg_strm_ma_mpa_reg(t, "mpa_dst", "ctl_write")
  \/ StrmStore(t) \/ StrmCompare(t)

GiveMine(t) ==
  /\ Goto(t, "give", IF t \in strm_unit_use_mask THEN "give_lock" ELSE "macro")
  /\ UNCHANGED <<run, tmp, election, locked, masks, blocking_req, unit>>

GiveRead(t) ==
  /\ Goto(t, "give_read", "give_write")
  /\ tmp' = [tmp EXCEPT ![t] = strm_unit_use_mask]
  /\ UNCHANGED <<run, election, locked, masks, blocking_req, unit>>

GiveWrite(t) ==
  /\ Goto(t, "give_write", "give_unlock")
  /\ strm_unit_use_mask' = IF t \in tmp[t] THEN tmp[t] \ {t} ELSE tmp[t] \cup {t}
  /\ UNCHANGED <<run, tmp, election, locked, active_threads_mask, finish_mask,
                 blocking_req, unit>>

GiveUnit(t) ==
  \/ GiveMine(t)
  \/ lock_a_byte(t, "strm_unit_lock", "give_lock", "give_read")
  \/ GiveRead(t) \/ GiveWrite(t)
  \/ unlock_a_byte(t, "strm_unit_lock", "give_unlock", "give")

-----------------------------------------------------------------------------
(* The end: every thread marks itself finished; thread 0 waits for all of  *)
(* them, a monarch that is not thread 0 stays to let the others go.        *)
MacrosDone(t) ==
  /\ Goto(t, "macro", "finish_lock")
  /\ run[t] = run_macros
  /\ UNCHANGED <<run, tmp, election, locked, masks, blocking_req, unit>>

ReadFinish(t) ==
  /\ Goto(t, "finish_read", "finish_write")
  /\ tmp' = [tmp EXCEPT ![t] = finish_mask]
  /\ UNCHANGED <<run, election, locked, masks, blocking_req, unit>>

WriteFinish(t) ==
  /\ Goto(t, "finish_write", "finish_unlock")
  /\ finish_mask' = tmp[t] \cup {t}
  /\ UNCHANGED <<run, tmp, election, locked, active_threads_mask, strm_unit_use_mask,
                 blocking_req, unit>>

MarkFinished(t) ==
  \/ MacrosDone(t)
  \/ lock_a_byte(t, "finish_mask_lock", "finish_lock", "finish_read")
  \/ ReadFinish(t) \/ WriteFinish(t)
  \/ unlock_a_byte(t, "finish_mask_lock", "finish_unlock", "finished")

WaitForOthers(t) ==
  /\ t = 0 /\ finish_mask # Threads /\ pc[t] = "finished"
  /\ blocking_req' = (blocking_req /\ t # monarch)
  /\ UNCHANGED <<pc, run, tmp, election, locked, masks, unit>>

(* Mutant: a monarch that is done leaves. *)
MutStay(t) == FALSE /\ UNCHANGED vars

Stay(t) ==
  /\ t = monarch /\ t # 0 /\ pc[t] = "finished"
  /\ blocking_req' = FALSE
  /\ UNCHANGED <<pc, run, tmp, election, locked, masks, unit>>

pass(t) ==
  /\ Goto(t, "finished", "passed")
  /\ t = 0 => finish_mask = Threads
  /\ t # 0 => t # monarch
  /\ UNCHANGED <<run, tmp, election, locked, masks, blocking_req, unit>>

Step(t) ==
  \/ SeeMonarch(t) \/ Arbitrate(t) \/ Crown(t)
  \/ init_sys_thrd_status(t) \/ WaitInit(t) \/ mark_thrd_active(t) \/ InitDone(t)
  \/ PickMacro(t) \/ InterruptMonarch(t) \/ Block(t) \/ Unblocked(t)
  \/ TakeUnit(t) \/ UseUnit(t) \/ GiveUnit(t)
  \/ MarkFinished(t) \/ WaitForOthers(t) \/ Stay(t) \/ pass(t)

Next == \E t \in Threads : Step(t)

Spec == Init /\ [][Next]_vars

(* The threads run side by side; one that keeps trying a lock which is     *)
(* free again and again gets it.                                           *)
FairSpec == Spec /\ \A t \in Threads : SF_vars(Step(t))

-----------------------------------------------------------------------------
(* The critical section each lock is for.                                  *)
Inside(l) ==
  CASE l = "thread_status" -> {"mark_read", "mark_write", "mark_unlock"}
    [] l = "strm_unit_lock" -> {"strm_read", "strm_write", "strm_unlock",
                                "give_read", "give_write", "give_unlock"}
    [] l = "finish_mask_lock" -> {"finish_read", "finish_write", "finish_unlock"}

Using(t) == pc[t] \in {"mpa_src", "ctl_read", "mpa_dst", "ctl_write", "compare"}

(* The copy a thread makes through the stream unit is its own: two threads *)
(* of a core never use the unit at once, threads of different cores do not *)
(* release each other's, and so no comparison fails; each lock byte is set *)
(* exactly while some thread is in its section.                            *)
StreamCopies ==
  /\ \A t \in Threads : pc[t] # "fail"
  /\ \A t, s \in Threads : t # s /\ Core(t) = Core(s) => ~(Using(t) /\ Using(s))
  /\ \A t \in Threads : Using(t) => t \in strm_unit_use_mask
  /\ \A l \in Locks : locked[l] <=> \E t \in Threads : pc[t] \in Inside(l)

(* No mark is lost: a thread that marked itself active stays so, although  *)
(* the monarch clears the masks at its start, and one that finished is in  *)
(* the mask thread 0 waits for.                                            *)
MarksKept ==
  \A t \in Threads :
    /\ pc[t] \notin {"arb", "ldstub", "crown", "init", "wait_init", "mark",
                     "mark_read", "mark_write"} => t \in active_threads_mask
    /\ pc[t] \in {"finish_unlock", "finished", "passed"} => t \in finish_mask

(* The diag ends: thread 0 sees every thread finished and passes, whoever  *)
(* is the monarch and whoever was blocked, and so does everyone else but a *)
(* monarch that stays.                                                     *)
EveryonePasses ==
  <>[](\A t \in Threads : pc[t] = "passed" \/ (t = monarch /\ t # 0 /\ pc[t] = "finished"))
=============================================================================
