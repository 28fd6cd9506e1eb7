--------------------------- MODULE IPAllocateLock ---------------------------
(***************************************************************************)
(* The per-subnet allocation lock of the operator                          *)
(* (pkg/controller/wrangler/utils.go): IPAllocateLock, the unlock function *)
(* it returns, and IsIPAllocating.                                         *)
(*                                                                         *)
(* Every caller takes the global ipAllocateLockMutex, finds the subnet's   *)
(* ipAllocatingMutex, sets its isLocked field and blocks on its mutex,     *)
(* STILL HOLDING the global mutex; the deferred Unlock of the global mutex *)
(* runs when IPAllocateLock returns.  The unlock function releases the     *)
(* subnet's mutex first and clears isLocked afterwards.  isLocked is read  *)
(* and written outside the subnet's mutex; the reads and writes of a bool  *)
(* are single memory operations, so the outcomes of the race are the       *)
(* interleavings of these steps.                                           *)
(***************************************************************************)
EXTENDS Naturals

CONSTANTS Procs,    \* goroutines of the IP and the subnet controller
          Subnets   \* subnet names, the keys of ipAllocateMap

ASSUME SubnetsNonEmpty == Subnets # {}

VARIABLES pc,       \* where each goroutine is
          subnet,   \* the argument of the goroutine's current call
          global,   \* ipAllocateLockMutex: TRUE when locked
          m,        \* ipAllocatingMutex.m of each subnet: TRUE when locked
          isLocked  \* ipAllocatingMutex.isLocked of each subnet

vars == <<pc, subnet, global, m, isLocked>>

PC == {"idle", "enter", "flag", "wait", "return", "critical", "clear"}

Init == /\ pc = [p \in Procs |-> "idle"]
        /\ subnet \in [Procs -> Subnets]
        /\ global = FALSE
        /\ m = [s \in Subnets |-> FALSE]
        /\ isLocked = [s \in Subnets |-> FALSE]

Goto(p, l) == pc' = [pc EXCEPT ![p] = l]

(***************************************************************************)
(* onIPCreate and handleIPRemove call IPAllocateLock directly.             *)
(***************************************************************************)
Call(p, s) == /\ pc[p] = "idle"
              /\ Goto(p, "enter")
              /\ subnet' = [subnet EXCEPT ![p] = s]
              /\ UNCHANGED <<global, m, isLocked>>

(***************************************************************************)
(* onSubnetUpdate probes IsIPAllocating first: it returns when the answer  *)
(* is true and calls IPAllocateLock when it is false.  A subnet without an *)
(* entry in ipAllocateMap answers false, like one with isLocked unset.     *)
(***************************************************************************)
IsIPAllocating(s) == isLocked[s]

ProbeCall(p, s) == /\ pc[p] = "idle"
                   /\ ~IsIPAllocating(s)
                   /\ Goto(p, "enter")
                   /\ subnet' = [subnet EXCEPT ![p] = s]
                   /\ UNCHANGED <<global, m, isLocked>>

(* Bug variant: no global mutex. *)
LockGlobalNotTaken(p) == /\ pc[p] = "enter"
                         /\ global' = TRUE
                         /\ Goto(p, "flag")
                         /\ UNCHANGED <<subnet, m, isLocked>>

(* ipAllocateLockMutex.Lock() *)
LockGlobal(p) == /\ pc[p] = "enter"
                 /\ ~global
                 /\ global' = TRUE
                 /\ Goto(p, "flag")
                 /\ UNCHANGED <<subnet, m, isLocked>>

(* Bug variant: isLocked is used to try the lock, and the caller starts over
   when it is set. *)
SetFlagOrStartOver(p) ==
    /\ pc[p] = "flag"
    /\ UNCHANGED <<subnet, m>>
    /\ \/ /\ isLocked[subnet[p]]
          /\ global' = FALSE
          /\ Goto(p, "enter")
          /\ UNCHANGED isLocked
       \/ /\ ~isLocked[subnet[p]]
          /\ isLocked' = [isLocked EXCEPT ![subnet[p]] = TRUE]
          /\ Goto(p, "wait")
          /\ UNCHANGED global

(* m.isLocked = true *)
SetFlag(p) == /\ pc[p] = "flag"
              /\ isLocked' = [isLocked EXCEPT ![subnet[p]] = TRUE]
              /\ Goto(p, "wait")
              /\ UNCHANGED <<subnet, global, m>>

(* Bug variant: the global mutex alone guards the subnet. *)
LockSubnetNotTaken(p) == /\ pc[p] = "wait"
                         /\ m' = [m EXCEPT ![subnet[p]] = TRUE]
                         /\ Goto(p, "return")
                         /\ UNCHANGED <<subnet, global, isLocked>>

(* m.m.Lock() *)
LockSubnet(p) == /\ pc[p] = "wait"
                 /\ ~m[subnet[p]]
                 /\ m' = [m EXCEPT ![subnet[p]] = TRUE]
                 /\ Goto(p, "return")
                 /\ UNCHANGED <<subnet, global, isLocked>>

(* Bug variant: the subnet's mutex is deferred too. *)
UnlockGlobalAndSubnet(p) == /\ pc[p] = "return"
                            /\ global' = FALSE
                            /\ m' = [m EXCEPT ![subnet[p]] = FALSE]
                            /\ Goto(p, "critical")
                            /\ UNCHANGED <<subnet, isLocked>>

(* the deferred ipAllocateLockMutex.Unlock() *)
UnlockGlobal(p) == /\ pc[p] = "return"
                   /\ global' = FALSE
                   /\ Goto(p, "critical")
                   /\ UNCHANGED <<subnet, m, isLocked>>

(* m.m.Unlock(), the first half of the returned unlock function *)
UnlockSubnet(p) == /\ pc[p] = "critical"
                   /\ m' = [m EXCEPT ![subnet[p]] = FALSE]
                   /\ Goto(p, "clear")
                   /\ UNCHANGED <<subnet, global, isLocked>>

(* Bug variant: unlock forgets isLocked. *)
ClearFlagForgotten(p) == /\ pc[p] = "clear"
                         /\ Goto(p, "idle")
                         /\ UNCHANGED <<subnet, global, m, isLocked>>

(* m.isLocked = false, its second half *)
ClearFlag(p) == /\ pc[p] = "clear"
                /\ isLocked' = [isLocked EXCEPT ![subnet[p]] = FALSE]
                /\ Goto(p, "idle")
                /\ UNCHANGED <<subnet, global, m>>

Step(p) == \/ LockGlobal(p)
           \/ SetFlag(p)
           \/ LockSubnet(p)
           \/ UnlockGlobal(p)
           \/ UnlockSubnet(p)
           \/ ClearFlag(p)

Next == \E p \in Procs :
           \/ \E s \in Subnets : Call(p, s) \/ ProbeCall(p, s)
           \/ Step(p)

Spec == Init /\ [][Next]_vars

(***************************************************************************)
(* Fairness.  Every goroutine that can run is scheduled, and the API calls *)
(* made inside a critical section time out, so its steps are weakly fair.  *)
(* sync.Mutex hands over in FIFO order to a goroutine that has waited for  *)
(* more than 1ms, so a goroutine does not lose the global mutex for ever:  *)
(* strong fairness.  Weak fairness is enough for the subnet's mutex: only  *)
(* the holder of the global mutex ever waits for it.                       *)
(***************************************************************************)
Fairness == \A p \in Procs : WF_vars(Step(p)) /\ SF_vars(LockGlobal(p))

FairSpec == Spec /\ Fairness

-----------------------------------------------------------------------------
TypeOK == /\ pc \in [Procs -> PC]
          /\ subnet \in [Procs -> Subnets]
          /\ global \in BOOLEAN
          /\ m \in [Subnets -> BOOLEAN]
          /\ isLocked \in [Subnets -> BOOLEAN]

HoldsGlobal(p) == pc[p] \in {"flag", "wait", "return"}
HoldsSubnet(p, s) == pc[p] \in {"return", "critical"} /\ subnet[p] = s

(***************************************************************************)
(* Two goroutines are never between IPAllocateLock(s) and its unlock for   *)
(* the same subnet s: reading UsedIP, choosing an address and writing      *)
(* UsedIP back (onIPCreate), and releasing one (handleIPRemove), do not    *)
(* overlap.                                                                *)
(***************************************************************************)
MutualExclusion ==
    \A p, q \in Procs, s \in Subnets :
        HoldsSubnet(p, s) /\ HoldsSubnet(q, s) => p = q

(***************************************************************************)
(* isLocked never sticks: it is set only while some goroutine is between   *)
(* lock() and the end of unlock() for that subnet, so IsIPAllocating does  *)
(* not answer true for ever and the self-check of onSubnetUpdate is not    *)
(* switched off by the flag alone.                                         *)
(***************************************************************************)
FlagHasOwner ==
    \A s \in Subnets : isLocked[s] =>
        \E p \in Procs : /\ subnet[p] = s
                          /\ pc[p] \in {"wait", "return", "critical", "clear"}

(***************************************************************************)
(* At most one goroutine of the whole operator waits for a subnet's mutex: *)
(* the others queue for the global one.  This is why weak fairness is      *)
(* enough for the subnets' mutexes.                                        *)
(***************************************************************************)
OneWaiter == \A p, q \in Procs : HoldsGlobal(p) /\ HoldsGlobal(q) => p = q

(***************************************************************************)
(* Every call of IPAllocateLock returns, though a caller that waits for    *)
(* one subnet keeps the callers of every other subnet out.                 *)
(***************************************************************************)
EveryCallReturns ==
    \A p \in Procs : pc[p] = "enter" ~> pc[p] = "critical"

(* what a goroutine waits for, and who owns a subnet's mutex *)
Asks(p) == IF pc[p] \in {"enter", "flag", "wait"} THEN {subnet[p]} ELSE {}
Holders(s) == {p \in Procs : HoldsSubnet(p, s)}

Abstract == INSTANCE SubnetLock WITH wants <- [p \in Procs |-> Asks(p)],
                                     holders <- [s \in Subnets |-> Holders(s)]

(***************************************************************************)
(* The two mutexes and the flag implement one lock for each subnet: what   *)
(* IPAM and SubnetController take the lock to be.  A goroutine asks for it *)
(* when it calls, has it from the moment it owns the subnet's mutex, and   *)
(* gives it back when it unlocks that mutex; the steps on the global mutex *)
(* and on isLocked do not show.                                            *)
(***************************************************************************)
ImplementsSubnetLock == Abstract!Spec

(***************************************************************************)
(* "IsIPAllocating checks whether the subnet is locked" (utils.go:74): a   *)
(* locked subnet answers true.  It does not hold: unlock clears isLocked   *)
(* after it released the mutex, and a goroutine that had been waiting may  *)
(* own the mutex by then.                                                  *)
(***************************************************************************)
LockedAnswersTrue == \A s \in Subnets : m[s] => IsIPAllocating(s)
=============================================================================
