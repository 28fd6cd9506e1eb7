------------------------ MODULE IPAllocateLockProofs ------------------------
(***************************************************************************)
(* Safety of the allocation lock for any number of goroutines and subnets. *)
(***************************************************************************)
EXTENDS IPAllocateLock, TLAPS

(***************************************************************************)
(* The inductive invariant: a goroutine past an acquisition holds the      *)
(* mutex it acquired, and no two hold the same one.                        *)
(***************************************************************************)
GlobalHeld == \A p \in Procs : HoldsGlobal(p) => global
SubnetHeld == \A p \in Procs, s \in Subnets : HoldsSubnet(p, s) => m[s]

Inv == /\ TypeOK
       /\ GlobalHeld
       /\ OneWaiter
       /\ SubnetHeld
       /\ MutualExclusion
       /\ FlagHasOwner

(* The initial state satisfies the invariant: every goroutine is idle. *)
LEMMA InitInv == Init => Inv
  BY DEF Init, Inv, TypeOK, PC, GlobalHeld, OneWaiter, SubnetHeld,
         MutualExclusion, FlagHasOwner, HoldsGlobal, HoldsSubnet

(* Every step of IPAllocateLock, IsIPAllocating and unlock keeps the types. *)
LEMMA NextTypeOK == TypeOK /\ [Next]_vars => TypeOK'
<1> SUFFICES ASSUME TypeOK, [Next]_vars
             PROVE  TypeOK'
  OBVIOUS
<1> USE DEF TypeOK, Goto
<1>1. ASSUME NEW p \in Procs, NEW s \in Subnets, Call(p, s) \/ ProbeCall(p, s)
      PROVE  TypeOK'
  BY <1>1 DEF PC, Call, ProbeCall
<1>2. ASSUME NEW p \in Procs, LockGlobal(p) \/ UnlockGlobal(p)
      PROVE  TypeOK'
  BY <1>2 DEF PC, LockGlobal, UnlockGlobal
<1>3. ASSUME NEW p \in Procs, SetFlag(p) \/ ClearFlag(p)
      PROVE  TypeOK'
  BY <1>3 DEF PC, SetFlag, ClearFlag
<1>4. ASSUME NEW p \in Procs, LockSubnet(p) \/ UnlockSubnet(p)
      PROVE  TypeOK'
  BY <1>4 DEF PC, LockSubnet, UnlockSubnet
<1>5. ASSUME UNCHANGED vars
      PROVE  TypeOK'
  BY <1>5 DEF vars
<1> QED
  BY <1>1, <1>2, <1>3, <1>4, <1>5 DEF Next, Step

(* Every step keeps the whole invariant. *)
LEMMA NextInv == Inv /\ [Next]_vars => Inv'
<1> SUFFICES ASSUME Inv, [Next]_vars
             PROVE  Inv'
  OBVIOUS
<1>t. TypeOK /\ TypeOK'
  BY NextTypeOK DEF Inv
<1> DEFINE Held == /\ GlobalHeld
                   /\ OneWaiter
                   /\ SubnetHeld
                   /\ MutualExclusion
                   /\ FlagHasOwner
<1> USE DEF GlobalHeld, OneWaiter, SubnetHeld, MutualExclusion, FlagHasOwner,
            HoldsGlobal, HoldsSubnet
<1>1. ASSUME NEW p \in Procs, NEW s \in Subnets, Call(p, s) \/ ProbeCall(p, s)
      PROVE  Held'
  BY <1>1, <1>t DEF Inv, TypeOK, PC, Call, ProbeCall, Goto
<1>2. ASSUME NEW p \in Procs, LockGlobal(p)
      PROVE  Held'
  BY <1>2, <1>t DEF Inv, TypeOK, PC, LockGlobal, Goto
<1>3. ASSUME NEW p \in Procs, SetFlag(p)
      PROVE  Held'
  BY <1>3, <1>t DEF Inv, TypeOK, PC, SetFlag, Goto
<1>4. ASSUME NEW p \in Procs, LockSubnet(p)
      PROVE  Held'
  BY <1>4, <1>t DEF Inv, TypeOK, PC, LockSubnet, Goto
<1>5. ASSUME NEW p \in Procs, UnlockGlobal(p)
      PROVE  Held'
  BY <1>5, <1>t DEF Inv, TypeOK, PC, UnlockGlobal, Goto
<1>6. ASSUME NEW p \in Procs, UnlockSubnet(p)
      PROVE  Held'
  BY <1>6, <1>t DEF Inv, TypeOK, PC, UnlockSubnet, Goto
<1>7. ASSUME NEW p \in Procs, ClearFlag(p)
      PROVE  Held'
  BY <1>7, <1>t DEF Inv, TypeOK, PC, ClearFlag, Goto
<1>8. ASSUME UNCHANGED vars
      PROVE  Held'
  BY <1>8 DEF Inv, vars
<1>9. Held'
  BY <1>1, <1>2, <1>3, <1>4, <1>5, <1>6, <1>7, <1>8 DEF Next, Step
<1> QED
  BY <1>9, <1>t DEF Inv

(* Inv is an invariant of the lock. *)
LEMMA Invariance == Spec => []Inv
  BY InitInv, NextInv, PTL DEF Spec

(***************************************************************************)
(* Type correctness, for any goroutines and subnets.                       *)
(***************************************************************************)
THEOREM TypeCorrect == Spec => []TypeOK
<1>1. Inv => TypeOK
  BY DEF Inv
<1> QED
  BY Invariance, <1>1, PTL

(***************************************************************************)
(* The critical sections of onIPCreate, handleIPRemove and onSubnetUpdate  *)
(* on one subnet exclude each other, whatever the number of workers.       *)
(***************************************************************************)
THEOREM LockExcludes == Spec => []MutualExclusion
<1>1. Inv => MutualExclusion
  BY DEF Inv
<1> QED
  BY Invariance, <1>1, PTL

(***************************************************************************)
(* Only one goroutine waits for a subnet's mutex at a time.                *)
(***************************************************************************)
THEOREM WaiterIsUnique == Spec => []OneWaiter
<1>1. Inv => OneWaiter
  BY DEF Inv
<1> QED
  BY Invariance, <1>1, PTL

(***************************************************************************)
(* isLocked is set only on behalf of a goroutine that will clear it.       *)
(***************************************************************************)
THEOREM FlagNeverSticks == Spec => []FlagHasOwner
<1>1. Inv => FlagHasOwner
  BY DEF Inv
<1> QED
  BY Invariance, <1>1, PTL

-----------------------------------------------------------------------------
(* What the goroutines ask for and hold, as functions. *)
Wants == [p \in Procs |-> Asks(p)]
Held == [s \in Subnets |-> Holders(s)]

(* Initially every goroutine is idle: nothing is asked for or held. *)
LEMMA InitImplements == Init => Abstract!Init
  BY DEF Init, Abstract!Init, Asks, Holders, HoldsSubnet

(* A call of IPAllocateLock by an idle goroutine asks for the subnet. *)
LEMMA CallAsks ==
  ASSUME Inv, NEW p \in Procs, NEW s \in Subnets, Call(p, s) \/ ProbeCall(p, s)
  PROVE  Abstract!Ask(p, s)
<1> USE DEF Inv, TypeOK
<1>0. /\ pc[p] = "idle" /\ subnet' = [subnet EXCEPT ![p] = s]
      /\ pc' = [pc EXCEPT ![p] = "enter"]
  BY DEF Call, ProbeCall, Goto
<1>1. Asks(p) = {} /\ Asks(p)' = {s}
  BY <1>0 DEF Asks
<1>2. \A q \in Procs : q # p => Asks(q)' = Asks(q)
  BY <1>0 DEF Asks
<1>3. \A t \in Subnets : p \notin Holders(t) /\ Holders(t)' = Holders(t)
  BY <1>0 DEF Holders, HoldsSubnet
<1>4. Wants' = [Wants EXCEPT ![p] = {s}]
  BY <1>1, <1>2 DEF Wants
<1>5. Held' = Held
  BY <1>3 DEF Held
<1> QED
  BY <1>1, <1>3, <1>4, <1>5 DEF Abstract!Ask, Wants, Held

(* Locking the subnet's mutex is the grant: while it was free, nobody held it. *)
LEMMA LockSubnetGrants ==
  ASSUME Inv, NEW p \in Procs, LockSubnet(p)
  PROVE  Abstract!Grant(p, subnet[p])
<1> USE DEF Inv, TypeOK
<1>0. /\ pc[p] = "wait" /\ ~m[subnet[p]] /\ subnet' = subnet
      /\ pc' = [pc EXCEPT ![p] = "return"] /\ subnet[p] \in Subnets
  BY DEF LockSubnet, Goto
<1>1. Asks(p) = {subnet[p]} /\ Asks(p)' = {}
  BY <1>0 DEF Asks
<1>2. \A q \in Procs : q # p => Asks(q)' = Asks(q)
  BY <1>0 DEF Asks
<1>3. Holders(subnet[p]) = {} /\ Holders(subnet[p])' = {p}
  BY <1>0 DEF Holders, HoldsSubnet, SubnetHeld
<1>4. \A t \in Subnets : t # subnet[p] => Holders(t)' = Holders(t)
  BY <1>0 DEF Holders, HoldsSubnet
<1>5. Wants' = [Wants EXCEPT ![p] = {}]
  BY <1>1, <1>2 DEF Wants
<1>6. Held' = [Held EXCEPT ![subnet[p]] = {p}]
  BY <1>0, <1>3, <1>4 DEF Held
<1> QED
  BY <1>0, <1>1, <1>3, <1>5, <1>6 DEF Abstract!Grant, Wants, Held

(* Unlocking it gives the lock back: its owner was the only holder. *)
LEMMA UnlockSubnetGivesBack ==
  ASSUME Inv, NEW p \in Procs, UnlockSubnet(p)
  PROVE  Abstract!GiveBack(p, subnet[p])
<1> USE DEF Inv, TypeOK
<1>0. /\ pc[p] = "critical" /\ subnet' = subnet
      /\ pc' = [pc EXCEPT ![p] = "clear"] /\ subnet[p] \in Subnets
  BY DEF UnlockSubnet, Goto
<1>1. \A q \in Procs : Asks(q)' = Asks(q)
  BY <1>0 DEF Asks
<1>2. Holders(subnet[p]) = {p} /\ Holders(subnet[p])' = {}
  BY <1>0 DEF Holders, HoldsSubnet, MutualExclusion
<1>3. \A t \in Subnets : t # subnet[p] => Holders(t)' = Holders(t)
  BY <1>0 DEF Holders, HoldsSubnet
<1>4. Wants' = Wants
  BY <1>1 DEF Wants
<1>5. Held' = [Held EXCEPT ![subnet[p]] = {}]
  BY <1>0, <1>2, <1>3 DEF Held
<1> QED
  BY <1>0, <1>2, <1>4, <1>5 DEF Abstract!GiveBack, Wants, Held

(* The steps on the global mutex and on isLocked change neither. *)
LEMMA OthersStutter ==
  ASSUME Inv,
         \/ \E p \in Procs : LockGlobal(p) \/ SetFlag(p) \/ UnlockGlobal(p) \/ ClearFlag(p)
         \/ UNCHANGED vars
  PROVE  Wants' = Wants /\ Held' = Held
<1> USE DEF Inv, TypeOK
<1>1. \A q \in Procs : Asks(q)' = Asks(q)
  BY DEF Asks, LockGlobal, SetFlag, UnlockGlobal, ClearFlag, Goto, vars
<1>2. \A t \in Subnets : Holders(t)' = Holders(t)
  BY DEF Holders, HoldsSubnet, LockGlobal, SetFlag, UnlockGlobal, ClearFlag, Goto, vars
<1> QED
  BY <1>1, <1>2 DEF Wants, Held

(* Every step is a step of the abstract lock, or one that it does not see. *)
LEMMA NextImplements == Inv /\ [Next]_vars => [Abstract!Next]_<<Wants, Held>>
<1> SUFFICES ASSUME Inv, [Next]_vars
             PROVE  [Abstract!Next]_<<Wants, Held>>
  OBVIOUS
<1>1. ASSUME NEW p \in Procs, NEW s \in Subnets, Call(p, s) \/ ProbeCall(p, s)
      PROVE  Abstract!Next
  BY <1>1, CallAsks DEF Abstract!Next
<1>2. ASSUME NEW p \in Procs, LockSubnet(p)
      PROVE  Abstract!Next
  BY <1>2, LockSubnetGrants DEF Abstract!Next, Inv, TypeOK
<1>3. ASSUME NEW p \in Procs, UnlockSubnet(p)
      PROVE  Abstract!Next
  BY <1>3, UnlockSubnetGivesBack DEF Abstract!Next, Inv, TypeOK
<1>4. ASSUME \/ \E p \in Procs : LockGlobal(p) \/ SetFlag(p) \/ UnlockGlobal(p) \/ ClearFlag(p)
             \/ UNCHANGED vars
      PROVE  UNCHANGED <<Wants, Held>>
  BY <1>4, OthersStutter
<1> QED
  BY <1>1, <1>2, <1>3, <1>4 DEF Next, Step

(***************************************************************************)
(* IPAllocateLock and its unlock function, with their two mutexes and the  *)
(* flag, implement one lock for each subnet, for any number of goroutines  *)
(* and subnets: what the models of the controllers take the lock to be.    *)
(***************************************************************************)
THEOREM LockImplements == Spec => ImplementsSubnetLock
  BY Invariance, InitImplements, NextImplements, PTL
     DEF Spec, ImplementsSubnetLock, Abstract!Spec, Wants, Held
=============================================================================
