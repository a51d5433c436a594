---------------------------- MODULE LogicProofs ----------------------------
(***************************************************************************)
(* Proofs about Logic, for any number of processor threads and any number  *)
(* of deliveries: type correctness, and that no delivery is lost, popped   *)
(* twice, processed twice or left half done.                               *)
(***************************************************************************)
EXTENDS Logic, TLAPS

-----------------------------------------------------------------------------
(* The inductive invariant.  The properties of Logic say nothing of the    *)
(* mutex nor of the gap between a pop and an ack: the conjuncts below do.  *)

\* A processor is at a point inside the critical section iff it owns the mutex.
MutexInv == \A p \in Processors : pc[p] \in LockedPcs <=> guard = p

\* What the lifecycle implies: nothing happens before start, the flag is
\* cleared before stop notifies, and stop joins all processors.
PhaseInv ==
    /\ state \in {"CREATED", "INITIALIZED", "CONFIGURED"} =>
         /\ pushed = 0 /\ popped = 0 /\ ~running /\ stopPc = "idle"
         /\ \A p \in Processors : pc[p] = "unborn"
    /\ stopPc # "idle" => ~running
    /\ stopPc \in {"joinLoop", "returned"} => \A p \in Processors : pc[p] = "done"

\* An item in a processor's hands was pushed and popped, nobody else holds it,
\* it was not settled yet, and it was parsed iff its processor is about to
\* settle it.
ItemInv ==
    \A p \in Processors :
        /\ item[p] # NoItem <=> pc[p] \in {"parse", "settle"}
        /\ item[p] # NoItem =>
             /\ item[p] <= pushed
             /\ item[p] <= popped
             /\ settled[item[p]] = "unsettled"
             /\ outcome[item[p]] # "none" <=> pc[p] = "settle"
             /\ \A q \in Processors : item[q] = item[p] => q = p

\* What was not popped has no effect; what had an effect is settled or about to
\* be; what is settled had an effect.
EffectInv ==
    \A t \in Tags :
        /\ popped < t => outcome[t] = "none"
        /\ outcome[t] # "none" =>
             \/ settled[t] # "unsettled"
             \/ \E p \in Processors : item[p] = t
        /\ settled[t] # "unsettled" => outcome[t] # "none"

\* As long as the processors run, what was popped is settled or held.
AccountedInv ==
    running => \A t \in Tags :
        t <= popped => \/ settled[t] # "unsettled"
                       \/ \E p \in Processors : item[p] = t

ThreadInv == MutexInv /\ PhaseInv /\ PopsAreBacked
DeliveryInv == ItemInv /\ EffectInv /\ AccountedInv

IInv == TypeOK /\ ThreadInv /\ DeliveryInv

-----------------------------------------------------------------------------
(* Initial states and steps.  Each step is split into the type invariant,  *)
(* the conjuncts about threads and the conjuncts about deliveries.         *)

LEMMA InitIInv == Init => IInv
<1> SUFFICES ASSUME Init PROVE IInv
  OBVIOUS
<1> USE DEF Init
<1>1. TypeOK
  <2>1. running \in BOOLEAN /\ loopRunning \in BOOLEAN /\ crashed \in BOOLEAN
    OBVIOUS
  <2>2. /\ state \in States
        /\ loopPc \in LoopPcs
        /\ stopPc \in StopPcs
    BY DEF States, LoopPcs, StopPcs
  <2>3. guard \in Processors \cup {NoThread}
    OBVIOUS
  <2>4. pushed \in 0..MaxTag /\ popped \in Nat /\ item \in [Processors -> 0..pushed]
    BY MaxTagAssumption DEF NoItem
  <2>5. pc \in [Processors -> ProcessorPcs]
    BY DEF ProcessorPcs
  <2>6. /\ outcome \in [Tags -> Results \cup {"none"}]
        /\ settled \in [Tags -> {"unsettled", "acked", "rejected"}]
    OBVIOUS
  <2> QED
    BY <2>1, <2>2, <2>3, <2>4, <2>5, <2>6 DEF TypeOK
<1>2. ThreadInv
  BY ProcessorsAssumption DEF ThreadInv, MutexInv, PhaseInv, PopsAreBacked, LockedPcs
<1>3. DeliveryInv
  BY DEF DeliveryInv, ItemInv, EffectInv, AccountedInv, NoItem
<1> QED
  BY <1>1, <1>2, <1>3 DEF IInv

LEMMA LifecycleStep ==
  ASSUME IInv,
         \/ Initialize
         \/ Configure
         \/ Start
         \/ Deinitialize
  PROVE  IInv'
<1> USE DEF IInv, ThreadInv, DeliveryInv
<1>1. CASE Initialize
  <2>1. TypeOK'
    BY <1>1, MaxTagAssumption
    DEF Initialize, TypeOK, queueVars, procVars, ackVars, loopVars, States, ProcessorPcs, LoopPcs, StopPcs
  <2>2. ThreadInv'
    BY <1>1, ProcessorsAssumption
    DEF Initialize, TypeOK, MutexInv, PhaseInv, PopsAreBacked,
        queueVars, procVars, ackVars, loopVars, ProcessorPcs
  <2>3. DeliveryInv'
    BY <1>1
    DEF Initialize, TypeOK, PhaseInv, PopsAreBacked, ItemInv, EffectInv, AccountedInv,
        queueVars, procVars, ackVars, loopVars, NoItem, Tags, Results, ProcessorPcs
  <2> QED
    BY <2>1, <2>2, <2>3
<1>2. CASE Configure
  <2>1. TypeOK'
    BY <1>2, MaxTagAssumption
    DEF Configure, TypeOK, queueVars, procVars, ackVars, loopVars, States, ProcessorPcs, LoopPcs, StopPcs
  <2>2. ThreadInv'
    BY <1>2, ProcessorsAssumption
    DEF Configure, TypeOK, MutexInv, PhaseInv, PopsAreBacked,
        queueVars, procVars, ackVars, loopVars, ProcessorPcs
  <2>3. DeliveryInv'
    BY <1>2
    DEF Configure, TypeOK, PhaseInv, PopsAreBacked, ItemInv, EffectInv, AccountedInv,
        queueVars, procVars, ackVars, loopVars, NoItem, Tags, Results, ProcessorPcs
  <2> QED
    BY <2>1, <2>2, <2>3
<1>3. CASE Start
  <2>1. TypeOK'
    BY <1>3, MaxTagAssumption
    DEF Start, TypeOK, queueVars, procVars, ackVars, loopVars, States, ProcessorPcs, LoopPcs, StopPcs
  <2>2. ThreadInv'
    <3>1. MutexInv'
      BY <1>3 DEF Start, TypeOK, MutexInv, PhaseInv, LockedPcs, queueVars
    <3>2. PhaseInv'
      BY <1>3 DEF Start, PhaseInv
    <3>3. PopsAreBacked'
      BY <1>3 DEF Start, PhaseInv, PopsAreBacked, queueVars
    <3> QED
      BY <3>1, <3>2, <3>3
  <2>3. DeliveryInv'
    BY <1>3
    DEF Start, TypeOK, PhaseInv, PopsAreBacked, ItemInv, EffectInv, AccountedInv,
        queueVars, procVars, ackVars, loopVars, NoItem, Tags, Results, ProcessorPcs
  <2> QED
    BY <2>1, <2>2, <2>3
<1>4. CASE Deinitialize
  <2>1. TypeOK'
    BY <1>4, MaxTagAssumption
    DEF Deinitialize, TypeOK, queueVars, procVars, ackVars, loopVars, States, ProcessorPcs, LoopPcs, StopPcs
  <2>2. ThreadInv'
    BY <1>4, ProcessorsAssumption
    DEF Deinitialize, TypeOK, MutexInv, PhaseInv, PopsAreBacked,
        queueVars, procVars, ackVars, loopVars, ProcessorPcs
  <2>3. DeliveryInv'
    BY <1>4
    DEF Deinitialize, TypeOK, PhaseInv, PopsAreBacked, ItemInv, EffectInv, AccountedInv,
        queueVars, procVars, ackVars, loopVars, NoItem, Tags, Results, ProcessorPcs
  <2> QED
    BY <2>1, <2>2, <2>3
<1> QED
  BY <1>1, <1>2, <1>3, <1>4

LEMMA EventLoopStep ==
  ASSUME IInv,
         ProcessMessage
  PROVE  IInv'
<1> USE DEF IInv, ThreadInv, DeliveryInv
<1>1. TypeOK'
  BY MaxTagAssumption
  DEF ProcessMessage, Notified, TypeOK, queueVars, procVars, ackVars, loopVars, States, ProcessorPcs, LoopPcs, StopPcs, Results, Tags
<1>2. ThreadInv'
  BY ProcessorsAssumption
  DEF ProcessMessage, Notified, LockedPcs, TypeOK, MutexInv, PhaseInv, PopsAreBacked,
      queueVars, procVars, ackVars, loopVars, ProcessorPcs
<1>3. DeliveryInv'
  BY
  DEF ProcessMessage, Notified, TypeOK, PhaseInv, PopsAreBacked, ItemInv, EffectInv, AccountedInv,
      queueVars, procVars, ackVars, loopVars, NoItem, Tags, Results, ProcessorPcs
<1> QED
  BY <1>1, <1>2, <1>3

LEMMA ProcessorStep ==
  ASSUME IInv, NEW p \in Processors, NEW res \in Results,
         \/ SpuriousWakeup(p)
         \/ CheckRunning(p)
         \/ Acquire(p)
         \/ TestQueue(p)
         \/ Wait(p)
         \/ TakeItem(p)
         \/ GarbageWithoutChannel(p)
         \/ GarbageCrash(p)
         \/ ParseMessage(p, res)
         \/ Settle(p)
  PROVE  IInv'
<1> USE DEF IInv, ThreadInv, DeliveryInv
<1>1. CASE SpuriousWakeup(p)
  <2>1. TypeOK'
    BY <1>1, MaxTagAssumption
    DEF SpuriousWakeup, Goto, TypeOK, queueVars, procVars, ackVars, loopVars, States, ProcessorPcs, LoopPcs, StopPcs
  <2>2. ThreadInv'
    BY <1>1, ProcessorsAssumption
    DEF SpuriousWakeup, Goto, LockedPcs, TypeOK, MutexInv, PhaseInv, PopsAreBacked,
        queueVars, procVars, ackVars, loopVars, ProcessorPcs
  <2>3. DeliveryInv'
    BY <1>1
    DEF SpuriousWakeup, Goto, TypeOK, PhaseInv, PopsAreBacked, ItemInv, EffectInv, AccountedInv,
        queueVars, procVars, ackVars, loopVars, NoItem, Tags, Results, ProcessorPcs
  <2> QED
    BY <2>1, <2>2, <2>3
<1>2. CASE CheckRunning(p)
  <2>1. TypeOK'
    BY <1>2, MaxTagAssumption
    DEF CheckRunning, Goto, TypeOK, queueVars, procVars, ackVars, loopVars, States, ProcessorPcs, LoopPcs, StopPcs
  <2>2. ThreadInv'
    BY <1>2, ProcessorsAssumption
    DEF CheckRunning, Goto, LockedPcs, TypeOK, MutexInv, PhaseInv, PopsAreBacked,
        queueVars, procVars, ackVars, loopVars, ProcessorPcs
  <2>3. DeliveryInv'
    BY <1>2
    DEF CheckRunning, Goto, TypeOK, PhaseInv, PopsAreBacked, ItemInv, EffectInv, AccountedInv,
        queueVars, procVars, ackVars, loopVars, NoItem, Tags, Results, ProcessorPcs
  <2> QED
    BY <2>1, <2>2, <2>3
<1>3. CASE Acquire(p)
  <2>1. TypeOK'
    BY <1>3, MaxTagAssumption
    DEF Acquire, Goto, ResumeAt, TypeOK, queueVars, procVars, ackVars, loopVars, States, ProcessorPcs, LoopPcs, StopPcs
  <2>2. ThreadInv'
    BY <1>3, ProcessorsAssumption
    DEF Acquire, Goto, ResumeAt, LockedPcs, TypeOK, MutexInv, PhaseInv, PopsAreBacked,
        queueVars, procVars, ackVars, loopVars, ProcessorPcs
  <2>3. DeliveryInv'
    BY <1>3
    DEF Acquire, Goto, ResumeAt, TypeOK, PhaseInv, PopsAreBacked, ItemInv, EffectInv, AccountedInv,
        queueVars, procVars, ackVars, loopVars, NoItem, Tags, Results, ProcessorPcs
  <2> QED
    BY <2>1, <2>2, <2>3
<1>4. CASE TestQueue(p)
  <2>1. TypeOK'
    BY <1>4, MaxTagAssumption
    DEF TestQueue, Goto, QueueIsEmpty, TypeOK, queueVars, procVars, ackVars, loopVars, States, ProcessorPcs, LoopPcs, StopPcs
  <2>2. ThreadInv'
    BY <1>4, ProcessorsAssumption
    DEF TestQueue, Goto, QueueIsEmpty, LockedPcs, TypeOK, MutexInv, PhaseInv, PopsAreBacked,
        queueVars, procVars, ackVars, loopVars, ProcessorPcs
  <2>3. DeliveryInv'
    BY <1>4
    DEF TestQueue, Goto, QueueIsEmpty, TypeOK, PhaseInv, PopsAreBacked, ItemInv, EffectInv, AccountedInv,
        queueVars, procVars, ackVars, loopVars, NoItem, Tags, Results, ProcessorPcs
  <2> QED
    BY <2>1, <2>2, <2>3
<1>5. CASE Wait(p)
  <2>1. TypeOK'
    BY <1>5, MaxTagAssumption
    DEF Wait, Goto, TypeOK, queueVars, procVars, ackVars, loopVars, States, ProcessorPcs, LoopPcs, StopPcs
  <2>2. ThreadInv'
    BY <1>5, ProcessorsAssumption
    DEF Wait, Goto, LockedPcs, TypeOK, MutexInv, PhaseInv, PopsAreBacked,
        queueVars, procVars, ackVars, loopVars, ProcessorPcs
  <2>3. DeliveryInv'
    BY <1>5
    DEF Wait, Goto, TypeOK, PhaseInv, PopsAreBacked, ItemInv, EffectInv, AccountedInv,
        queueVars, procVars, ackVars, loopVars, NoItem, Tags, Results, ProcessorPcs
  <2> QED
    BY <2>1, <2>2, <2>3
<1>6. CASE TakeItem(p)
  <2>1. TypeOK'
    <3>1. popped' \in Nat
      BY <1>6 DEF TakeItem, Pop, TypeOK
    <3>2. item' \in [Processors -> 0..pushed] /\ pc' \in [Processors -> ProcessorPcs]
      <4>1. CASE popped < pushed
        BY <1>6, <4>1 DEF TakeItem, Front, Goto, TypeOK, ProcessorPcs
      <4>2. CASE ~(popped < pushed)
        BY <1>6, <4>2 DEF TakeItem, Goto, TypeOK, ProcessorPcs
      <4> QED
        BY <4>1, <4>2
    <3> QED
      BY <1>6, <3>1, <3>2 DEF TakeItem, TypeOK, ackVars, loopVars
  <2>2. ThreadInv'
    BY <1>6, ProcessorsAssumption
    DEF TakeItem, Goto, Pop, LockedPcs, TypeOK, MutexInv, PhaseInv, PopsAreBacked,
        queueVars, procVars, ackVars, loopVars, ProcessorPcs
  <2>3. DeliveryInv'
    <3> USE DEF TakeItem, Front, Goto, Pop, TypeOK, ackVars, loopVars, NoItem, Tags, ProcessorPcs
    <3>1. CASE popped < pushed
      <4>1. /\ popped + 1 \in Tags
            /\ outcome[popped + 1] = "none"
            /\ settled[popped + 1] = "unsettled"
        BY <3>1, MaxTagAssumption DEF EffectInv
      <4>2. /\ item'[p] = popped + 1 /\ pc'[p] = "parse"
            /\ \A q \in Processors \ {p} : item'[q] = item[q] /\ pc'[q] = pc[q]
            /\ item[p] = NoItem
        BY <1>6, <3>1 DEF ItemInv
      <4>3. /\ popped' = popped + 1 /\ UNCHANGED <<pushed, outcome, settled, running>>
            /\ popped \in Nat /\ pushed \in Nat /\ item \in [Processors -> Nat]
        BY <1>6, MaxTagAssumption
      <4>4. \A q \in Processors : item[q] <= popped
        BY <4>3 DEF ItemInv
      <4> HIDE DEF TakeItem, Goto, Pop, TypeOK, Tags
      <4>5. ItemInv'
        BY <3>1, <4>1, <4>2, <4>3, <4>4, SMTT(30) DEF ItemInv
      <4>6. EffectInv'
        BY <4>1, <4>2, <4>3, <4>4, SMTT(30) DEF EffectInv, Tags
      <4>7. AccountedInv'
        BY <4>1, <4>2, <4>3, <4>4, SMTT(30) DEF AccountedInv, Tags
      <4> QED
        BY <4>5, <4>6, <4>7
    <3>2. CASE ~(popped < pushed)
      <4>1. ~running
        BY <1>6, <3>2 DEF PopsAreBacked
      <4>2. ItemInv' /\ EffectInv'
        BY <1>6, <3>2 DEF ItemInv, EffectInv
      <4>3. AccountedInv'
        BY <1>6, <4>1 DEF AccountedInv
      <4> QED
        BY <4>2, <4>3
    <3> QED
      BY <3>1, <3>2
  <2> QED
    BY <2>1, <2>2, <2>3
<1>7. CASE GarbageWithoutChannel(p)
  <2>1. TypeOK'
    BY <1>7, MaxTagAssumption
    DEF GarbageWithoutChannel, Goto, TypeOK, queueVars, procVars, ackVars, loopVars, States, ProcessorPcs, LoopPcs, StopPcs
  <2>2. ThreadInv'
    BY <1>7, ProcessorsAssumption
    DEF GarbageWithoutChannel, Goto, LockedPcs, TypeOK, MutexInv, PhaseInv, PopsAreBacked,
        queueVars, procVars, ackVars, loopVars, ProcessorPcs
  <2>3. DeliveryInv'
    BY <1>7
    DEF GarbageWithoutChannel, Goto, TypeOK, PhaseInv, PopsAreBacked, ItemInv, EffectInv, AccountedInv,
        queueVars, procVars, ackVars, loopVars, NoItem, Tags, Results, ProcessorPcs
  <2> QED
    BY <2>1, <2>2, <2>3
<1>8. CASE GarbageCrash(p)
  <2>1. TypeOK'
    BY <1>8, MaxTagAssumption
    DEF GarbageCrash, TypeOK, queueVars, procVars, ackVars, loopVars, States, ProcessorPcs, LoopPcs, StopPcs
  <2>2. ThreadInv'
    BY <1>8, ProcessorsAssumption
    DEF GarbageCrash, TypeOK, MutexInv, PhaseInv, PopsAreBacked,
        queueVars, procVars, ackVars, loopVars, ProcessorPcs
  <2>3. DeliveryInv'
    BY <1>8
    DEF GarbageCrash, TypeOK, PhaseInv, PopsAreBacked, ItemInv, EffectInv, AccountedInv,
        queueVars, procVars, ackVars, loopVars, NoItem, Tags, Results, ProcessorPcs
  <2> QED
    BY <2>1, <2>2, <2>3
<1>9. CASE ParseMessage(p, res)
  <2>1. TypeOK'
    BY <1>9, MaxTagAssumption
    DEF ParseMessage, Goto, TypeOK, queueVars, procVars, ackVars, loopVars, States, ProcessorPcs, LoopPcs, StopPcs, Tags, ItemInv, NoItem
  <2>2. ThreadInv'
    BY <1>9, ProcessorsAssumption
    DEF ParseMessage, Goto, LockedPcs, TypeOK, MutexInv, PhaseInv, PopsAreBacked,
        queueVars, procVars, ackVars, loopVars, ProcessorPcs
  <2>3. DeliveryInv'
    BY <1>9, MaxTagAssumption
    DEF ParseMessage, Goto, TypeOK, PhaseInv, PopsAreBacked, ItemInv, EffectInv, AccountedInv,
        queueVars, procVars, ackVars, loopVars, NoItem, Tags, Results, ProcessorPcs
  <2> QED
    BY <2>1, <2>2, <2>3
<1>10. CASE Settle(p)
  <2>1. TypeOK'
    <3>1. item[p] \in Tags
      BY <1>10, MaxTagAssumption DEF Settle, TypeOK, ItemInv, NoItem, Tags
    <3>2. Frame(outcome[item[p]]) \in {"acked", "rejected"}
      BY DEF Frame
    <3>3. settled' \in [Tags -> {"unsettled", "acked", "rejected"}]
      BY <1>10, <3>1, <3>2 DEF Settle, TypeOK
    <3> QED
      BY <1>10, <3>3, MaxTagAssumption
      DEF Settle, Goto, TypeOK, queueVars, loopVars, ProcessorPcs, NoItem
  <2>2. ThreadInv'
    BY <1>10, ProcessorsAssumption
    DEF Settle, Goto, Frame, LockedPcs, TypeOK, MutexInv, PhaseInv, PopsAreBacked,
        queueVars, procVars, ackVars, loopVars, ProcessorPcs
  <2>3. DeliveryInv'
    BY <1>10
    DEF Settle, Goto, Frame, TypeOK, PhaseInv, PopsAreBacked, ItemInv, EffectInv, AccountedInv,
        queueVars, procVars, ackVars, loopVars, NoItem, Tags, Results, ProcessorPcs
  <2> QED
    BY <2>1, <2>2, <2>3
<1> QED
  BY <1>1, <1>2, <1>3, <1>4, <1>5, <1>6, <1>7, <1>8, <1>9, <1>10

LEMMA LoopThreadStep ==
  ASSUME IInv,
         \/ LoopCheck
         \/ LoopFunc
         \/ LoopSleep
  PROVE  IInv'
<1> USE DEF IInv, ThreadInv, DeliveryInv
<1>1. CASE LoopCheck
  <2>1. TypeOK'
    BY <1>1, MaxTagAssumption
    DEF LoopCheck, LoopGoto, TypeOK, queueVars, procVars, ackVars, loopVars, States, ProcessorPcs, LoopPcs, StopPcs
  <2>2. ThreadInv'
    BY <1>1, ProcessorsAssumption
    DEF LoopCheck, LoopGoto, TypeOK, MutexInv, PhaseInv, PopsAreBacked,
        queueVars, procVars, ackVars, loopVars, ProcessorPcs
  <2>3. DeliveryInv'
    BY <1>1
    DEF LoopCheck, LoopGoto, TypeOK, PhaseInv, PopsAreBacked, ItemInv, EffectInv, AccountedInv,
        queueVars, procVars, ackVars, loopVars, NoItem, Tags, Results, ProcessorPcs
  <2> QED
    BY <2>1, <2>2, <2>3
<1>2. CASE LoopFunc
  <2>1. TypeOK'
    BY <1>2, MaxTagAssumption
    DEF LoopFunc, LoopGoto, TypeOK, queueVars, procVars, ackVars, loopVars, States, ProcessorPcs, LoopPcs, StopPcs
  <2>2. ThreadInv'
    BY <1>2, ProcessorsAssumption
    DEF LoopFunc, LoopGoto, TypeOK, MutexInv, PhaseInv, PopsAreBacked,
        queueVars, procVars, ackVars, loopVars, ProcessorPcs
  <2>3. DeliveryInv'
    BY <1>2
    DEF LoopFunc, LoopGoto, TypeOK, PhaseInv, PopsAreBacked, ItemInv, EffectInv, AccountedInv,
        queueVars, procVars, ackVars, loopVars, NoItem, Tags, Results, ProcessorPcs
  <2> QED
    BY <2>1, <2>2, <2>3
<1>3. CASE LoopSleep
  <2>1. TypeOK'
    BY <1>3, MaxTagAssumption
    DEF LoopSleep, LoopGoto, TypeOK, queueVars, procVars, ackVars, loopVars, States, ProcessorPcs, LoopPcs, StopPcs
  <2>2. ThreadInv'
    BY <1>3, ProcessorsAssumption
    DEF LoopSleep, LoopGoto, TypeOK, MutexInv, PhaseInv, PopsAreBacked,
        queueVars, procVars, ackVars, loopVars, ProcessorPcs
  <2>3. DeliveryInv'
    BY <1>3
    DEF LoopSleep, LoopGoto, TypeOK, PhaseInv, PopsAreBacked, ItemInv, EffectInv, AccountedInv,
        queueVars, procVars, ackVars, loopVars, NoItem, Tags, Results, ProcessorPcs
  <2> QED
    BY <2>1, <2>2, <2>3
<1> QED
  BY <1>1, <1>2, <1>3

LEMMA StopThreadStep ==
  ASSUME IInv,
         \/ StopBegin
         \/ StopNotify
         \/ StopJoinProcessors
         \/ StopJoinLoop
  PROVE  IInv'
<1> USE DEF IInv, ThreadInv, DeliveryInv
<1>1. CASE StopBegin
  <2>1. TypeOK'
    BY <1>1, MaxTagAssumption
    DEF StopBegin, TypeOK, queueVars, procVars, ackVars, loopVars, States, ProcessorPcs, LoopPcs, StopPcs
  <2>2. ThreadInv'
    BY <1>1, ProcessorsAssumption
    DEF StopBegin, TypeOK, MutexInv, PhaseInv, PopsAreBacked,
        queueVars, procVars, ackVars, loopVars, ProcessorPcs
  <2>3. DeliveryInv'
    BY <1>1
    DEF StopBegin, TypeOK, PhaseInv, PopsAreBacked, ItemInv, EffectInv, AccountedInv,
        queueVars, procVars, ackVars, loopVars, NoItem, Tags, Results, ProcessorPcs
  <2> QED
    BY <2>1, <2>2, <2>3
<1>2. CASE StopNotify
  <2>1. TypeOK'
    BY <1>2, MaxTagAssumption
    DEF StopNotify, Notified, TypeOK, queueVars, procVars, ackVars, loopVars, States, ProcessorPcs, LoopPcs, StopPcs
  <2>2. ThreadInv'
    BY <1>2, ProcessorsAssumption
    DEF StopNotify, Notified, LockedPcs, TypeOK, MutexInv, PhaseInv, PopsAreBacked,
        queueVars, procVars, ackVars, loopVars, ProcessorPcs
  <2>3. DeliveryInv'
    BY <1>2
    DEF StopNotify, Notified, TypeOK, PhaseInv, PopsAreBacked, ItemInv, EffectInv, AccountedInv,
        queueVars, procVars, ackVars, loopVars, NoItem, Tags, Results, ProcessorPcs
  <2> QED
    BY <2>1, <2>2, <2>3
<1>3. CASE StopJoinProcessors
  <2>1. TypeOK'
    BY <1>3, MaxTagAssumption
    DEF StopJoinProcessors, Joined, TypeOK, queueVars, procVars, ackVars, loopVars, States, ProcessorPcs, LoopPcs, StopPcs
  <2>2. ThreadInv'
    BY <1>3, ProcessorsAssumption
    DEF StopJoinProcessors, Joined, TypeOK, MutexInv, PhaseInv, PopsAreBacked,
        queueVars, procVars, ackVars, loopVars, ProcessorPcs
  <2>3. DeliveryInv'
    BY <1>3
    DEF StopJoinProcessors, Joined, TypeOK, PhaseInv, PopsAreBacked, ItemInv, EffectInv, AccountedInv,
        queueVars, procVars, ackVars, loopVars, NoItem, Tags, Results, ProcessorPcs
  <2> QED
    BY <2>1, <2>2, <2>3
<1>4. CASE StopJoinLoop
  <2>1. TypeOK'
    BY <1>4, MaxTagAssumption
    DEF StopJoinLoop, TypeOK, queueVars, procVars, ackVars, loopVars, States, ProcessorPcs, LoopPcs, StopPcs
  <2>2. ThreadInv'
    BY <1>4, ProcessorsAssumption
    DEF StopJoinLoop, TypeOK, MutexInv, PhaseInv, PopsAreBacked,
        queueVars, procVars, ackVars, loopVars, ProcessorPcs
  <2>3. DeliveryInv'
    BY <1>4
    DEF StopJoinLoop, TypeOK, PhaseInv, PopsAreBacked, ItemInv, EffectInv, AccountedInv,
        queueVars, procVars, ackVars, loopVars, NoItem, Tags, Results, ProcessorPcs
  <2> QED
    BY <2>1, <2>2, <2>3
<1> QED
  BY <1>1, <1>2, <1>3, <1>4

LEMMA StutterStep == ASSUME IInv, UNCHANGED vars PROVE IInv'
  BY DEF vars, queueVars, procVars, ackVars, loopVars, IInv, TypeOK, ThreadInv, DeliveryInv,
         MutexInv, PhaseInv, PopsAreBacked, ItemInv, EffectInv, AccountedInv

LEMMA NextIInv == IInv /\ [Next]_vars => IInv'
<1> SUFFICES ASSUME IInv, [Next]_vars PROVE IInv'
  OBVIOUS
<1>1. CASE Environment
  BY <1>1, LifecycleStep, EventLoopStep, StopThreadStep, ProcessorStep
  DEF Environment, Results
<1>2. ASSUME NEW p \in Processors, Processor(p) PROVE IInv'
  BY <1>2, ProcessorStep DEF Processor, Results
<1>3. CASE Loop
  BY <1>3, LoopThreadStep DEF Loop
<1>4. CASE StopSteps
  BY <1>4, StopThreadStep DEF StopSteps
<1>5. CASE UNCHANGED vars
  BY <1>5, StutterStep
<1> QED
  BY <1>1, <1>2, <1>3, <1>4, <1>5 DEF Next

-----------------------------------------------------------------------------
(* The theorems.                                                           *)

THEOREM InvariantHolds == Spec => []IInv
  BY InitIInv, NextIInv, PTL DEF Spec

\* The type invariant of Logic.
THEOREM TypeCorrect == Spec => []TypeOK
  BY InvariantHolds, PTL DEF IInv

\* While the processors run, every delivery Consumer handed to processMessage is
\* queued, held by exactly one processor, or settled.
THEOREM DeliveriesAreNotLost == Spec => []NoDeliveryLost
<1>1. IInv => NoDeliveryLost
  <2> SUFFICES ASSUME IInv, running, NEW t \in 1..pushed
               PROVE  \/ Queued(t) /\ Holders(t) = {} /\ ~IsSettled(t)
                      \/ ~Queued(t) /\ (\E p \in Processors : Holders(t) = {p}) /\ ~IsSettled(t)
                      \/ ~Queued(t) /\ Holders(t) = {} /\ IsSettled(t)
    BY DEF NoDeliveryLost
  <2> USE DEF IInv, DeliveryInv
  <2>1. t \in Tags /\ t # NoItem /\ t <= pushed
    BY MaxTagAssumption DEF TypeOK, Tags, NoItem
  <2>2. CASE popped < t
    <3>1. Holders(t) = {}
      BY <2>1, <2>2 DEF Holders, ItemInv, TypeOK
    <3>2. ~IsSettled(t)
      BY <2>1, <2>2 DEF EffectInv, IsSettled
    <3> QED
      BY <2>1, <2>2, <3>1, <3>2 DEF Queued
  <2>3. CASE ~(popped < t) /\ IsSettled(t)
    <3>1. Holders(t) = {}
      BY <2>1, <2>3 DEF Holders, ItemInv, IsSettled
    <3> QED
      BY <2>3, <3>1 DEF Queued
  <2>4. CASE ~(popped < t) /\ ~IsSettled(t)
    <3>1. t <= popped
      BY <2>1, <2>4 DEF TypeOK, Tags
    <3>2. PICK p \in Processors : item[p] = t
      BY <2>1, <2>4, <3>1 DEF AccountedInv, IsSettled
    <3>3. Holders(t) = {p}
      BY <2>1, <3>2 DEF Holders, ItemInv
    <3> QED
      BY <2>4, <3>3 DEF Queued
  <2> QED
    BY <2>2, <2>3, <2>4
<1> QED
  BY <1>1, InvariantHolds, PTL

\* While the processors run, front() and pop() find an item whenever a thread
\* reaches them.
THEOREM PopsFindAnItem == Spec => []PopsAreBacked
  BY InvariantHolds, PTL DEF IInv, ThreadInv

\* Logic::stop returns only when no processor holds an item, and every message
\* that had an effect has been settled.
THEOREM StopIsClean == Spec => []StopLeavesNothingHalfDone
<1>1. IInv => StopLeavesNothingHalfDone
  <2> SUFFICES ASSUME IInv, stopPc = "returned"
               PROVE  /\ \A p \in Processors : pc[p] = "done" /\ item[p] = NoItem
                      /\ \A t \in Tags : IsSettled(t) <=> outcome[t] # "none"
    BY DEF StopLeavesNothingHalfDone
  <2>1. \A p \in Processors : pc[p] = "done" /\ item[p] = NoItem
    BY DEF IInv, ThreadInv, DeliveryInv, PhaseInv, ItemInv
  <2>2. \A t \in Tags : IsSettled(t) <=> outcome[t] # "none"
    BY <2>1 DEF IInv, DeliveryInv, EffectInv, IsSettled, Tags, NoItem
  <2> QED
    BY <2>1, <2>2
<1> QED
  BY <1>1, InvariantHolds, PTL

\* No message is parsed a second time, and no second ack or reject is sent.
THEOREM EffectsAreFinal == Spec => EffectOnceAndFinal
<1> DEFINE Final == \A t \in Tags : /\ outcome[t] # "none" => UNCHANGED outcome[t]
                                    /\ IsSettled(t) => UNCHANGED settled[t]
<1>1. IInv /\ [Next]_vars => [Final]_vars
  <2> SUFFICES ASSUME IInv, Next PROVE Final
    BY DEF vars
  <2> USE DEF IInv, DeliveryInv, IsSettled
  <2>1. CASE UNCHANGED <<outcome, settled>>
    BY <2>1
  <2>2. ASSUME NEW p \in Processors, NEW res \in Results, ParseMessage(p, res)
        PROVE  Final
    BY <2>2 DEF ParseMessage, ItemInv, TypeOK, NoItem
  <2>3. ASSUME NEW p \in Processors, Settle(p) PROVE Final
    BY <2>3 DEF Settle, ItemInv, TypeOK, NoItem
  <2>4. \/ UNCHANGED <<outcome, settled>>
        \/ \E p \in Processors, res \in Results : ParseMessage(p, res)
        \/ \E p \in Processors : Settle(p)
    BY DEF Next, Environment, Initialize, Configure, Start, Deinitialize, ProcessMessage,
           StopBegin, SpuriousWakeup, Processor, CheckRunning, Acquire, TestQueue, Wait,
           TakeItem, Front, GarbageWithoutChannel, GarbageCrash, Loop, LoopCheck, LoopFunc, LoopSleep,
           LoopGoto, StopSteps, StopNotify, StopJoinProcessors, StopJoinLoop, ackVars
  <2> QED
    BY <2>1, <2>2, <2>3, <2>4
<1> QED
  BY <1>1, InvariantHolds, PTL DEF Spec, EffectOnceAndFinal

=============================================================================
