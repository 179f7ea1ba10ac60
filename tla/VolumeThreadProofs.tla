------------------------- MODULE VolumeThreadProofs -------------------------
(***************************************************************************)
(* Theorems about VolumeThread that hold for every set of IRPs, every      *)
(* MAX_IRP_BURST, with or without a failing PsCreateSystemThread, and      *)
(* whether or not the delay of the teardown is long enough.                *)
(***************************************************************************)
EXTENDS VolumeThread, TLAPS

-----------------------------------------------------------------------------
(***************************************************************************)
(* The inductive invariant.                                                *)
(***************************************************************************)

(* What bind and unbind_filter have set up and torn down so far.           *)
ControlInv ==
    /\ volume <=> ctl # "unbound"
    /\ vthread <=> ctl \in {"bound", "stopping"}
    /\ object = "live" <=> ctl \in {"bound", "stopping", "dropping"}
    /\ thread = "running" => ctl \in {"bound", "stopping"}

(* The thread leaves its loop only because it has seen the flag, and the   *)
(* flag stays up until the next thread is started.                         *)
FlagInv ==
    /\ ctl \in {"stopping", "dropping"} => shutdown
    /\ thread = "exited" => shutdown
    /\ thread = "running" /\ pc = "drain" => shutdown

(* Every queued IRP is an element of the queue that exists, and a dispatch *)
(* routine that is on its way to enqueue finds the object alive.           *)
QueueInv ==
    /\ \A i \in Irps :
          status[i] = "queued" => \E k \in 1 .. Len(queue) : queue[k] = i
    /\ Held # {} => object = "live"

ThreadInv ==
    /\ TypeOK
    /\ ControlInv
    /\ FlagInv
    /\ QueueInv
    /\ NothingLeftBehind

-----------------------------------------------------------------------------
(***************************************************************************)
(* Sequences.                                                              *)
(***************************************************************************)

(* push_back loses nothing that was in the queue. *)
LEMMA AppendKeeps ==
    ASSUME NEW q \in Seq(Irps), NEW e \in Irps, NEW i,
           i = e \/ \E k \in 1 .. Len(q) : q[k] = i
    PROVE  /\ Append(q, e) \in Seq(Irps)
           /\ \E k \in 1 .. Len(Append(q, e)) : Append(q, e)[k] = i
<1>1. /\ Append(q, e) \in Seq(Irps)
      /\ Len(Append(q, e)) = Len(q) + 1
      /\ Len(q) \in Nat
      /\ Append(q, e)[Len(q) + 1] = e
      /\ \A k \in 1 .. Len(q) : Append(q, e)[k] = q[k]
  OBVIOUS
<1> QED BY <1>1

(* pop_front loses the head and nothing else. *)
LEMMA TailKeeps ==
    ASSUME NEW q \in Seq(Irps), q # << >>
    PROVE  /\ Head(q) \in Irps
           /\ Tail(q) \in Seq(Irps)
           /\ \A i : i # Head(q) /\ (\E k \in 1 .. Len(q) : q[k] = i)
                        => \E k \in 1 .. Len(Tail(q)) : Tail(q)[k] = i
<1>1. /\ Head(q) \in Irps /\ Head(q) = q[1]
      /\ Tail(q) \in Seq(Irps)
      /\ Len(Tail(q)) = Len(q) - 1
      /\ Len(q) \in Nat
      /\ \A k \in 1 .. Len(q) - 1 : Tail(q)[k] = q[k + 1]
  OBVIOUS
<1>2. ASSUME NEW i, i # Head(q), NEW k \in 1 .. Len(q), q[k] = i
      PROVE  \E j \in 1 .. Len(Tail(q)) : Tail(q)[j] = i
  <2>1. k # 1
    BY <1>1, <1>2
  <2>2. k - 1 \in 1 .. Len(Tail(q)) /\ Tail(q)[k - 1] = q[k]
    BY <1>1, <2>1
  <2> QED BY <1>2, <2>2
<1> QED BY <1>1, <1>2

-----------------------------------------------------------------------------
(***************************************************************************)
(* The conjuncts of the invariant, one lemma each.                         *)
(***************************************************************************)

LEMMA ThreadInvInit == Init => ThreadInv
<1> SUFFICES ASSUME Init PROVE ThreadInv
  OBVIOUS
<1>1. TypeOK
  <2>1. 0 \in 0 .. MaxBurst
    BY ThreadAssumption
  <2>2. queue \in Seq(Irps)
    BY DEF Init
  <2>3. status \in [Irps -> StatusKinds]
    BY DEF Init, StatusKinds
  <2>4. cancel \in [Irps -> BOOLEAN]
    BY DEF Init
  <2> QED BY <2>1, <2>2, <2>3, <2>4 DEF Init, TypeOK, PcKinds, CtlKinds
<1>2. ControlInv /\ FlagInv
  BY DEF Init, ControlInv, FlagInv
<1>3. Queued = {} /\ Held = {}
  BY DEF Init, Queued, Held
<1>4. QueueInv
  BY <1>3 DEF Init, QueueInv, Queued
<1> QED BY <1>1, <1>2, <1>3, <1>4 DEF ThreadInv, NothingLeftBehind

LEMMA TypeStep == TypeOK /\ [Next]_vars => TypeOK'
<1> SUFFICES ASSUME TypeOK, [Next]_vars PROVE TypeOK'
  OBVIOUS
<1> USE DEF extVars, threadVars
<1>1. ASSUME NEW i \in Irps, Dispatch(i) PROVE TypeOK'
  <2>1. (CASE ~volume -> "passed" [] volume /\ ~vthread -> "raw"
           [] volume /\ vthread -> "held") \in StatusKinds
    BY DEF TypeOK, StatusKinds, Completed
  <2> QED BY <1>1, <2>1 DEF TypeOK, Dispatch
<1>2. ASSUME NEW i \in Irps, Enqueue(i) PROVE TypeOK'
  <2>1. queue' \in Seq(Irps)
    BY <1>2 DEF TypeOK, Enqueue
  <2>2. status' \in [Irps -> StatusKinds]
    BY <1>2 DEF TypeOK, Enqueue, StatusKinds, Completed
  <2>3. wake' \in BOOLEAN
    BY <1>2 DEF TypeOK, Enqueue
  <2> QED BY <1>2, <2>1, <2>2, <2>3 DEF TypeOK, Enqueue
<1>3. ASSUME NEW i \in Irps, CancelIrp(i) PROVE TypeOK'
  BY <1>3 DEF TypeOK, CancelIrp
<1>4. CASE LoopTop
  <2>1. 0 \in 0 .. MaxBurst
    BY ThreadAssumption
  <2> QED BY <1>4, <2>1 DEF TypeOK, LoopTop, PcKinds
<1>5. CASE ServiceIrp
  <2>1. queue' \in Seq(Irps) /\ Head(queue) \in Irps
    BY <1>5, TailKeeps DEF TypeOK, ServiceIrp
  <2>2. n' \in 0 .. MaxBurst
    BY <1>5, ThreadAssumption DEF TypeOK, ServiceIrp
  <2>3. status' \in [Irps -> StatusKinds]
    BY <1>5, <2>1 DEF TypeOK, ServiceIrp, StatusKinds, Completed
  <2> QED BY <1>5, <2>1, <2>2, <2>3 DEF TypeOK, ServiceIrp
<1>6. CASE BurstEnds
  BY <1>6 DEF TypeOK, BurstEnds, PcKinds
<1>7. CASE SweepStep
  BY <1>7 DEF TypeOK, SweepStep, PcKinds
<1>8. CASE WaitReturns
  BY <1>8 DEF TypeOK, WaitReturns, PcKinds
<1>9. CASE DrainIrp
  <2>1. queue' \in Seq(Irps) /\ Head(queue) \in Irps
    BY <1>9, TailKeeps DEF TypeOK, DrainIrp
  <2> QED BY <1>9, <2>1 DEF TypeOK, DrainIrp, StatusKinds, Completed
<1>10. CASE ThreadExits
  BY <1>10 DEF TypeOK, ThreadExits
<1>11. CASE BindVolume
  BY <1>11 DEF TypeOK, BindVolume, CtlKinds
<1>12. CASE StartThread
  <2>1. 0 \in 0 .. MaxBurst
    BY ThreadAssumption
  <2>2. queue' \in Seq(Irps)
    BY <1>12 DEF StartThread
  <2>3. thread' \in {"none", "failed", "running", "exited"}
    BY <1>12 DEF StartThread
  <2> QED BY <1>12, <2>1, <2>2, <2>3 DEF TypeOK, StartThread, CtlKinds, PcKinds
<1>13. CASE Stop
  BY <1>13 DEF TypeOK, Stop, CtlKinds
<1>14. CASE ClearPointer
  BY <1>14 DEF TypeOK, ClearPointer, CtlKinds
<1>15. CASE DropThread
  BY <1>15 DEF TypeOK, DropThread, CtlKinds, StatusKinds, Completed
<1>16. CASE ReleaseVolume
  BY <1>16 DEF TypeOK, ReleaseVolume, CtlKinds
<1>17. CASE UNCHANGED vars
  BY <1>17 DEF TypeOK, vars
<1> QED BY <1>1, <1>2, <1>3, <1>4, <1>5, <1>6, <1>7, <1>8, <1>9, <1>10, <1>11,
           <1>12, <1>13, <1>14, <1>15, <1>16, <1>17
        DEF Next, ThreadMain, Control

LEMMA ControlStep ==
    TypeOK /\ ControlInv /\ [Next]_vars => ControlInv'
<1> SUFFICES ASSUME TypeOK, ControlInv, [Next]_vars PROVE ControlInv'
  OBVIOUS
<1> USE DEF extVars, threadVars, TypeOK, CtlKinds
<1>1. ASSUME NEW i \in Irps, Dispatch(i) \/ Enqueue(i) \/ CancelIrp(i)
      PROVE  ControlInv'
  BY <1>1 DEF ControlInv, Dispatch, Enqueue, CancelIrp
<1>2. CASE LoopTop \/ ServiceIrp \/ BurstEnds \/ SweepStep \/ WaitReturns
           \/ DrainIrp
  BY <1>2 DEF ControlInv, LoopTop, ServiceIrp, BurstEnds, SweepStep,
     WaitReturns, DrainIrp
<1>3. CASE ThreadExits
  BY <1>3 DEF ControlInv, ThreadExits
<1>4. CASE BindVolume
  BY <1>4 DEF ControlInv, BindVolume
<1>5. CASE StartThread
  BY <1>5 DEF ControlInv, StartThread
<1>6. CASE Stop
  BY <1>6 DEF ControlInv, Stop
<1>7. CASE ClearPointer
  BY <1>7 DEF ControlInv, ClearPointer
<1>8. CASE DropThread
  BY <1>8 DEF ControlInv, DropThread
<1>9. CASE ReleaseVolume
  BY <1>9 DEF ControlInv, ReleaseVolume
<1>10. CASE UNCHANGED vars
  BY <1>10 DEF ControlInv, vars
<1> QED BY <1>1, <1>2, <1>3, <1>4, <1>5, <1>6, <1>7, <1>8, <1>9, <1>10
        DEF Next, ThreadMain, Control

LEMMA FlagStep ==
    TypeOK /\ ControlInv /\ FlagInv /\ [Next]_vars => FlagInv'
<1> SUFFICES ASSUME TypeOK, ControlInv, FlagInv, [Next]_vars PROVE FlagInv'
  OBVIOUS
<1> USE DEF extVars, threadVars, TypeOK, CtlKinds, FlagInv
<1>1. ASSUME NEW i \in Irps, Dispatch(i) \/ Enqueue(i) \/ CancelIrp(i)
      PROVE  FlagInv'
  BY <1>1 DEF Dispatch, Enqueue, CancelIrp
<1>2. CASE LoopTop
  BY <1>2 DEF LoopTop
<1>3. CASE ServiceIrp \/ BurstEnds \/ SweepStep \/ WaitReturns \/ DrainIrp
  BY <1>3 DEF ServiceIrp, BurstEnds, SweepStep, WaitReturns, DrainIrp
<1>4. CASE ThreadExits
  BY <1>4 DEF ThreadExits
<1>5. CASE BindVolume \/ ReleaseVolume \/ DropThread
  BY <1>5 DEF BindVolume, ReleaseVolume, DropThread
<1>6. CASE StartThread
  BY <1>6 DEF StartThread
<1>7. CASE Stop
  BY <1>7 DEF Stop
<1>8. CASE ClearPointer
  BY <1>8 DEF ClearPointer
<1>9. CASE UNCHANGED vars
  BY <1>9 DEF vars
<1> QED BY <1>1, <1>2, <1>3, <1>4, <1>5, <1>6, <1>7, <1>8, <1>9
        DEF Next, ThreadMain, Control

LEMMA QueueStep ==
    TypeOK /\ ControlInv /\ QueueInv /\ NothingLeftBehind /\ [Next]_vars
        => QueueInv'
<1> SUFFICES ASSUME TypeOK, ControlInv, QueueInv, NothingLeftBehind,
                    [Next]_vars
             PROVE  QueueInv'
  OBVIOUS
<1> USE DEF extVars, threadVars, QueueInv, Held
<1>1. ASSUME NEW i \in Irps, Dispatch(i) PROVE QueueInv'
  <2>1. status'[i] # "queued" /\ (status'[i] = "held" => object = "live")
    BY <1>1 DEF Dispatch, TypeOK, ControlInv
  <2>2. \A j \in Irps : j # i => status'[j] = status[j]
    BY <1>1 DEF Dispatch, TypeOK
  <2> QED BY <1>1, <2>1, <2>2 DEF Dispatch
<1>2. ASSUME NEW i \in Irps, Enqueue(i) PROVE QueueInv'
  <2>1. \A j \in Irps : j # i => status'[j] = status[j]
    BY <1>2 DEF Enqueue, TypeOK
  <2>2. status'[i] # "held" /\ object' = object
    BY <1>2 DEF Enqueue, TypeOK
  <2>3. CASE shutdown
    <3>1. queue' = queue /\ status'[i] # "queued"
      BY <1>2, <2>3 DEF Enqueue, TypeOK
    <3> QED BY <2>1, <2>2, <3>1
  <2>4. CASE ~shutdown
    <3>1. queue' = Append(queue, i) /\ queue \in Seq(Irps)
      BY <1>2, <2>4 DEF Enqueue, TypeOK
    <3>2. ASSUME NEW j \in Irps, status'[j] = "queued"
          PROVE  \E k \in 1 .. Len(queue') : queue'[k] = j
      <4>1. j = i \/ \E k \in 1 .. Len(queue) : queue[k] = j
        BY <2>1, <3>2
      <4> QED BY <3>1, <4>1, AppendKeeps
    <3> QED BY <2>1, <2>2, <3>2
  <2> QED BY <2>3, <2>4
<1>3. ASSUME NEW i \in Irps, CancelIrp(i) PROVE QueueInv'
  BY <1>3 DEF CancelIrp
<1>4. CASE LoopTop \/ BurstEnds \/ SweepStep \/ WaitReturns \/ ThreadExits
  BY <1>4 DEF LoopTop, BurstEnds, SweepStep, WaitReturns, ThreadExits
<1>5. CASE ServiceIrp \/ DrainIrp
  <2>1. /\ queue \in Seq(Irps) /\ queue # << >>
        /\ queue' = Tail(queue) /\ object' = object
    BY <1>5 DEF ServiceIrp, DrainIrp, TypeOK
  <2>2. Head(queue) \in Irps
    BY <2>1, TailKeeps
  <2>3. /\ \A j \in Irps : j # Head(queue) => status'[j] = status[j]
        /\ status'[Head(queue)] \notin {"queued", "held"}
    BY <1>5, <2>2 DEF ServiceIrp, DrainIrp, TypeOK
  <2>4. ASSUME NEW j \in Irps, status'[j] = "queued"
        PROVE  \E k \in 1 .. Len(queue') : queue'[k] = j
    <3>1. j # Head(queue) /\ \E k \in 1 .. Len(queue) : queue[k] = j
      BY <2>2, <2>3, <2>4
    <3> QED BY <2>1, <3>1, TailKeeps
  <2> QED BY <2>1, <2>3, <2>4
<1>6. CASE BindVolume \/ Stop \/ ClearPointer \/ ReleaseVolume
  BY <1>6 DEF BindVolume, Stop, ClearPointer, ReleaseVolume
<1>7. CASE StartThread
  <2>1. Queued = {}
    BY <1>7 DEF StartThread, ControlInv, NothingLeftBehind
  <2> QED BY <1>7, <2>1 DEF StartThread, Queued
<1>8. CASE DropThread
  <2>1. \A i \in Irps : status'[i] \notin {"queued", "held"}
    BY <1>8 DEF DropThread, Queued
  <2> QED BY <2>1
<1>9. CASE UNCHANGED vars
  BY <1>9 DEF vars
<1> QED BY <1>1, <1>2, <1>3, <1>4, <1>5, <1>6, <1>7, <1>8, <1>9
        DEF Next, ThreadMain, Control

(* An empty queue means that no IRP is queued. *)
LEMMA EmptyQueue ==
    ASSUME QueueInv, queue = << >>
    PROVE  Queued = {}
BY DEF QueueInv, Queued

LEMMA LeftBehindStep ==
    ThreadInv /\ [Next]_vars => NothingLeftBehind'
<1> SUFFICES ASSUME ThreadInv, [Next]_vars PROVE NothingLeftBehind'
  OBVIOUS
<1> USE DEF extVars, threadVars, NothingLeftBehind, Queued, ThreadInv
<1>1. ASSUME NEW i \in Irps, Dispatch(i) PROVE NothingLeftBehind'
  <2>1. status'[i] # "queued"
    BY <1>1 DEF Dispatch, TypeOK
  <2>2. \A j \in Irps : j # i => status'[j] = status[j]
    BY <1>1 DEF Dispatch, TypeOK
  <2>3. Queued' \subseteq Queued
    BY <2>1, <2>2
  <2> QED BY <1>1, <2>3 DEF Dispatch
<1>2. ASSUME NEW i \in Irps, Enqueue(i) PROVE NothingLeftBehind'
  <2>1. object' = object /\ thread' = thread
    BY <1>2 DEF Enqueue
  <2>2. CASE shutdown
    <3>1. Queued' \subseteq Queued
      BY <1>2, <2>2 DEF Enqueue, TypeOK
    <3> QED BY <2>1, <3>1
  <2>3. CASE ~shutdown
    <3>1. object = "live"
      BY <1>2 DEF Enqueue, QueueInv, Held
    <3>2. thread # "exited"
      BY <2>3 DEF FlagInv
    <3> QED BY <2>1, <3>1, <3>2
  <2> QED BY <2>2, <2>3
<1>3. ASSUME NEW i \in Irps, CancelIrp(i) PROVE NothingLeftBehind'
  BY <1>3 DEF CancelIrp
<1>4. CASE LoopTop \/ BurstEnds \/ SweepStep \/ WaitReturns
  BY <1>4 DEF LoopTop, BurstEnds, SweepStep, WaitReturns
<1>5. CASE ServiceIrp \/ DrainIrp
  <2>1. object' = object /\ thread' = thread /\ thread = "running"
    BY <1>5 DEF ServiceIrp, DrainIrp
  <2>2. object = "live"
    BY <2>1 DEF ControlInv, TypeOK, CtlKinds
  <2> QED BY <2>1, <2>2
<1>6. CASE ThreadExits
  <2>1. Queued = {}
    BY <1>6, EmptyQueue DEF ThreadExits
  <2> QED BY <1>6, <2>1 DEF ThreadExits
<1>7. CASE BindVolume \/ Stop \/ ClearPointer \/ ReleaseVolume
  BY <1>7 DEF BindVolume, Stop, ClearPointer, ReleaseVolume
<1>8. CASE StartThread
  BY <1>8 DEF StartThread
<1>9. CASE DropThread
  BY <1>9 DEF DropThread, Held
<1>10. CASE UNCHANGED vars
  BY <1>10 DEF vars
<1> QED BY <1>1, <1>2, <1>3, <1>4, <1>5, <1>6, <1>7, <1>8, <1>9, <1>10
        DEF Next, ThreadMain, Control

LEMMA ThreadInvStep == ThreadInv /\ [Next]_vars => ThreadInv'
<1> SUFFICES ASSUME ThreadInv, [Next]_vars PROVE ThreadInv'
  OBVIOUS
<1>1. TypeOK' BY TypeStep DEF ThreadInv
<1>2. ControlInv' BY ControlStep DEF ThreadInv
<1>3. FlagInv' BY FlagStep DEF ThreadInv
<1>4. QueueInv' BY QueueStep DEF ThreadInv
<1>5. NothingLeftBehind' BY LeftBehindStep
<1> QED BY <1>1, <1>2, <1>3, <1>4, <1>5 DEF ThreadInv

-----------------------------------------------------------------------------
(***************************************************************************)
(* The theorems.                                                           *)
(***************************************************************************)

(* Every variable of the thread, its queue and its filter device keeps its *)
(* type; a burst never exceeds MAX_IRP_BURST (thread_main).                *)
THEOREM ThreadTypeCorrect == Spec => []TypeOK
<1>1. Init => TypeOK
  BY ThreadInvInit DEF ThreadInv
<1> QED BY <1>1, TypeStep, PTL DEF Spec

(* No IRP stays in the queue of a thread that has exited, nor in that of   *)
(* an object that is gone: enqueue looks at the flag under the queue's     *)
(* lock, and the thread drains the queue after it has seen the flag, so    *)
(* whatever enqueue lets in before the flag is drained and nothing comes   *)
(* in after it.                                                            *)
THEOREM NoIrpLeftBehind == Spec => []NothingLeftBehind
<1>1. ThreadInv => NothingLeftBehind
  BY DEF ThreadInv
<1> QED BY <1>1, ThreadInvInit, ThreadInvStep, PTL DEF Spec

(* stop joins the thread before unbind_filter drops the box: thread_main   *)
(* never touches a VolumeThread that has been freed.                       *)
THEOREM ThreadInsideObject == Spec => []ObjectOutlivesThread
<1>1. ThreadInv => ObjectOutlivesThread
  BY DEF ThreadInv, ControlInv, ObjectOutlivesThread
<1> QED BY <1>1, ThreadInvInit, ThreadInvStep, PTL DEF Spec

=============================================================================
