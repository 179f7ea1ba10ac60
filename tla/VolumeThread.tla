---------------------------- MODULE VolumeThread ----------------------------
(***************************************************************************)
(* The per-volume thread and the queue of user IRPs in front of it         *)
(* (lib/windrv/src/filter/volume_thread.rs), from the binding of a volume  *)
(* to a filter device to the unbinding (filter/manager.rs), with the       *)
(* dispatch routine that feeds the queue (filter/io.rs).                   *)
(*                                                                         *)
(* What an IRP reads or writes and what a sweep batch does is VolumeSweep. *)
(* Here a batch only answers whether more work is left.  The volume bound  *)
(* is one with a cipher.                                                   *)
(***************************************************************************)
EXTENDS Integers, Sequences

CONSTANTS
    Irps,           \* the READ and WRITE IRPs in play; each is sent again
                    \* and again
    MaxBurst,       \* MAX_IRP_BURST
    CreateMayFail,  \* whether PsCreateSystemThread may fail
    DelayIsEnough   \* whether a dispatch routine that has read the thread
                    \* pointer always enqueues before the teardown frees it

ASSUME ThreadAssumption ==
    /\ MaxBurst \in Nat \ {0}
    /\ CreateMayFail \in BOOLEAN /\ DelayIsEnough \in BOOLEAN

VARIABLES
    volume,    \* DeviceExtension::volume is set
    vthread,   \* DeviceExtension::vthread is set
    object,    \* the VolumeThread box: "none", "live", "freed"
    thread,    \* the system thread: "none", "failed", "running", "exited"
    shutdown,  \* VolumeThread::shutdown
    wake,      \* VolumeThread::wake, an auto-reset event
    queue,     \* VolumeThread::queue
    pc,        \* where thread_main stands, see PcKinds
    n,         \* IRPs serviced in this burst
    did,       \* whether this iteration found work
    ctl,       \* where bind / unbind_filter stands, see CtlKinds
    status,    \* status[i]: where IRP i is, see StatusKinds
    cancel     \* cancel[i]: Irp->Cancel

vars == <<volume, vthread, object, thread, shutdown, wake, queue, pc, n, did,
          ctl, status, cancel>>

extVars    == <<volume, vthread>>
threadVars == <<pc, n, did>>

(* "top"    about to look at the shutdown flag                             *)
(* "burst"  servicing the queue                                            *)
(* "sweep"  about to run one sweep batch                                   *)
(* "idle"   waiting for the event or the timeout                           *)
(* "drain"  cancelling what is left in the queue                           *)
PcKinds == {"top", "burst", "sweep", "idle", "drain"}

(* "binding" the volume is in the extension, its thread is not yet;        *)
(* "stopping", "dropping", "releasing" are the steps of unbind_filter.     *)
CtlKinds == {"unbound", "binding", "bound", "stopping", "dropping",
             "releasing"}

(* "held"   dispatched: the thread pointer is read, enqueue is to come     *)
(* "popped" taken from the queue and never completed                       *)
(* "raw"    passed to the lower device while a cipher volume is bound      *)
(* "passed" passed to the lower device of an unbound filter                *)
(* "stale"  dispatched, and the object behind the pointer is gone          *)
Completed   == {"done", "cancelled", "raw", "passed"}
StatusKinds == Completed \cup {"new", "held", "queued", "popped", "stale"}

TypeOK ==
    /\ volume \in BOOLEAN /\ vthread \in BOOLEAN
    /\ object \in {"none", "live", "freed"}
    /\ thread \in {"none", "failed", "running", "exited"}
    /\ shutdown \in BOOLEAN /\ wake \in BOOLEAN
    /\ queue \in Seq(Irps)
    /\ pc \in PcKinds
    /\ n \in 0 .. MaxBurst
    /\ did \in BOOLEAN
    /\ ctl \in CtlKinds
    /\ status \in [Irps -> StatusKinds]
    /\ cancel \in [Irps -> BOOLEAN]

Queued == {i \in Irps : status[i] = "queued"}
Held   == {i \in Irps : status[i] = "held"}

Init ==
    /\ volume = FALSE /\ vthread = FALSE
    /\ object = "none" /\ thread = "none"
    /\ shutdown = FALSE /\ wake = FALSE
    /\ queue = << >>
    /\ pc = "top" /\ n = 0 /\ did = FALSE
    /\ ctl = "unbound"
    /\ status = [i \in Irps |-> "new"]
    /\ cancel = [i \in Irps |-> FALSE]

-----------------------------------------------------------------------------
(***************************************************************************)
(* The dispatch routine, in the thread of whoever sends the IRP.           *)
(***************************************************************************)

(* handle_filter_irp reads the extension; the IRP goes down untouched when *)
(* there is no volume or no thread.                                        *)
Dispatch(i) ==
    /\ status[i] \in Completed \cup {"new"}
    /\ status' = [status EXCEPT
                    ![i] = CASE ~volume              -> "passed"
                             [] volume /\ ~vthread   -> "raw"
                             [] volume /\ vthread    -> "held"]
    /\ cancel' = [cancel EXCEPT ![i] = FALSE]
    /\ UNCHANGED <<extVars, object, thread, shutdown, wake, queue, threadVars,
                   ctl>>

(* Mutant: the shutdown flag is not looked at. *)
EnqueueIgnoresShutdown(i) ==
    /\ status[i] = "held"
    /\ status' = [status EXCEPT ![i] = "queued"]
    /\ queue' = Append(queue, i)
    /\ wake' = TRUE
    /\ UNCHANGED <<extVars, object, thread, shutdown, threadVars, ctl, cancel>>

(* enqueue: the check of the flag and the push are one critical section of *)
(* the queue's lock.                                                       *)
Enqueue(i) ==
    /\ status[i] = "held"
    /\ IF shutdown
       THEN /\ status' = [status EXCEPT ![i] = "cancelled"]
            /\ UNCHANGED <<queue, wake>>
       ELSE /\ status' = [status EXCEPT ![i] = "queued"]
            /\ queue' = Append(queue, i)
            /\ wake' = TRUE
    /\ UNCHANGED <<extVars, object, thread, shutdown, threadVars, ctl, cancel>>

(* IoCancelIrp: no cancel routine is set, so only the flag changes. *)
CancelIrp(i) ==
    /\ status[i] \in {"held", "queued"} /\ ~cancel[i]
    /\ cancel' = [cancel EXCEPT ![i] = TRUE]
    /\ UNCHANGED <<extVars, object, thread, shutdown, wake, queue, threadVars,
                   ctl, status>>

-----------------------------------------------------------------------------
(***************************************************************************)
(* thread_main.                                                            *)
(***************************************************************************)

(* Mutant: the flag is looked at only after an iteration without work. *)
LoopTopIgnoresShutdownWhenBusy ==
    /\ thread = "running" /\ pc = "top"
    /\ pc' = IF shutdown /\ ~did THEN "drain" ELSE "burst"
    /\ n' = 0
    /\ did' = FALSE
    /\ UNCHANGED <<extVars, object, thread, shutdown, wake, queue, ctl,
                   status, cancel>>

LoopTop ==
    /\ thread = "running" /\ pc = "top"
    /\ pc' = IF shutdown THEN "drain" ELSE "burst"
    /\ n' = 0
    /\ did' = FALSE
    /\ UNCHANGED <<extVars, object, thread, shutdown, wake, queue, ctl,
                   status, cancel>>

(* Mutant: a cancelled IRP is skipped without being completed. *)
ServiceIrpSkipsCancelled ==
    /\ thread = "running" /\ pc = "burst" /\ n < MaxBurst /\ queue # << >>
    /\ queue' = Tail(queue)
    /\ status' = [status EXCEPT
                    ![Head(queue)] = IF cancel[Head(queue)]
                                     THEN "popped" ELSE "done"]
    /\ n' = n + 1
    /\ did' = TRUE
    /\ UNCHANGED <<extVars, object, thread, shutdown, wake, pc, ctl, cancel>>

(* Mutant: the burst is one IRP too long. *)
ServiceIrpOneTooMany ==
    /\ thread = "running" /\ pc = "burst" /\ n <= MaxBurst /\ queue # << >>
    /\ queue' = Tail(queue)
    /\ status' = [status EXCEPT
                    ![Head(queue)] = IF cancel[Head(queue)]
                                     THEN "cancelled" ELSE "done"]
    /\ n' = n + 1
    /\ did' = TRUE
    /\ UNCHANGED <<extVars, object, thread, shutdown, wake, pc, ctl, cancel>>

(* Mutant: the burst is not bounded. *)
ServiceIrpUncounted ==
    /\ thread = "running" /\ pc = "burst" /\ queue # << >>
    /\ queue' = Tail(queue)
    /\ status' = [status EXCEPT
                    ![Head(queue)] = IF cancel[Head(queue)]
                                     THEN "cancelled" ELSE "done"]
    /\ did' = TRUE
    /\ UNCHANGED <<extVars, object, thread, shutdown, wake, pc, n, ctl,
                   cancel>>

(* pop_front, claim_cancelled, and process_irp, which always completes. *)
ServiceIrp ==
    /\ thread = "running" /\ pc = "burst" /\ n < MaxBurst /\ queue # << >>
    /\ queue' = Tail(queue)
    /\ status' = [status EXCEPT
                    ![Head(queue)] = IF cancel[Head(queue)]
                                     THEN "cancelled" ELSE "done"]
    /\ n' = n + 1
    /\ did' = TRUE
    /\ UNCHANGED <<extVars, object, thread, shutdown, wake, pc, ctl, cancel>>

BurstEnds ==
    /\ thread = "running" /\ pc = "burst"
    /\ n = MaxBurst \/ queue = << >>
    /\ pc' = "sweep"
    /\ UNCHANGED <<extVars, object, thread, shutdown, wake, queue, n, did, ctl,
                   status, cancel>>

(* sweep_step: Ok(true) means that more work is left; Ok(false) and Err    *)
(* leave `did' as it is.                                                   *)
SweepStep ==
    /\ thread = "running" /\ pc = "sweep"
    /\ did' \in {did, TRUE}
    /\ pc' = IF did' THEN "top" ELSE "idle"
    /\ UNCHANGED <<extVars, object, thread, shutdown, wake, queue, n, ctl,
                   status, cancel>>

(* The event is signalled, or 500 ms have passed. *)
WaitReturns ==
    /\ thread = "running" /\ pc = "idle"
    /\ wake' = FALSE
    /\ pc' = "top"
    /\ UNCHANGED <<extVars, object, thread, shutdown, queue, n, did, ctl,
                   status, cancel>>

DrainIrp ==
    /\ thread = "running" /\ pc = "drain" /\ queue # << >>
    /\ queue' = Tail(queue)
    /\ status' = [status EXCEPT ![Head(queue)] = "cancelled"]
    /\ UNCHANGED <<extVars, object, thread, shutdown, wake, threadVars, ctl,
                   cancel>>

ThreadExits ==
    /\ thread = "running" /\ pc = "drain" /\ queue = << >>
    /\ thread' = "exited"
    /\ UNCHANGED <<extVars, object, shutdown, wake, queue, threadVars, ctl,
                   status, cancel>>

-----------------------------------------------------------------------------
(***************************************************************************)
(* Binding and unbinding, in the thread of the control request.            *)
(***************************************************************************)

(* filter_bind_volume sets the extension's volume ...                      *)
BindVolume ==
    /\ ctl = "unbound"
    /\ volume' = TRUE
    /\ ctl' = "binding"
    /\ UNCHANGED <<vthread, object, thread, shutdown, wake, queue, threadVars,
                   status, cancel>>

(* ... and then bind starts the thread and publishes the pointer.          *)
StartThread ==
    /\ ctl = "binding"
    /\ object' = "live"
    /\ thread' \in {"running"} \cup (IF CreateMayFail THEN {"failed"} ELSE {})
    /\ shutdown' = FALSE /\ wake' = FALSE /\ queue' = << >>
    /\ pc' = "top" /\ n' = 0 /\ did' = FALSE
    /\ vthread' = TRUE
    /\ ctl' = "bound"
    /\ UNCHANGED <<volume, status, cancel>>

(* unbind_filter: VolumeThread::stop raises the flag and wakes the thread, *)
Stop ==
    /\ ctl = "bound"
    /\ shutdown' = TRUE /\ wake' = TRUE
    /\ ctl' = "stopping"
    /\ UNCHANGED <<extVars, object, thread, queue, threadVars, status, cancel>>

(* Mutant: stop does not wait for the thread. *)
ClearPointerWithoutJoin ==
    /\ ctl = "stopping"
    /\ vthread' = FALSE
    /\ ctl' = "dropping"
    /\ UNCHANGED <<volume, object, thread, shutdown, wake, queue, threadVars,
                   status, cancel>>

(* waits for it to exit, if there is one, clears the pointer,              *)
ClearPointer ==
    /\ ctl = "stopping" /\ thread # "running"
    /\ vthread' = FALSE
    /\ ctl' = "dropping"
    /\ UNCHANGED <<volume, object, thread, shutdown, wake, queue, threadVars,
                   status, cancel>>

(* drops the box: Drop cancels the IRPs that are still queued,             *)
DropThread ==
    /\ ctl = "dropping"
    /\ DelayIsEnough => Held = {}
    /\ status' = [i \in Irps |-> CASE i \in Queued -> "cancelled"
                                   [] i \in Held   -> "stale"
                                   [] OTHER        -> status[i]]
    /\ queue' = << >>
    /\ object' = "freed"
    /\ ctl' = "releasing"
    /\ UNCHANGED <<extVars, thread, shutdown, wake, threadVars, cancel>>

(* and releases the volume: the filter is a pass-through again.            *)
ReleaseVolume ==
    /\ ctl = "releasing"
    /\ volume' = FALSE
    /\ ctl' = "unbound"
    /\ UNCHANGED <<vthread, object, thread, shutdown, wake, queue, threadVars,
                   status, cancel>>

-----------------------------------------------------------------------------
ThreadMain ==
    \/ LoopTop
    \/ ServiceIrp
    \/ BurstEnds
    \/ SweepStep
    \/ WaitReturns
    \/ DrainIrp
    \/ ThreadExits

Control ==
    \/ BindVolume
    \/ StartThread
    \/ Stop
    \/ ClearPointer
    \/ DropThread
    \/ ReleaseVolume

Next ==
    \/ \E i \in Irps : Dispatch(i) \/ Enqueue(i) \/ CancelIrp(i)
    \/ ThreadMain
    \/ Control

Spec == Init /\ [][Next]_vars

(* The scheduler runs every thread that can run: the volume thread, the    *)
(* dispatch routines, and a bind or an unbind once begun.  Nobody has to   *)
(* send IRPs, bind or unbind.                                              *)
Fairness ==
    /\ WF_vars(ThreadMain)
    /\ \A i \in Irps : WF_vars(Enqueue(i))
    /\ WF_vars(StartThread)
    /\ WF_vars(ClearPointer) /\ WF_vars(DropThread) /\ WF_vars(ReleaseVolume)

FairSpec == Spec /\ Fairness

-----------------------------------------------------------------------------
(* No IRP is left in a queue that nobody services any more: not in that of *)
(* an object that is gone, nor in that of a thread that has drained it and *)
(* exited while dispatch routines that read the pointer earlier still      *)
(* arrive at enqueue.                                                      *)
NothingLeftBehind ==
    /\ object # "live" => Queued = {}
    /\ thread = "exited" => Queued = {}

(* The system thread never runs on an object that has been freed.          *)
ObjectOutlivesThread == thread = "running" => object = "live"

(* Unless the system thread could not be created, every queued IRP is      *)
(* completed, whatever the sweep, the cancellations and the teardown do.   *)
QueuedIrpCompletes ==
    \A i \in Irps :
        status[i] = "queued" ~> (status[i] \in Completed \/ thread = "failed")

(* A running thread comes to its sweep again and again however many IRPs   *)
(* keep arriving, unless it is told to stop.                               *)
SweepNotStarved == thread = "running" ~> (pc = "sweep" \/ shutdown)

(* An unbind that has begun comes to its end, even while the sweep always  *)
(* has more work and IRPs keep arriving.                                   *)
StopReturns == ctl = "stopping" ~> ctl = "unbound"

(* While a cipher volume is bound, no IRP goes down without passing        *)
(* through its thread (handle_filter_irp's reading of a null vthread).     *)
NoRawIoWhileBound == \A i \in Irps : status[i] # "raw"

=============================================================================
