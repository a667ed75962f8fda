--------------------------- MODULE ExecutionEngine ---------------------------
(***************************************************************************)
(* ExecutionEngine::executeFrame() driven by EventListener's loop: one     *)
(* frame drains the deferred actions, wakes expired sleepers, picks a      *)
(* goroutine, runs one time slice of it and handles the slice's result.    *)
(* Between frames the loop blocks in a poll of at most 10 ms.              *)
(*                                                                         *)
(* Everything on the scheduler's state happens on the VM thread except     *)
(* schedule(), which input and timer threads call: a push under            *)
(* deferred_mutex_, then, separately, a write to the eventfd.              *)
(***************************************************************************)
EXTENDS Scheduler

CONSTANTS
    Updater,       \* goroutines with update_interval_ms > 0
    Producer,      \* threads other than the VM thread that defer a trigger
    SliceWait,     \* what a running body may block on: a subset of Blocking
    Calls,         \* the host calls script bodies make: a subset of HostCalls
    MaxTriggers    \* bound: hotkey triggers in a behaviour

Blocking == {"SLEEP", "CHANNEL_RECV", "TIMER_WAIT"}
HostCalls == {"trigger", "stop", "resume", "remove", "removeSelf", "exit"}

ASSUME EngineAssumption ==
    /\ Updater \subseteq Goroutine \ Hotkey
    /\ SliceWait \subseteq Blocking
    /\ Calls \subseteq HostCalls
    /\ MaxTriggers \in Nat

VARIABLES
    pc,        \* where the VM thread is
    sliceDone, \* this frame has already run its goroutine
    batch,     \* the actions drainDeferredCallbacks() moved out
    scanAt,    \* the queue pickNext() is looking at ...
    scanLeft,  \* ... and how many of its entries it may still pop
    pushed,    \* producers between the push and the write of schedule()
    fired      \* triggers so far (bounded by MaxTriggers)

scanVars == <<scanAt, scanLeft>>
frameVars == <<pc, sliceDone, batch, scanVars>>
outsideVars == <<pushed, fired>>
engineVars == <<frameVars, outsideVars>>
vars == <<schedVars, engineVars>>

\* Seeded fault: the fiber's reason cast instead of mapped.
ReasonCast(w) == w

\* toSchedulerReason()
ReasonOf(w) == CASE w = "SLEEP" -> "SleepWait"
                 [] w = "CHANNEL_RECV" -> "ChannelWait"
                 [] w = "TIMER_WAIT" -> "TimerWait"
                 [] w = "HOTKEY_WAIT" -> "HotkeyWait"
                 [] w = "NONE" -> "None"

Goto(l) == pc' = l

-----------------------------------------------------------------------------
(* Script set-up: the main script registers hotkeys and spawns goroutines   *)
(* between frames; a running body may do the same.                          *)

ScriptRunning == pc \in {"poll", "slice"}

RegisterHotkey(h) ==
    /\ ScriptRunning /\ h \in Hotkey
    /\ CreatePersistentHotkey(h)
    /\ UNCHANGED <<wait, due, retrigger, spent, current, deferred, wakeFd, history,
                   engineVars>>

SpawnGoroutine(g) ==
    /\ ScriptRunning /\ g \notin Hotkey
    /\ Spawn(g)
    /\ UNCHANGED <<reason, wait, due, persistent, retrigger, fiberVars, current, deferred,
                   wakeFd, history, engineVars>>

-----------------------------------------------------------------------------
(* The world outside the VM thread.                                         *)

\* deferToVM() from an input thread: the lambda holds the goroutine id.
ProducerPush(t, h) ==
    /\ t \notin pushed /\ fired < MaxTriggers
    /\ h \in Hotkey /\ state[h] # "Unborn"
    /\ Defer("NORMAL", [op |-> "wake", g |-> h])
    /\ pushed' = pushed \cup {t}
    /\ fired' = fired + 1
    /\ UNCHANGED <<goroutineVars, queue, current, wakeFd, frameVars>>

ProducerNotify(t) ==
    /\ t \in pushed
    /\ wakeFd' = TRUE
    /\ pushed' = pushed \ {t}
    /\ UNCHANGED <<goroutineVars, queue, current, deferred, frameVars, fired>>

\* Time passes the deadline of a sleeping goroutine.
DeadlinePasses(g) ==
    /\ state[g] = "Suspended" /\ wait[g] = "SLEEP" /\ g \notin due
    /\ due' = due \cup {g}
    /\ UNCHANGED <<state, reason, wait, persistent, retrigger, fiberVars, queue, current,
                   deferred, wakeFd, history, engineVars>>

\* An input event polled by the loop itself: the callback is on the VM thread
\* and wakes the hotkey at once; its isHotkeyPending() pre-check drops what
\* wakeHotkey() would drop.
PolledTrigger(h) ==
    /\ pc = "poll" /\ fired < MaxTriggers /\ h \in Hotkey \cap Registered
    /\ WakeHotkey(h)
    /\ fired' = fired + 1
    /\ UNCHANGED <<due, persistent, current, deferred, frameVars, pushed>>

-----------------------------------------------------------------------------
(* From the poll to the goroutine's slice.                                  *)

\* PollEvents(10) returns, on an event or on its timeout, and the loop reads
\* the eventfd.
PollReturns ==
    /\ pc = "poll"
    /\ wakeFd' = FALSE /\ Goto("frame")
    /\ UNCHANGED <<goroutineVars, queue, current, deferred, sliceDone, batch, scanVars,
                   outsideVars>>

\* The TIMER_FIRE handler, run by event_queue_->processAll() at the start of
\* a frame: it schedules the wake-up.
TimerFires(g) ==
    /\ pc = "frame" /\ state[g] = "Suspended" /\ wait[g] = "TIMER_WAIT"
    /\ \A i \in DOMAIN deferred["HOTKEY"] : deferred["HOTKEY"][i].g # g
    /\ Defer("HOTKEY", [op |-> "fire", g |-> g])
    /\ wakeFd' = TRUE
    /\ UNCHANGED <<goroutineVars, queue, current, engineVars>>

\* drainDeferredCallbacks() reads the eventfd first ...
BeginDrain ==
    /\ pc \in {"frame", "drain"}
    /\ wakeFd' = FALSE
    /\ sliceDone' = (pc = "drain")
    /\ Goto("swap")
    /\ UNCHANGED <<goroutineVars, queue, current, deferred, batch, scanVars, outsideVars>>

\* ... and then moves the queues out under deferred_mutex_, hotkey first.
TakeDeferred ==
    /\ pc = "swap"
    /\ batch' = deferred["HOTKEY"] \o deferred["NORMAL"]
    /\ deferred' = [p \in {"HOTKEY", "NORMAL"} |-> <<>>]
    /\ Goto("batch")
    /\ UNCHANGED <<goroutineVars, queue, current, wakeFd, sliceDone, scanVars, outsideVars>>

\* The lambda of handleHotkeyRegister(): get(gid) is null once erased.
RunWake(h) ==
    IF state[h] = "Erased"
    THEN UNCHANGED <<state, reason, wait, retrigger, fiberVars, queue, wakeFd, history>>
    ELSE WakeHotkey(h)

\* onTimerFire(): looks the waiter up again when it runs.
RunFire(g) ==
    /\ IF state[g] = "Suspended" /\ wait[g] = "TIMER_WAIT"
       THEN Unpark(g)
       ELSE UNCHANGED <<state, reason, queue, wakeFd>>
    /\ UNCHANGED <<wait, retrigger, fiberVars, history>>

RunDeferred ==
    /\ pc = "batch" /\ batch # <<>>
    /\ batch' = Tail(batch)
    /\ \/ Head(batch).op = "wake" /\ RunWake(Head(batch).g)
       \/ Head(batch).op = "fire" /\ RunFire(Head(batch).g)
    /\ UNCHANGED <<due, persistent, current, deferred, pc, sliceDone, scanVars, outsideVars>>

\* Seeded fault: the eventfd is read after the callbacks instead of before.
DrainReadsLate ==
    /\ pc = "batch" /\ batch = <<>>
    /\ wakeFd' = FALSE
    /\ Goto(IF sliceDone THEN "poll" ELSE "sleepers")
    /\ UNCHANGED <<goroutineVars, queue, current, deferred, sliceDone, batch, scanVars,
                   outsideVars>>

\* The first drain of a frame continues with the sleepers; the second ends it.
DrainDone ==
    /\ pc = "batch" /\ batch = <<>>
    /\ Goto(IF sliceDone THEN "poll" ELSE "sleepers")
    /\ UNCHANGED <<schedVars, sliceDone, batch, scanVars, outsideVars>>

\* wakeSleepingGoroutines(), in the map's unspecified order.
WakeOneSleeper(g) ==
    /\ pc = "sleepers"
    /\ WakeSleeper(g)
    /\ due' = due \ {g}
    /\ UNCHANGED <<persistent, retrigger, fiberVars, current, deferred, wakeFd, history,
                   engineVars>>

SleepersDone ==
    /\ pc = "sleepers" /\ NoSleeperDue
    /\ scanAt' = "HOTKEY" /\ scanLeft' = Len(queue["HOTKEY"])
    /\ Goto("scan")
    /\ UNCHANGED <<schedVars, sliceDone, batch, outsideVars>>

-----------------------------------------------------------------------------
(* pickNext(): popRunnable() over each queue in priority order, at most     *)
(* once around each.                                                        *)

Front == Head(queue[scanAt])
Scanning == pc = "scan" /\ scanLeft > 0 /\ queue[scanAt] # <<>>

PickRunnable ==
    /\ Scanning /\ CanRun(Front)
    /\ queue' = [queue EXCEPT ![scanAt] = Tail(@)]
    /\ current' = Front
    /\ Goto("picked")
    /\ UNCHANGED <<goroutineVars, deferred, wakeFd, sliceDone, batch, scanVars, outsideVars>>

DiscardDone ==
    /\ Scanning /\ state[Front] = "Done"
    /\ queue' = [queue EXCEPT ![scanAt] = Tail(@)]
    /\ scanLeft' = scanLeft - 1
    /\ UNCHANGED <<goroutineVars, current, deferred, wakeFd, pc, sliceDone, batch, scanAt,
                   outsideVars>>

RotateParked ==
    /\ Scanning /\ ~CanRun(Front) /\ state[Front] # "Done"
    /\ queue' = [queue EXCEPT ![scanAt] = Append(Tail(@), Head(@))]
    /\ scanLeft' = scanLeft - 1
    /\ UNCHANGED <<goroutineVars, current, deferred, wakeFd, pc, sliceDone, batch, scanAt,
                   outsideVars>>

\* Seeded fault: the normal queue is skipped.
SkipNormal ==
    /\ pc = "scan" /\ (scanLeft = 0 \/ queue[scanAt] = <<>>)
    /\ scanAt # "BACKGROUND"
    /\ scanAt' = "BACKGROUND"
    /\ scanLeft' = Len(queue[scanAt'])
    /\ UNCHANGED <<schedVars, pc, sliceDone, batch, outsideVars>>

\* On to the next queue.
NextQueue ==
    /\ pc = "scan" /\ (scanLeft = 0 \/ queue[scanAt] = <<>>)
    /\ scanAt # "BACKGROUND"
    /\ scanAt' = IF scanAt = "HOTKEY" THEN "NORMAL" ELSE "BACKGROUND"
    /\ scanLeft' = Len(queue[scanAt'])
    /\ UNCHANGED <<schedVars, pc, sliceDone, batch, outsideVars>>

\* All three exhausted: pickNext() returns nullptr and the frame ends without
\* its second drain.
NothingToPick ==
    /\ pc = "scan" /\ (scanLeft = 0 \/ queue[scanAt] = <<>>)
    /\ scanAt = "BACKGROUND"
    /\ Goto("poll")
    /\ UNCHANGED <<schedVars, sliceDone, batch, scanVars, outsideVars>>

-----------------------------------------------------------------------------
(* The picked goroutine.                                                    *)

\* Its condition callback is evaluated: only for a fresh run.
ConditionDue(g) ==
    g \in persistent /\ g \in Conditional /\ state[g] = "Created"

\* The condition does not hold: parked where it stands, the frame is over.
ConditionFails ==
    /\ pc = "picked" /\ ConditionDue(current)
    /\ state' = [state EXCEPT ![current] = "Suspended"]
    /\ reason' = [reason EXCEPT ![current] = "HotkeyWait"]
    /\ fiberReason' = [fiberReason EXCEPT ![current] = "HOTKEY_WAIT"]
    /\ owed' = owed \ {current}
    /\ Goto("poll")
    /\ UNCHANGED <<wait, due, persistent, retrigger, spent, queue, current, deferred,
                   wakeFd, stranded, sliceDone, batch, scanVars, outsideVars>>

\* A fresh body, and every tick of an updater, goes through
\* startGoroutineCall(); a parked body through loadFiberState().
Fresh(g) == state[g] = "Created" \/ g \in Updater

\* Resuming consumes the wait handle.  Either way the goroutine is Running.
StartSlice ==
    /\ pc = "picked"
    /\ state' = [state EXCEPT ![current] = "Running"]
    /\ due' = due \ {current}
    /\ IF Fresh(current)
       THEN /\ owed' = owed \ {current}
            /\ spent' = spent \ {current}
            /\ UNCHANGED wait
       ELSE /\ wait' = [wait EXCEPT ![current] = "NONE"]
            /\ UNCHANGED <<owed, spent>>
    /\ Goto("slice")
    /\ UNCHANGED <<reason, fiberReason, stranded, persistent, retrigger, queue, current, deferred, wakeFd,
                   sliceDone, batch, scanVars, outsideVars>>

-----------------------------------------------------------------------------
(* handleReturned(): a persistent goroutine re-arms if a trigger came       *)
(* during the run, else parks; an updater sleeps until its next tick;       *)
(* others end.                                                              *)

Rearm ==
    /\ current \in persistent /\ current \in retrigger
    /\ RequeueFront(current)
    /\ UNCHANGED due

\* Seeded fault: the retrigger flag is not looked at.
ParkForgetsRetrigger ==
    /\ current \in persistent
    /\ state' = [state EXCEPT ![current] =
                    IF current \in Conditional THEN "Created" ELSE "Suspended"]
    /\ reason' = [reason EXCEPT ![current] = "HotkeyWait"]
    /\ fiberReason' = [fiberReason EXCEPT ![current] = "HOTKEY_WAIT"]
    /\ spent' = spent \cup {current}
    /\ UNCHANGED <<wait, due, retrigger, queue, wakeFd, stranded>>

ParkForTrigger ==
    /\ current \in persistent /\ current \notin retrigger
    /\ state' = [state EXCEPT ![current] =
                    IF current \in Conditional THEN "Created" ELSE "Suspended"]
    /\ reason' = [reason EXCEPT ![current] = "HotkeyWait"]
    /\ fiberReason' = [fiberReason EXCEPT ![current] = "HOTKEY_WAIT"]
    /\ spent' = spent \cup {current}
    /\ UNCHANGED <<wait, due, retrigger, queue, wakeFd, stranded>>

\* Seeded fault: the wait handle is not set.
SleepWithoutHandle ==
    /\ current \notin persistent /\ current \in Updater
    /\ state' = [state EXCEPT ![current] = "Suspended"]
    /\ reason' = [reason EXCEPT ![current] = "SleepWait"]
    /\ due' = due \ {current}
    /\ UNCHANGED <<wait, retrigger, fiberVars, queue, wakeFd, stranded>>

SleepUntilTick ==
    /\ current \notin persistent /\ current \in Updater
    /\ state' = [state EXCEPT ![current] = "Suspended"]
    /\ reason' = [reason EXCEPT ![current] = "SleepWait"]
    /\ wait' = [wait EXCEPT ![current] = "SLEEP"]
    /\ due' = due \ {current}
    /\ UNCHANGED <<retrigger, fiberVars, queue, wakeFd, stranded>>

Complete ==
    /\ current \notin persistent
    /\ state' = [state EXCEPT ![current] = "Done"]
    /\ UNCHANGED <<reason, wait, due, retrigger, fiberVars, queue, wakeFd, stranded>>

\* startGoroutineCall() cannot resolve the body, which ends an updater too, or
\* runs it to its end (compiled bodies, direct host-call thunks): the result is
\* handled on the spot and the frame skips its second drain.
StartReturns ==
    /\ pc = "picked" /\ Fresh(current)
    /\ Rearm \/ ParkForTrigger \/ SleepUntilTick \/ Complete
    /\ owed' = owed \ {current}
    /\ current' = NoGoroutine
    /\ Goto("poll")
    /\ UNCHANGED <<persistent, deferred, sliceDone, batch, scanVars, outsideVars>>

\* startGoroutineCall() rejects the arguments of a variadic body, or a host
\* function that the thunk calls throws.  executeFrame() catches it with the
\* goroutine popped, in the state it had and in no queue, and returns.
StartThrows ==
    /\ pc = "picked" /\ Fresh(current)
    /\ stranded' = stranded \cup {current}
    /\ Goto("poll")
    /\ UNCHANGED <<state, reason, wait, due, persistent, retrigger, fiberVars, queue,
                   current, deferred, wakeFd, owed, sliceDone, batch, scanVars, outsideVars>>

-----------------------------------------------------------------------------
(* The slice: host calls the running body makes.  A body that removes its   *)
(* own hotkey leaves the frame holding a freed goroutine; what it does with *)
(* it is undefined, so behaviours end there.                                *)

InSlice == pc = "slice" /\ current \in Registered
BodyRuns == InSlice /\ current \notin spent

\* hotkey.trigger(): wakeHotkeyByAlias() on the VM thread.
BodyTriggers(h) ==
    /\ BodyRuns /\ "trigger" \in Calls /\ fired < MaxTriggers
    /\ h \in persistent \cap Registered
    /\ WakeHotkey(h)
    /\ fired' = fired + 1
    /\ UNCHANGED <<due, persistent, current, deferred, frameVars, pushed>>

\* Hotkey.stop()
BodyStops(h) ==
    /\ BodyRuns /\ "stop" \in Calls
    /\ StopHotkeyGoroutine(h)
    /\ UNCHANGED <<reason, wait, due, retrigger, fiberVars, current, deferred, wakeFd, history,
                   engineVars>>

\* Hotkey.resume()
BodyResumes(h) ==
    /\ BodyRuns /\ "resume" \in Calls
    /\ h \in persistent /\ state[h] = "Suspended"
    /\ Unpark(h)
    /\ UNCHANGED <<wait, due, persistent, retrigger, fiberVars, current, deferred, history,
                   engineVars>>

\* hotkey.remove()
BodyRemoves(h) ==
    /\ BodyRuns /\ (IF h = current THEN "removeSelf" ELSE "remove") \in Calls
    /\ RemoveHotkeyByAlias(h)
    /\ UNCHANGED <<reason, wait, due, persistent, retrigger, fiberVars, current, deferred,
                   wakeFd, history, engineVars>>

\* channel.send() to a channel g is parked on: channelSend() unparks it.
BodySendsTo(g) ==
    /\ BodyRuns /\ state[g] = "Suspended" /\ wait[g] = "CHANNEL_RECV"
    /\ Unpark(g)
    /\ UNCHANGED <<wait, due, persistent, retrigger, fiberVars, current, deferred, history,
                   engineVars>>

\* exit(): stop() destroys every goroutine and the frame returns at once.
BodyExits ==
    /\ BodyRuns /\ "exit" \in Calls
    /\ StopScheduler
    /\ Goto("stopped")
    /\ UNCHANGED <<reason, wait, due, persistent, retrigger, fiberVars, current, deferred,
                   wakeFd, history, sliceDone, batch, scanVars, outsideVars>>

-----------------------------------------------------------------------------
(* The slice's result.                                                      *)

\* VMExecutionResult::YIELD, the instruction budget is spent.
SliceYields ==
    /\ BodyRuns
    /\ YieldGoroutine(current)
    /\ Goto("drain")
    /\ UNCHANGED <<reason, wait, due, persistent, retrigger, fiberVars, current, deferred,
                   wakeFd, history, sliceDone, batch, scanVars, outsideVars>>

\* VMExecutionResult::SUSPENDED, whatever brought it: suspend() with the reason
\* the fiber has, then the wait handle that goes with it, whose deadline starts
\* now.  Nothing resets the fiber's reason when it runs again.
HandleSuspended(w) ==
    /\ SuspendGoroutine(current, ReasonOf(w))
    /\ wait' = IF w \in Blocking THEN [wait EXCEPT ![current] = w] ELSE wait
    /\ due' = due \ {current}

\* The body asked to wait.  Fiber::suspend() throws, and the slice fails, if it
\* was stopped or requeued while it ran.  A host function called in tail
\* position returns from the body before the wait begins.
SliceSuspends(w) ==
    /\ BodyRuns /\ state[current] = "Running"
    /\ fiberReason' = [fiberReason EXCEPT ![current] = w]
    /\ spent' \in {spent, spent \cup {current}}
    /\ HandleSuspended(w)
    /\ Goto("drain")
    /\ UNCHANGED <<persistent, retrigger, current, deferred, wakeFd, history,
                   sliceDone, batch, scanVars, outsideVars>>

\* executeOneStep() finds no frame to execute and says SUSPENDED.
NothingToExecute ==
    /\ InSlice /\ current \in spent
    /\ HandleSuspended(fiberReason[current])
    /\ Goto("drain")
    /\ UNCHANGED <<persistent, retrigger, fiberVars, current, deferred, wakeFd, history,
                   sliceDone, batch, scanVars, outsideVars>>

\* The body's RETURN takes the last frame away and is a YIELD like every other
\* instruction: either the budget ends with it, or the next step of the slice
\* finds nothing to execute.
BodyReturns ==
    /\ BodyRuns
    /\ spent' = spent \cup {current}
    /\ \/ HandleSuspended(fiberReason[current])
       \/ YieldGoroutine(current) /\ UNCHANGED <<reason, wait, due>>
    /\ Goto("drain")
    /\ UNCHANGED <<fiberReason, persistent, retrigger, current, deferred, wakeFd, history,
                   sliceDone, batch, scanVars, outsideVars>>

\* VMExecutionResult::RETURNED, of a body whose code ends without a RETURN (its
\* last statement is a loop with a tail call in it).
SliceReturns ==
    /\ BodyRuns
    /\ Rearm \/ ParkForTrigger \/ SleepUntilTick \/ (Complete /\ current \notin Updater)
    /\ current' = NoGoroutine
    /\ Goto("drain")
    /\ UNCHANGED <<persistent, deferred, owed, sliceDone, batch, scanVars, outsideVars>>

\* handleError(): Done, whatever the goroutine is.
SliceFails ==
    /\ BodyRuns
    /\ state' = [state EXCEPT ![current] = "Done"]
    /\ current' = NoGoroutine
    /\ Goto("drain")
    /\ UNCHANGED <<reason, wait, due, persistent, retrigger, fiberVars, queue, deferred,
                   wakeFd, history, sliceDone, batch, scanVars, outsideVars>>

-----------------------------------------------------------------------------
Init ==
    /\ SchedulerInit
    /\ pc = "poll" /\ sliceDone = FALSE /\ batch = <<>>
    /\ scanAt = "HOTKEY" /\ scanLeft = 0
    /\ pushed = {} /\ fired = 0

DrainStep == PollReturns \/ BeginDrain \/ TakeDeferred \/ RunDeferred \/ DrainDone
PickStep ==
    \/ SleepersDone \/ PickRunnable \/ DiscardDone \/ RotateParked
    \/ NextQueue \/ NothingToPick
    \/ \E g \in Goroutine : WakeOneSleeper(g)
StartStep == ConditionFails \/ StartSlice \/ StartReturns \/ StartThrows
EndSlice ==
    \/ SliceYields \/ NothingToExecute \/ BodyReturns \/ SliceReturns \/ SliceFails
    \/ \E w \in SliceWait : SliceSuspends(w)

\* What the VM thread does by itself, frame after frame.
FrameStep == DrainStep \/ PickStep \/ StartStep \/ EndSlice

ScriptStep ==
    \/ BodyExits
    \/ \E g \in Goroutine :
        \/ RegisterHotkey(g) \/ SpawnGoroutine(g)
        \/ BodyTriggers(g) \/ BodyStops(g) \/ BodyResumes(g) \/ BodyRemoves(g)
        \/ BodySendsTo(g)
OutsideStep ==
    \/ \E t \in Producer : ProducerNotify(t) \/ \E h \in Goroutine : ProducerPush(t, h)
    \/ \E g \in Goroutine : DeadlinePasses(g) \/ TimerFires(g) \/ PolledTrigger(g)

Next == FrameStep \/ ScriptStep \/ OutsideStep

Spec == Init /\ [][Next]_vars

(* Fairness.  The loop's poll times out after 10 ms, so the VM thread always *)
(* goes on; a producer completes schedule(); time passes; and, the only      *)
(* assumption about scripts, a body that gets slice after slice ends.        *)
BodyEnds(g) ==
    current = g /\ (BodyReturns \/ SliceReturns \/ SliceFails \/ NothingToExecute)

FairSpec ==
    /\ Spec
    /\ WF_vars(FrameStep)
    /\ \A t \in Producer : WF_vars(ProducerNotify(t))
    /\ \A g \in Goroutine : WF_vars(DeadlinePasses(g)) /\ SF_vars(BodyEnds(g))
-----------------------------------------------------------------------------
(* Properties.                                                              *)

\* The type invariant.
EngineTypeOK ==
    /\ SchedulerTypeOK
    /\ pc \in {"poll", "frame", "drain", "swap", "batch", "sleepers", "scan", "picked",
               "slice", "stopped"}
    /\ sliceDone \in BOOLEAN
    /\ batch \in Seq(DeferredAction)
    /\ scanAt \in Priorities
    /\ scanLeft \in Nat
    /\ pushed \subseteq Producer
    /\ fired \in Nat

\* A run queue never holds a freed goroutine, holds none twice, and holds only
\* goroutines of its own priority: pickNext() would otherwise follow a dangling
\* pointer or run one body in two frames.
QueuesSound ==
    \A p \in Priorities :
        /\ IsInjective(queue[p])
        /\ \A g \in Range(queue[p]) : g \in Registered /\ priority[g] = p

InHandFresh(g) == pc = "picked" /\ current = g

\* A pending goroutine is one pickNext() will find: Created or Runnable implies
\* queued, or just popped; otherwise its start threw, and no trigger has armed it
\* since.  The drop of a redundant trigger relies on the first two.
PendingWillRun ==
    \A g \in Goroutine :
        CanRun(g) => Queued(g) \/ InHandFresh(g) \/ g \in stranded

\* A trigger the scheduler accepted is on record until its run starts: the hotkey
\* is armed, or carries the retrigger flag and is not parked over it, or has ended,
\* or its start threw.  The flag is read where a run ends in handleReturned().
TriggerKept ==
    \A h \in owed :
        \/ state[h] \in {"Done", "Erased"}
        \/ h \in stranded
        \/ state[h] = "Created" /\ (Queued(h) \/ InHandFresh(h))
        \/ /\ h \in retrigger
           /\ \/ state[h] \in {"Runnable", "Running"}
              \/ state[h] = "Suspended" /\ reason[h] # "HotkeyWait"

\* What isHotkeyPending() takes for granted: "will run on next tick".
PendingIsQueued ==
    \A g \in Goroutine : CanRun(g) => Queued(g) \/ InHandFresh(g)

\* The end of a body is handled as an end: with no frame left, a suspended
\* goroutine is a hotkey that is parked for its next trigger.
ReturnIsHandled ==
    \A g \in Goroutine :
        g \in spent /\ state[g] = "Suspended" => reason[g] = "HotkeyWait"

\* A goroutine is Running only while the frame that picked it executes it; the
\* scheduler relies on current_ being the one body in progress.
OneRunning ==
    \A g \in Goroutine : state[g] = "Running" => pc = "slice" /\ current = g

\* pickNext() never pops a Done goroutine: whoever ends one purges it.
NoDoneQueued == \A g \in Goroutine : Queued(g) => state[g] # "Done"

\* Whoever suspends on a sleep has left the wait handle the sleep sweep looks
\* for, so no sleeper is out of wakeSleepingGoroutines()'s sight.
SleeperWakeable ==
    \A g \in Goroutine :
        state[g] = "Suspended" /\ reason[g] = "SleepWait" => wait[g] = "SLEEP"

\* No deferred action waits behind a poll that nothing will interrupt: either
\* the eventfd is readable or its producer is about to write it.
NoLostWakeup ==
    pc = "poll" /\ (\E p \in DOMAIN deferred : deferred[p] # <<>>)
        => wakeFd \/ pushed # {}

\* A finished goroutine is never revived, a freed one never comes back.
DoneIsFinal ==
    [][\A g \in Goroutine :
        /\ state[g] = "Done" => state'[g] \in {"Done", "Erased"}
        /\ state[g] = "Erased" => state'[g] = "Erased"]_vars

\* A persistent hotkey goroutine leaves its life cycle only through stop(),
\* remove() or exit().
PersistentNeverDone == \A h \in persistent : state[h] # "Done"

\* Its body has returned, and the scheduler takes it for one that waits in the
\* middle of its run.
BodyGone(g) == g \in spent /\ reason[g] # "HotkeyWait"

\* Every accepted trigger is eventually run, unless the hotkey ends, its start
\* throws, or the body that the trigger waits for leaves by a RETURN.
TriggerServed ==
    \A h \in Hotkey :
        h \in owed ~> \/ h \notin owed \/ state[h] \in {"Done", "Erased"}
                     \/ h \in stranded \/ BodyGone(h)

\* A sleeping goroutine resumes.
SleeperResumes ==
    \A g \in Goroutine :
        state[g] = "Suspended" /\ reason[g] = "SleepWait" ~> state[g] # "Suspended"

Outranks(h, g) ==
    priority[h] # priority[g] /\ (priority[h] = "HOTKEY" \/ priority[g] = "BACKGROUND")

\* A sleeper without a body: woken, it executes nothing and sleeps again.
Phantom(g) == g \in spent /\ fiberReason[g] = "SLEEP"

\* A ready goroutine of any priority gets its turn, once triggers cease, unless its
\* start throws or a sleeper without a body goes first: priorities are strict, so
\* whatever is due at every frame (a hotkey that keeps triggering itself, an
\* updater, such a sleeper) keeps lower priorities waiting for ever.
ReadyRuns ==
    \A g \in Goroutine :
        CanRun(g) ~> \/ ~CanRun(g) \/ g \in stranded
                     \/ \E h \in Goroutine : Outranks(h, g) /\ Phantom(h)

=============================================================================
