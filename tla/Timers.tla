------------------------------- MODULE Timers -------------------------------
(***************************************************************************)
(* Script timers: the Interval and Timeout threads of runtime/concurrency, *)
(* the host functions that create, pause, resume and stop them on the VM   *)
(* thread, and the way of a tick: the timer thread pushes a TIMER_FIRE     *)
(* event, the event's handler schedules the callback on the VM thread, the *)
(* next drain runs it.  pause(), resume() and stop() write atomics without *)
(* the timer's mutex, so they fall between any two steps of its thread.    *)
(***************************************************************************)
EXTENDS Naturals, Sequences, Functions

CONSTANTS
    Interval, Timeout,  \* the timers of the script
    Pausable,           \* intervals it pauses and resumes
    MaxEvents           \* expiries wait while this many events are queued, and
                        \* events while this many callbacks are scheduled: a
                        \* bound of the model

ASSUME TimersAssumption ==
    /\ Interval \cap Timeout = {}
    /\ Pausable \subseteq Interval
    /\ MaxEvents \in Nat \ {0}

Timer == Interval \cup Timeout

VARIABLES
    tpc,        \* per timer: where its thread is
    paused,     \* Interval::paused
    stopped,    \* Interval::stopped (running is its negation), Timeout::cancelled
    notified,   \* timers whose waiting thread has been notified
    vm,         \* what the VM thread does: [at, on], the call and its timer
    events,     \* TIMER_FIRE events in the event queue
    fires,      \* timer callbacks scheduled on the VM thread
    halted,     \* history: timers whose stop() or cancel() has returned
    pushed,     \* history: ticks pushed since the timer was paused or stopped
    late        \* history: timers whose callback ran after stop() had returned

threadVars == <<tpc, notified>>
flagVars == <<paused, stopped>>
vars == <<threadVars, flagVars, vm, events, fires, halted, pushed, late>>

Idle == vm.at = "idle"
NoCall == [at |-> "idle", on |-> CHOOSE t \in Timer : TRUE]
-----------------------------------------------------------------------------
(* The VM thread: host functions ...                                        *)

Create(t) ==
    /\ Idle /\ tpc[t] = "none"
    /\ tpc' = [tpc EXCEPT ![t] = IF t \in Interval THEN "loop" ELSE "arm"]
    /\ UNCHANGED <<notified, flagVars, vm, events, fires, halted, pushed, late>>

Pause(t) ==
    /\ Idle /\ tpc[t] # "none"
    /\ paused' = [paused EXCEPT ![t] = TRUE]
    /\ UNCHANGED <<threadVars, stopped, vm, events, fires, halted, pushed, late>>

\* Nobody is notified.
Resume(t) ==
    /\ Idle /\ tpc[t] # "none"
    /\ paused' = [paused EXCEPT ![t] = FALSE]
    /\ pushed' = [pushed EXCEPT ![t] = IF stopped[t] THEN @ ELSE 0]
    /\ UNCHANGED <<threadVars, stopped, vm, events, fires, halted, late>>

\* stop() of an interval, cancel() of a timeout: a second call returns at once.
Stop(t) ==
    /\ Idle /\ tpc[t] # "none" /\ ~stopped[t]
    /\ stopped' = [stopped EXCEPT ![t] = TRUE]
    /\ vm' = [at |-> "notify", on |-> t]
    /\ UNCHANGED <<threadVars, paused, events, fires, halted, pushed, late>>

StopNotifies ==
    /\ vm.at = "notify"
    /\ notified' = IF tpc[vm.on] \in {"parked", "sleep"}
                     THEN notified \cup {vm.on} ELSE notified
    /\ vm' = [vm EXCEPT !.at = "join"]
    /\ UNCHANGED <<tpc, flagVars, events, fires, halted, pushed, late>>

StopJoins ==
    /\ vm.at = "join" /\ tpc[vm.on] = "ended"
    /\ halted' = halted \cup {vm.on}
    /\ vm' = NoCall
    /\ UNCHANGED <<threadVars, flagVars, events, fires, pushed, late>>

(* ... and the frame: processAll() schedules what onTimerFire() will run.   *)

HandleEvent ==
    /\ Idle /\ events # <<>> /\ Len(fires) < MaxEvents
    /\ fires' = Append(fires, Head(events))
    /\ events' = Tail(events)
    /\ UNCHANGED <<threadVars, flagVars, vm, halted, pushed, late>>

RunFire ==
    /\ Idle /\ fires # <<>>
    /\ late' = late \cup ({Head(fires)} \cap halted)
    /\ fires' = Tail(fires)
    /\ UNCHANGED <<threadVars, flagVars, vm, events, halted, pushed>>

-----------------------------------------------------------------------------
(* The timer's thread.  A condition variable releases the mutex and starts  *)
(* to wait in one step; what is missed is a notification that comes between *)
(* the test of the flags and that step.                                     *)

Goto(t, at) == tpc' = [tpc EXCEPT ![t] = at]

\* Seeded fault: the loop never ends.
LoopForever(t) ==
    /\ tpc[t] = "loop"
    /\ Goto(t, "pauseTest")
    /\ UNCHANGED <<notified, flagVars, vm, events, fires, halted, pushed, late>>

\* The while condition of the interval.
TestStopped(t) ==
    /\ tpc[t] = "loop"
    /\ Goto(t, IF stopped[t] THEN "ended" ELSE "pauseTest")
    /\ UNCHANGED <<notified, flagVars, vm, events, fires, halted, pushed, late>>

\* A paused interval waits without a timeout.
TestPaused(t) ==
    /\ tpc[t] = "pauseTest"
    /\ Goto(t, IF paused[t] THEN "park" ELSE "arm")
    /\ UNCHANGED <<notified, flagVars, vm, events, fires, halted, pushed, late>>

\* The predicate of wait_for, and where the thread goes when it holds.
Interrupted(t) == stopped[t] \/ (t \in Interval /\ paused[t])

WhenInterrupted(t) == IF t \in Interval THEN "loop" ELSE "ended"

Arm(t) ==
    /\ tpc[t] = "arm"
    /\ Goto(t, IF Interrupted(t) THEN WhenInterrupted(t) ELSE "enter")
    /\ UNCHANGED <<notified, flagVars, vm, events, fires, halted, pushed, late>>

BeginWait(t) ==
    /\ \/ tpc[t] = "park" /\ Goto(t, "parked")
       \/ tpc[t] = "enter" /\ Goto(t, "sleep")
    /\ notified' = notified \ {t}
    /\ UNCHANGED <<flagVars, vm, events, fires, halted, pushed, late>>

WakeUp(t) ==
    /\ \/ tpc[t] = "parked" /\ Goto(t, "loop")
       \/ tpc[t] = "sleep" /\ Goto(t, "arm")
    /\ notified' = notified \ {t}
    /\ UNCHANGED <<flagVars, vm, events, fires, halted, pushed, late>>

Notified(t) == t \in notified /\ WakeUp(t)
Spurious(t) == t \notin notified /\ WakeUp(t)

\* The time is over: wait_for evaluates its predicate once more.
Expire(t) ==
    /\ tpc[t] = "sleep"
    /\ Interrupted(t) \/ Len(events) < MaxEvents
    /\ Goto(t, IF Interrupted(t) THEN WhenInterrupted(t) ELSE "fire")
    /\ notified' = notified \ {t}
    /\ UNCHANGED <<flagVars, vm, events, fires, halted, pushed, late>>

\* Only the interval tests the flag again before its callback.
TestAgain(t) ==
    /\ tpc[t] = "fire"
    /\ Goto(t, IF t \in Interval /\ stopped[t] THEN "ended" ELSE "push")
    /\ UNCHANGED <<notified, flagVars, vm, events, fires, halted, pushed, late>>

\* The callback pushes the event; then the thread is somewhere else.
PushThen(t, at) ==
    /\ tpc[t] = "push"
    /\ events' = Append(events, t)
    /\ pushed' = [pushed EXCEPT ![t] =
                    IF (paused[t] \/ stopped[t]) /\ @ < 2 THEN @ + 1 ELSE @]
    /\ Goto(t, at)
    /\ UNCHANGED <<notified, flagVars, vm, fires, halted, late>>

\* Seeded fault: ticks that were missed are made up for at once.
PushCatchingUp(t) == PushThen(t, IF t \in Interval THEN "fire" ELSE "ended")

\* Seeded fault: the interval is not armed again.
PushOnce(t) == PushThen(t, "ended")

Push(t) == PushThen(t, IF t \in Interval THEN "loop" ELSE "ended")

-----------------------------------------------------------------------------
Init ==
    /\ tpc = [t \in Timer |-> "none"]
    /\ paused = [t \in Timer |-> FALSE] /\ stopped = [t \in Timer |-> FALSE]
    /\ notified = {} /\ vm = NoCall
    /\ events = <<>> /\ fires = <<>>
    /\ halted = {} /\ late = {}
    /\ pushed = [t \in Timer |-> 0]

ThreadStep(t) ==
    \/ TestStopped(t) \/ TestPaused(t) \/ Arm(t) \/ BeginWait(t)
    \/ Notified(t) \/ Expire(t) \/ TestAgain(t) \/ Push(t)
VMStep == StopNotifies \/ StopJoins \/ HandleEvent \/ RunFire
Script ==
    \/ \E t \in Timer : Create(t) \/ Stop(t)
    \/ \E t \in Pausable : Pause(t) \/ Resume(t)

Next == VMStep \/ Script \/ \E t \in Timer : ThreadStep(t) \/ Spurious(t)

Spec == Init /\ [][Next]_vars

\* Threads run.  The deadline of wait_for is fixed when it begins, so spurious
\* wake-ups cannot put an expiry off for ever, nor are they owed.  The script owes
\* nothing.
FairSpec ==
    /\ Spec
    /\ WF_vars(VMStep)
    /\ \A t \in Timer : WF_vars(ThreadStep(t)) /\ SF_vars(Expire(t))
-----------------------------------------------------------------------------
(* Properties.                                                              *)

\* The type invariant.
TimersTypeOK ==
    /\ tpc \in [Timer -> {"none", "loop", "pauseTest", "park", "parked", "arm",
                          "enter", "sleep", "fire", "push", "ended"}]
    /\ paused \in [Timer -> BOOLEAN] /\ stopped \in [Timer -> BOOLEAN]
    /\ notified \subseteq Timer
    /\ vm \in [at : {"idle", "notify", "join"}, on : Timer]
    /\ events \in Seq(Timer) /\ fires \in Seq(Timer)
    /\ halted \subseteq Timer /\ late \subseteq Timer
    /\ pushed \in [Timer -> 0 .. 2]

\* Whatever the interleaving of pause(), resume() and stop() with the thread, at
\* most one tick that had already expired is pushed after a pause or a stop.
AtMostOneLateTick == \A t \in Timer : pushed[t] <= 1

\* stop() and cancel() of a timer that is not paused return, although their
\* notification may be missed: "Wake up the thread", says Thread.cpp of it.
StopReturns == \A t \in Timer :
    vm = [at |-> "join", on |-> t] /\ ~paused[t] /\ tpc[t] \notin {"park", "parked"}
        ~> vm.at = "idle"

\* An interval that nobody stops or pauses goes on ticking, whatever becomes of
\* the notifications meant for others.
IntervalTicks == \A t \in Interval :
    tpc[t] \notin {"none", "park", "parked"}
        ~> tpc[t] = "push" \/ stopped[t] \/ paused[t]

\* A resumed interval ticks again, as the timer tests expect.
ResumedTicks ==
    \A t \in Pausable :
        tpc[t] = "parked" /\ ~paused[t] ~> tpc[t] # "parked" \/ paused[t]

\* The callback of a timer does not run once stop() has returned: "This should
\* NOT print", says the callback of a stopped timeout in the timer tests.
NoRunAfterStop == late = {}
=============================================================================
