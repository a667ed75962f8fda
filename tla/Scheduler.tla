------------------------------ MODULE Scheduler ------------------------------
(***************************************************************************)
(* The cooperative goroutine scheduler of the Havel virtual machine        *)
(* (runtime/concurrency/Scheduler).  A goroutine is a script body with a   *)
(* life-cycle state; three run queues, one per priority, hold the ones     *)
(* that may run; one VM thread picks, runs and parks them.  Other threads  *)
(* reach the VM thread only through the deferred-action queues and the     *)
(* eventfd that wakes its poll.                                            *)
(*                                                                         *)
(* This module holds the scheduler's state and its methods, one operator   *)
(* per method; module ExecutionEngine calls them from the frame loop.      *)
(* Arguments, stacks and instruction pointers of goroutines are not        *)
(* modelled: what matters here is which goroutine runs, and when.          *)
(***************************************************************************)
EXTENDS Naturals, Sequences, FiniteSets, Functions

CONSTANTS
    Goroutine,     \* identities of goroutines that may ever exist (never reused)
    NoGoroutine,   \* current_ == nullptr
    Hotkey,        \* goroutines created as persistent hotkey goroutines
    Conditional,   \* hotkeys that carry a condition callback
    priority,      \* Goroutine::priority
    policy         \* Goroutine::hotkey_policy, read only for hotkeys

Priorities == {"HOTKEY", "NORMAL", "BACKGROUND"}
Policies == {"Drop", "Replace", "Queue", "Coalesce"}

\* Hotkeys are registered with HOTKEY priority, conditional ones always with
\* the Drop policy.
ASSUME SchedulerAssumption ==
    /\ NoGoroutine \notin Goroutine
    /\ Hotkey \subseteq Goroutine
    /\ Conditional \subseteq Hotkey
    /\ priority \in [Goroutine -> Priorities]
    /\ policy \in [Goroutine -> Policies]
    /\ \A h \in Hotkey : priority[h] = "HOTKEY"
    /\ \A c \in Conditional : policy[c] = "Drop"

VARIABLES
    state,       \* Goroutine::state; "Unborn" before spawn, "Erased" once freed
    reason,      \* Goroutine::suspension_reason
    wait,        \* Goroutine::wait_handle.type
    due,         \* goroutines whose wait_handle.deadline has passed
    persistent,  \* goroutines with persistent == true
    retrigger,   \* goroutines with hotkey_retrigger == true
    spent,       \* goroutines whose fiber has no call frame left
    fiberReason, \* Fiber::suspended_reason, named by the wait it stands for
    queue,       \* hotkey_queue_, runnable_queue_, background_queue_
    current,     \* current_
    deferred,    \* deferred_hotkey_ and deferred_normal_
    wakeFd,      \* deferred_wakeup_fd_ is readable
    owed,        \* history: triggers accepted for a goroutine and not yet run
    stranded     \* history: goroutines whose start threw, not re-armed since

fiberVars == <<spent, fiberReason>>
history == <<owed, stranded>>
schedVars == <<state, reason, wait, due, persistent, retrigger, fiberVars, queue,
               current, deferred, wakeFd, history>>

\* What no step of another thread and no step of the pick loop writes.
goroutineVars ==
    <<state, reason, wait, due, persistent, retrigger, fiberVars, history>>

GoroutineState == {"Created", "Runnable", "Running", "Suspended", "Done"}
LifeState == GoroutineState \cup {"Unborn", "Erased"}
SuspensionReason ==
    {"None", "ChannelWait", "SleepWait", "TimerWait", "HotkeyWait"}
Awaitable == {"NONE", "SLEEP", "CHANNEL_RECV", "TIMER_WAIT"}
FiberReason == Awaitable \cup {"HOTKEY_WAIT"}

\* Lambdas handed to schedule(): wake a hotkey (deferToVM, NORMAL priority) or
\* resume a goroutine whose timer fired (schedule, HOTKEY priority).
DeferredAction == [op : {"wake"}, g : Hotkey] \cup [op : {"fire"}, g : Goroutine]

\* The goroutines goroutines_ owns.
Registered == {g \in Goroutine : state[g] \in GoroutineState}

Queued(g) == \E p \in Priorities : g \in Range(queue[p])

-----------------------------------------------------------------------------
(* Run-queue updates.  removeFromQueues() erases every entry of g; there is *)
(* at most one (QueuesSound below), so dropping that one is the same.       *)

Purge(q, g) ==
    IF g \in Range(q)
    THEN LET i == CHOOSE k \in DOMAIN q : q[k] = g
         IN  SubSeq(q, 1, i - 1) \o SubSeq(q, i + 1, Len(q))
    ELSE q

RemoveFromQueues(g) == [p \in Priorities |-> Purge(queue[p], g)]

PushBack(q, g) == [q EXCEPT ![priority[g]] = Append(@, g)]
PushFront(q, g) == [q EXCEPT ![priority[g]] = <<g>> \o @]

\* isPending in wakeHotkey(), and isHotkeyPending().
Pending(g) == state[g] \in {"Created", "Runnable", "Running"}

CanRun(g) == state[g] \in {"Created", "Runnable"}

-----------------------------------------------------------------------------
(* The methods.  Each one fixes the next value of the variables it writes;  *)
(* the caller says what happens to the others.                              *)

\* spawn(): HOTKEY goroutines go to the front of their queue.
Spawn(g) ==
    /\ state[g] = "Unborn"
    /\ state' = [state EXCEPT ![g] = "Created"]
    /\ queue' = IF priority[g] = "HOTKEY" THEN PushFront(queue, g)
                                          ELSE PushBack(queue, g)

\* createPersistentHotkeyCallback(): spawn, mark persistent, then suspend(),
\* which takes the goroutine out of the queue spawn() put it in.
CreatePersistentHotkey(g) ==
    /\ state[g] = "Unborn"
    /\ state' = [state EXCEPT ![g] = "Suspended"]
    /\ reason' = [reason EXCEPT ![g] = "HotkeyWait"]
    /\ fiberReason' = [fiberReason EXCEPT ![g] = "HOTKEY_WAIT"]
    /\ persistent' = persistent \cup {g}
    /\ queue' = [queue EXCEPT ![priority[g]] = Purge(<<g>> \o @, g)]

\* suspend(): a Done goroutine stays Done.
SuspendGoroutine(g, r) ==
    IF state[g] = "Done"
    THEN UNCHANGED <<state, reason, queue>>
    ELSE /\ state' = [state EXCEPT ![g] = "Suspended"]
         /\ reason' = [reason EXCEPT ![g] = r]
         /\ queue' = RemoveFromQueues(g)

\* unpark(): only a Suspended goroutine; the wait handle is kept, it carries
\* the value the goroutine resumes with.
Unpark(g) ==
    IF state[g] # "Suspended"
    THEN UNCHANGED <<state, reason, queue, wakeFd>>
    ELSE /\ state' = [state EXCEPT ![g] = "Runnable"]
         /\ reason' = [reason EXCEPT ![g] = "None"]
         /\ queue' = PushBack(RemoveFromQueues(g), g)
         /\ wakeFd' = TRUE

\* yield(): to the back of its queue.
YieldGoroutine(g) ==
    IF state[g] = "Done"
    THEN UNCHANGED <<state, queue>>
    ELSE /\ state' = [state EXCEPT ![g] = "Runnable"]
         /\ queue' = PushBack(RemoveFromQueues(g), g)

\* Seeded fault: pushed without removing the entry it may already have.
RequeueTwice(g) ==
    IF state[g] = "Done"
    THEN UNCHANGED <<state, reason, wait, retrigger, fiberVars, queue, wakeFd, stranded>>
    ELSE /\ state' = [state EXCEPT ![g] = "Created"]
         /\ reason' = [reason EXCEPT ![g] = "None"]
         /\ wait' = [wait EXCEPT ![g] = "NONE"]
         /\ retrigger' = retrigger \ {g}
         /\ spent' = spent \ {g}
         /\ fiberReason' = [fiberReason EXCEPT ![g] = "NONE"]
         /\ stranded' = stranded \ {g}
         /\ queue' = PushFront(queue, g)
         /\ wakeFd' = TRUE

\* requeueFront(): re-arm from the start, at the front of its queue, with a
\* fiber as new.  A Done goroutine is refused.
RequeueFront(g) ==
    IF state[g] = "Done"
    THEN UNCHANGED <<state, reason, wait, retrigger, fiberVars, queue, wakeFd, stranded>>
    ELSE /\ state' = [state EXCEPT ![g] = "Created"]
         /\ reason' = [reason EXCEPT ![g] = "None"]
         /\ wait' = [wait EXCEPT ![g] = "NONE"]
         /\ retrigger' = retrigger \ {g}
         /\ spent' = spent \ {g}
         /\ fiberReason' = [fiberReason EXCEPT ![g] = "NONE"]
         /\ stranded' = stranded \ {g}
         /\ queue' = PushFront(RemoveFromQueues(g), g)
         /\ wakeFd' = TRUE

\* wakeHotkey(): the hotkey policies.  owed records a trigger the scheduler
\* accepted, that is, every return other than "Done" and "dropped".
WakeHotkey(g) ==
    \/ /\ state[g] = "Done" \/ (Pending(g) /\ policy[g] = "Drop")
       /\ UNCHANGED <<state, reason, wait, retrigger, fiberVars, queue, wakeFd, history>>
    \/ /\ \/ Pending(g) /\ policy[g] \in {"Replace", "Queue"}
          \/ state[g] = "Suspended" /\ reason[g] = "HotkeyWait"
       /\ RequeueFront(g)
       /\ owed' = owed \cup {g}
    \/ /\ \/ Pending(g) /\ policy[g] = "Coalesce"
          \/ state[g] = "Suspended" /\ reason[g] # "HotkeyWait"
       /\ retrigger' = retrigger \cup {g}
       /\ owed' = owed \cup {g}
       /\ UNCHANGED <<state, reason, wait, fiberVars, queue, wakeFd, stranded>>

\* Seeded fault: a bare state write, no purge.
StopLeavesQueued(g) ==
    /\ g \in persistent /\ g \in Registered /\ state[g] # "Done"
    /\ persistent' = persistent \ {g}
    /\ state' = [state EXCEPT ![g] = "Done"]
    /\ UNCHANGED queue

\* Seeded fault: the goroutine stays persistent.
StopKeepsPersistent(g) ==
    /\ g \in persistent /\ g \in Registered /\ state[g] # "Done"
    /\ state' = [state EXCEPT ![g] = "Done"]
    /\ queue' = RemoveFromQueues(g)
    /\ UNCHANGED persistent

\* markGoroutineDone() as HotkeyModule's stop() calls it, after persistent =
\* false: state first, then the queues.
StopHotkeyGoroutine(g) ==
    /\ g \in persistent /\ g \in Registered /\ state[g] # "Done"
    /\ persistent' = persistent \ {g}
    /\ state' = [state EXCEPT ![g] = "Done"]
    /\ queue' = RemoveFromQueues(g)

\* removeHotkeyByAlias(): mark Done, purge the queues, erase from the map.
RemoveHotkeyByAlias(g) ==
    /\ g \in persistent /\ g \in Registered
    /\ state' = [state EXCEPT ![g] = "Erased"]
    /\ queue' = RemoveFromQueues(g)

\* stop(): every goroutine Done, then cleanupDoneGoroutines() empties the
\* queues and the map.
StopScheduler ==
    /\ state' = [g \in Goroutine |->
                    IF g \in Registered THEN "Erased" ELSE state[g]]
    /\ queue' = [p \in Priorities |-> <<>>]

\* The push half of schedule(); notifyWakeup() is a separate step of the
\* calling thread, taken after deferred_mutex_ is released.
Defer(p, a) == deferred' = [deferred EXCEPT ![p] = Append(@, a)]

\* Seeded fault: woken, but not put in a queue.
WakeUnqueued(g) ==
    /\ state[g] = "Suspended" /\ reason[g] = "SleepWait"
    /\ wait[g] = "SLEEP" /\ g \in due
    /\ state' = [state EXCEPT ![g] = "Runnable"]
    /\ reason' = [reason EXCEPT ![g] = "None"]
    /\ wait' = [wait EXCEPT ![g] = "NONE"]
    /\ UNCHANGED queue

\* One goroutine that wakeSleepingGoroutines() finds expired.
WakeSleeper(g) ==
    /\ state[g] = "Suspended" /\ reason[g] = "SleepWait"
    /\ wait[g] = "SLEEP" /\ g \in due
    /\ state' = [state EXCEPT ![g] = "Runnable"]
    /\ reason' = [reason EXCEPT ![g] = "None"]
    /\ wait' = [wait EXCEPT ![g] = "NONE"]
    /\ queue' = PushBack(RemoveFromQueues(g), g)

\* Seeded fault: the sweep may end early.
SweepEndsEarly == TRUE

NoSleeperDue ==
    \A g \in due : ~(state[g] = "Suspended" /\ reason[g] = "SleepWait"
                        /\ wait[g] = "SLEEP")

SchedulerInit ==
    /\ state = [g \in Goroutine |-> "Unborn"]
    /\ reason = [g \in Goroutine |-> "None"]
    /\ wait = [g \in Goroutine |-> "NONE"]
    /\ due = {}
    /\ persistent = {}
    /\ retrigger = {}
    /\ spent = {}
    /\ fiberReason = [g \in Goroutine |-> "NONE"]
    /\ queue = [p \in Priorities |-> <<>>]
    /\ current = NoGoroutine
    /\ deferred = [p \in {"HOTKEY", "NORMAL"} |-> <<>>]
    /\ wakeFd = FALSE
    /\ owed = {} /\ stranded = {}

SchedulerTypeOK ==
    /\ state \in [Goroutine -> LifeState]
    /\ reason \in [Goroutine -> SuspensionReason]
    /\ wait \in [Goroutine -> Awaitable]
    /\ due \subseteq Goroutine
    /\ persistent \subseteq Hotkey
    /\ retrigger \subseteq Hotkey
    /\ spent \subseteq Goroutine
    /\ fiberReason \in [Goroutine -> FiberReason]
    /\ queue \in [Priorities -> Seq(Goroutine)]
    /\ current \in Goroutine \cup {NoGoroutine}
    /\ deferred \in [{"HOTKEY", "NORMAL"} -> Seq(DeferredAction)]
    /\ wakeFd \in BOOLEAN
    /\ owed \subseteq Hotkey
    /\ stranded \subseteq Goroutine
=============================================================================
