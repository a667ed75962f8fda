---------------------------- MODULE Timers_proofs ----------------------------
(***************************************************************************)
(* Proofs about module Timers, for every set of intervals and timeouts and *)
(* every interleaving of their threads with pause(), resume() and stop().  *)
(*                                                                         *)
(* A tick that is late has passed its last test of the flags before they   *)
(* were set.  The invariant says where the thread can be once it has       *)
(* pushed such a tick: at a place from which it reaches another push only  *)
(* through a test of the flags that are still set.                         *)
(***************************************************************************)
EXTENDS Timers, SequenceTheorems, TLAPS

\* The types, with a place for the timer of no call.
Typed ==
    /\ tpc \in [Timer -> {"none", "loop", "pauseTest", "park", "parked", "arm",
                          "enter", "sleep", "fire", "push", "ended"}]
    /\ paused \in [Timer -> BOOLEAN] /\ stopped \in [Timer -> BOOLEAN]
    /\ notified \subseteq Timer
    /\ vm \in [at : {"idle", "notify", "join"}, on : Timer \cup {NoCall.on}]
    /\ vm.at # "idle" => vm.on \in Timer
    /\ events \in Seq(Timer) /\ fires \in Seq(Timer)
    /\ halted \subseteq Timer /\ late \subseteq Timer
    /\ pushed \in [Timer -> 0 .. 2]

\* Where the thread of a timer that is paused or stopped is at least one test of
\* the flags away from a push.
BehindTest == {"loop", "pauseTest", "park", "parked", "arm", "ended"}

\* Timeouts are never paused; a late tick means that the timer is paused or
\* stopped, that it is the only one, and that the thread is behind a test.
LateOnce ==
    \A t \in Timer :
        /\ paused[t] => t \in Interval
        /\ pushed[t] # 0 => /\ pushed[t] = 1
                            /\ paused[t] \/ stopped[t]
                            /\ tpc[t] \in BehindTest

\* What stop() waits for: a stopped timer's thread has ended, and stays so.
HaltedEnded == \A t \in halted : tpc[t] = "ended"

TInv == Typed /\ LateOnce /\ HaltedEnded

-----------------------------------------------------------------------------
\* The steps of the VM thread that touch no timer's thread or flags.
LEMMA QuietStep ==
    ASSUME TInv, Typed', UNCHANGED <<tpc, flagVars, pushed, halted>>
    PROVE  TInv'
BY DEF TInv, LateOnce, HaltedEnded, flagVars

\* A step of t's thread that pushes nothing: out of a place behind the test it
\* leads to another, and an ended thread takes none.
LEMMA ThreadMoves ==
    ASSUME TInv, Typed', NEW t \in Timer, NEW at, tpc[t] # "ended", Goto(t, at),
           UNCHANGED <<flagVars, pushed, halted>>,
           tpc[t] \in BehindTest /\ (paused[t] \/ stopped[t]) => at \in BehindTest
    PROVE  TInv'
<1>1. \A u \in Timer : tpc'[u] = IF u = t THEN at ELSE tpc[u]
  BY DEF TInv, Typed, Goto
<1>2. halted \subseteq Timer
  BY DEF TInv, Typed
<1> QED BY <1>1, <1>2 DEF TInv, LateOnce, HaltedEnded, flagVars

\* A call of the script that sets or clears a flag.
LEMMA FlagStep ==
    ASSUME TInv, Typed', NEW t \in Timer, UNCHANGED <<tpc, halted>>,
           \A u \in Timer : paused'[u] => paused[u] \/ u \in Interval,
           \A u \in Timer : /\ pushed'[u] # 0 => pushed'[u] = pushed[u]
                            /\ paused[u] \/ stopped[u] =>
                                 paused'[u] \/ stopped'[u] \/ pushed'[u] = 0
    PROVE  TInv'
BY DEF TInv, LateOnce, HaltedEnded

\* Every step keeps the types.
LEMMA TypeStep ==
    ASSUME TInv, [Next]_vars
    PROVE  Typed'
<1>1. Typed
  BY DEF TInv
<1>2. CASE UNCHANGED vars
  BY <1>1, <1>2 DEF Typed, vars, threadVars, flagVars
<1>3. ASSUME NEW t \in Timer,
             Create(t) \/ Stop(t) \/ (t \in Pausable /\ (Pause(t) \/ Resume(t)))
      PROVE  Typed'
  <2>1. CASE Create(t)
    BY <1>1, <2>1 DEF Typed, Create, threadVars, flagVars
  <2>2. CASE Pause(t)
    BY <1>1, <2>2 DEF Typed, Pause, threadVars, flagVars
  <2>3. CASE Resume(t)
    BY <1>1, <2>3 DEF Typed, Resume, threadVars, flagVars
  <2>4. CASE Stop(t)
    BY <1>1, <2>4 DEF Typed, Stop, threadVars, flagVars
  <2> QED BY <1>3, <2>1, <2>2, <2>3, <2>4
<1>4. CASE StopNotifies \/ StopJoins
  BY <1>1, <1>4 DEF Typed, StopNotifies, StopJoins, threadVars, flagVars, NoCall
<1>5. CASE HandleEvent
  <2>1. Head(events) \in Timer /\ Tail(events) \in Seq(Timer)
    BY <1>1, <1>5, HeadTailProperties DEF Typed, HandleEvent
  <2>2. fires' \in Seq(Timer)
    BY <1>1, <1>5, <2>1, AppendProperties DEF Typed, HandleEvent
  <2> QED BY <1>1, <1>5, <2>1, <2>2 DEF Typed, HandleEvent, threadVars, flagVars
<1>6. CASE RunFire
  <2>1. Head(fires) \in Timer /\ Tail(fires) \in Seq(Timer)
    BY <1>1, <1>6, HeadTailProperties DEF Typed, RunFire
  <2> QED BY <1>1, <1>6, <2>1 DEF Typed, RunFire, threadVars, flagVars
<1>7. ASSUME NEW t \in Timer,
             \/ TestStopped(t) \/ TestPaused(t) \/ Arm(t) \/ BeginWait(t)
             \/ WakeUp(t) \/ Expire(t) \/ TestAgain(t)
      PROVE  Typed'
  BY <1>1, <1>7
     DEF Typed, TestStopped, TestPaused, Arm, BeginWait, WakeUp, Expire, TestAgain, Goto,
         WhenInterrupted, flagVars
<1>8. ASSUME NEW t \in Timer, Push(t) PROVE Typed'
  <2>1. events' \in Seq(Timer)
    BY <1>1, <1>8, AppendProperties DEF Typed, Push, PushThen
  <2>2. pushed' \in [Timer -> 0 .. 2]
    BY <1>1, <1>8 DEF Typed, Push, PushThen
  <2> QED BY <1>1, <1>8, <2>1, <2>2 DEF Typed, Push, PushThen, Goto, flagVars
<1>9. Pausable \subseteq Timer
  BY TimersAssumption DEF Timer
<1> QED BY <1>2, <1>3, <1>4, <1>5, <1>6, <1>7, <1>8, <1>9
        DEF Next, VMStep, Script, ThreadStep, Notified, Spurious

\* Every step keeps the invariant: one case per operation.
LEMMA NextInvariant == TInv /\ [Next]_vars => TInv'
<1> SUFFICES ASSUME TInv, [Next]_vars PROVE TInv'
  OBVIOUS
<1>1. Typed /\ Typed'
  BY TypeStep DEF TInv
<1>2. Pausable \subseteq Interval /\ Interval \cap Timeout = {} /\ Interval \subseteq Timer
  BY TimersAssumption DEF Timer
<1>3. CASE StopNotifies \/ HandleEvent \/ RunFire \/ UNCHANGED vars
  BY <1>1, <1>3, QuietStep
     DEF StopNotifies, HandleEvent, RunFire, vars, threadVars, flagVars
<1>4. CASE StopJoins
  BY <1>1, <1>4
     DEF StopJoins, TInv, LateOnce, HaltedEnded, threadVars, flagVars
<1>5. ASSUME NEW t \in Timer, Create(t) PROVE TInv'
  <2>1. \E at \in BehindTest : Goto(t, at)
    BY <1>5 DEF Create, Goto, BehindTest
  <2> QED BY <1>1, <1>5, <2>1, ThreadMoves DEF Create
<1>6. ASSUME NEW t \in Pausable, Pause(t) PROVE TInv'
  BY <1>1, <1>2, <1>6, FlagStep DEF Pause, Typed, threadVars
<1>7. ASSUME NEW t \in Pausable, Resume(t) PROVE TInv'
  BY <1>1, <1>2, <1>7, FlagStep DEF Resume, Typed, threadVars
<1>8. ASSUME NEW t \in Timer, Stop(t) PROVE TInv'
  BY <1>1, <1>8, FlagStep DEF Stop, Typed, threadVars
<1>9. ASSUME NEW t \in Timer, TestStopped(t) \/ TestPaused(t) PROVE TInv'
  <2>1. /\ tpc[t] # "ended" /\ UNCHANGED <<flagVars, pushed, halted>>
        /\ \E at \in BehindTest : Goto(t, at)
    BY <1>9 DEF TestStopped, TestPaused, BehindTest
  <2> QED BY <1>1, <2>1, ThreadMoves
<1>10. ASSUME NEW t \in Timer, Arm(t) PROVE TInv'
  <2>1. /\ tpc[t] # "ended" /\ UNCHANGED <<flagVars, pushed, halted>>
        /\ \/ Interrupted(t) /\ \E at \in BehindTest : Goto(t, at)
           \/ ~Interrupted(t) /\ Goto(t, "enter")
    BY <1>10 DEF Arm, WhenInterrupted, BehindTest
  <2>2. paused[t] \/ stopped[t] => Interrupted(t)
    BY DEF Interrupted, TInv, LateOnce
  <2> QED BY <1>1, <2>1, <2>2, ThreadMoves
<1>11. ASSUME NEW t \in Timer, BeginWait(t) \/ WakeUp(t) \/ Expire(t) \/ TestAgain(t)
       PROVE  TInv'
  <2>1. PICK at : /\ Goto(t, at) /\ tpc[t] # "ended"
                  /\ tpc[t] \in BehindTest => at \in BehindTest
                  /\ UNCHANGED <<flagVars, pushed, halted>>
    BY <1>11 DEF BeginWait, WakeUp, Expire, TestAgain, BehindTest
  <2> QED BY <1>1, <2>1, ThreadMoves
<1>12. ASSUME NEW t \in Timer, Push(t) PROVE TInv'
  <2>1. /\ tpc[t] = "push" /\ pushed[t] = 0
    BY <1>12 DEF Push, PushThen, TInv, LateOnce, BehindTest
  <2>2. /\ \A u \in Timer : tpc'[u] = IF u # t THEN tpc[u]
                                      ELSE IF t \in Interval THEN "loop" ELSE "ended"
        /\ \A u \in Timer : pushed'[u] = IF u = t /\ (paused[t] \/ stopped[t])
                                         THEN 1 ELSE pushed[u]
        /\ UNCHANGED <<flagVars, halted>>
    BY <1>1, <1>12, <2>1 DEF Push, PushThen, Goto, Typed
  <2> QED BY <1>1, <2>1, <2>2
          DEF TInv, LateOnce, HaltedEnded, BehindTest, flagVars, Typed
<1> QED BY <1>3, <1>4, <1>5, <1>6, <1>7, <1>8, <1>9, <1>10, <1>11, <1>12
        DEF Next, VMStep, Script, ThreadStep, Notified, Spurious

\* No timer, no call, no event.
LEMMA InitInvariant == Init => TInv
BY EmptySeq DEF Init, TInv, Typed, LateOnce, HaltedEnded, NoCall

\* The strengthened invariant holds in every reachable state.
THEOREM Inductive == Spec => []TInv
BY InitInvariant, NextInvariant, PTL DEF Spec

\* Type correctness of the timers, wherever the script has a timer at all.
THEOREM TypeCorrect ==
    ASSUME Timer # {}
    PROVE  Spec => []TimersTypeOK
<1>1. NoCall.on \in Timer
  BY DEF NoCall
<1>2. TInv => TimersTypeOK
  BY <1>1 DEF TInv, Typed, TimersTypeOK
<1> QED BY <1>2, Inductive, PTL

\* For any number of timers, a pause or a stop that falls between any two steps
\* of a timer's thread lets at most one tick through.
THEOREM OneLateTick == Spec => []AtMostOneLateTick
<1>1. TInv => AtMostOneLateTick
  BY DEF TInv, Typed, LateOnce, AtMostOneLateTick
<1> QED BY <1>1, Inductive, PTL

\* Once stop() or cancel() has returned, the thread of that timer pushes nothing
\* more: a callback that runs later was an event, or scheduled, before.
THEOREM HaltedPushesNothing ==
    Spec => [][\A t \in halted : ~Push(t)]_vars
<1>1. TInv /\ [Next]_vars => [\A t \in halted : ~Push(t)]_vars
  BY DEF TInv, HaltedEnded, Push, PushThen
<1> QED BY <1>1, Inductive, PTL DEF Spec
=============================================================================
