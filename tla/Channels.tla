------------------------------ MODULE Channels ------------------------------
(***************************************************************************)
(* How goroutines wait for one another: the channels and the join of       *)
(* ConcurrencyBridge.  A host call that has to wait only requests a        *)
(* suspension; the goroutine is parked later, when its slice ends and the  *)
(* engine calls Scheduler::suspend().  Goroutines share the one VM thread, *)
(* so nothing of theirs falls in between; the message handlers of script   *)
(* threads run on threads of their own, and their sends do.                *)
(*                                                                         *)
(* Which goroutine runs next is left open; ExecutionEngine has that.       *)
(***************************************************************************)
EXTENDS Naturals, Sequences, FiniteSets, Functions

CONSTANTS
    Goroutine, NoGoroutine,
    Channel,
    Value, Null,     \* values, each sent at most once (a bound of the model)
    Hotkey,          \* goroutines that scripts may resume or stop as hotkeys
    Actor            \* script threads whose handlers send on channels

ASSUME ChannelsAssumption ==
    /\ NoGoroutine \notin Goroutine /\ Null \notin Value \cup Goroutine \cup Channel
    /\ Goroutine \cap Channel = {}
    /\ Hotkey \subseteq Goroutine

VARIABLES
    gstate,    \* Goroutine::state; "Leaving" between the request and the suspension
    queued,    \* goroutines in a run queue
    handle,    \* Goroutine::wait_handle: the channel or goroutine, or Null
    resume,    \* WaitHandle::resume_value
    current,   \* Scheduler::current()
    buffer,    \* Channel::queue
    open,      \* channels_ without its closed ones
    known,     \* channels_
    sent,      \* history: the values accepted, per channel
    taken,     \* history: the values handed to a receiver, per channel
    got        \* history: the values a goroutine's receive() calls returned

goroutineVars == <<gstate, queued, handle, resume, current>>
channelVars == <<buffer, open, known>>
history == <<sent, taken, got>>
vars == <<goroutineVars, channelVars, history>>

Waiting(x) == {g \in Goroutine : gstate[g] = "Suspended" /\ handle[g] = x}
Accepted == UNION {Range(sent[c]) : c \in Channel}

\* A value reaches the program.
Return(g, v) ==
    got' = IF v \in Value THEN [got EXCEPT ![g] = Append(@, v)] ELSE got

RequestSuspension(g, x) ==
    /\ gstate' = [gstate EXCEPT ![g] = "Leaving"]
    /\ handle' = [handle EXCEPT ![g] = x]
-----------------------------------------------------------------------------
(* The scheduler, from afar.                                                *)

\* Seeded fault: the wait handle is not cleared.
PickKeepsHandle(g) ==
    /\ current = NoGoroutine /\ gstate[g] = "Runnable" /\ g \in queued
    /\ current' = g /\ queued' = queued \ {g}
    /\ gstate' = [gstate EXCEPT ![g] = "Running"]
    /\ IF handle[g] = Null THEN UNCHANGED got ELSE Return(g, resume[g])
    /\ UNCHANGED <<handle, resume, channelVars, sent, taken>>

\* A goroutine that waited finds the resume value in place of its placeholder.
Pick(g) ==
    /\ current = NoGoroutine /\ gstate[g] = "Runnable" /\ g \in queued
    /\ current' = g /\ queued' = queued \ {g}
    /\ gstate' = [gstate EXCEPT ![g] = "Running"]
    /\ IF handle[g] = Null THEN UNCHANGED <<handle, resume, got>>
       ELSE /\ Return(g, resume[g])
            /\ handle' = [handle EXCEPT ![g] = Null]
            /\ resume' = [resume EXCEPT ![g] = Null]
    /\ UNCHANGED <<channelVars, sent, taken>>

EndSlice(g, s) ==
    /\ current = g /\ gstate[g] = "Running"
    /\ current' = NoGoroutine
    /\ gstate' = [gstate EXCEPT ![g] = s]
    /\ UNCHANGED <<handle, resume, channelVars, history>>

Yield(g) == EndSlice(g, "Runnable") /\ queued' = queued \cup {g}
Complete(g) == EndSlice(g, "Done") /\ UNCHANGED queued

\* suspend() changes the state, then takes the goroutine out of the run queues.
Suspend(g) ==
    /\ current = g /\ gstate[g] = "Leaving"
    /\ gstate' = [gstate EXCEPT ![g] = "Suspended"]
    /\ UNCHANGED <<queued, handle, resume, current, channelVars, history>>

RemoveFromQueues(g) ==
    /\ current = g /\ gstate[g] \notin {"Running", "Leaving"}
    /\ queued' = queued \ {g}
    /\ current' = NoGoroutine
    /\ UNCHANGED <<gstate, handle, resume, channelVars, history>>

\* Seeded fault: the goroutine is not put back into a run queue.
UnparkOnlyMarks(g) ==
    gstate' = [gstate EXCEPT ![g] = "Runnable"] /\ UNCHANGED queued

Unpark(g) ==
    /\ gstate' = [gstate EXCEPT ![g] = "Runnable"]
    /\ queued' = queued \cup {g}

\* Hotkey.resume and Hotkey.stop, called by another goroutine.
HotkeyResume(h) ==
    /\ current # NoGoroutine /\ gstate[current] = "Running"
    /\ gstate[h] = "Suspended"
    /\ Unpark(h)
    /\ UNCHANGED <<handle, resume, current, channelVars, history>>

HotkeyStop(h) ==
    /\ current # NoGoroutine /\ gstate[current] = "Running"
    /\ h # current /\ gstate[h] # "Done"
    /\ gstate' = [gstate EXCEPT ![h] = "Done"]
    /\ queued' = queued \ {h}
    /\ UNCHANGED <<handle, resume, current, channelVars, history>>
-----------------------------------------------------------------------------
(* Channels.  Each call holds channels_mutex_ from beginning to end.        *)

SendFrom(c, v, q) ==
    /\ c \in open /\ v \notin Accepted
    /\ sent' = [sent EXCEPT ![c] = Append(@, v)]
    /\ IF Waiting(c) = {}
         THEN /\ buffer' = [buffer EXCEPT ![c] = q]
              /\ UNCHANGED <<gstate, queued, resume, taken>>
         ELSE \E g \in Waiting(c) :
              /\ buffer' = [buffer EXCEPT ![c] = Tail(q)]
              /\ resume' = [resume EXCEPT ![g] = Head(q)]
              /\ taken' = [taken EXCEPT ![c] = Append(@, Head(q))]
              /\ Unpark(g)
    /\ UNCHANGED <<handle, current, open, known, got>>

\* Seeded fault: the value just sent goes first.
SendPushesFront(c, v) == SendFrom(c, v, <<v>> \o buffer[c])

\* A waiting receiver, whichever comes first in an unordered map, gets the
\* front of the queue, and is unparked.
Send(c, v) == SendFrom(c, v, Append(buffer[c], v))

ReceiveValue(g, c) ==
    /\ c \in known /\ buffer[c] # <<>>
    /\ Return(g, Head(buffer[c]))
    /\ taken' = [taken EXCEPT ![c] = Append(@, Head(buffer[c]))]
    /\ buffer' = [buffer EXCEPT ![c] = Tail(@)]
    /\ UNCHANGED <<goroutineVars, open, known, sent>>

\* Seeded fault: the queue is not looked at before waiting.
ReceiveWaitsAnyway(g, c) ==
    /\ c \in open
    /\ RequestSuspension(g, c)
    /\ UNCHANGED <<queued, resume, current, channelVars, history>>

ReceiveWaits(g, c) ==
    /\ c \in open /\ buffer[c] = <<>>
    /\ RequestSuspension(g, c)
    /\ UNCHANGED <<queued, resume, current, channelVars, history>>

\* Seeded fault: empty channels are erased, closed or not.
CloseErasesEmpty(c) ==
    /\ c \in open
    /\ open' = open \ {c}
    /\ known' = {d \in known : buffer[d] # <<>>}
    /\ UNCHANGED <<goroutineVars, buffer, history>>

\* Closed channels leave channels_ once they are empty, whichever is closed.
\* Nobody is unparked.
Close(c) ==
    /\ c \in open
    /\ open' = open \ {c}
    /\ known' = {d \in known : d \in open \ {c} \/ buffer[d] # <<>>}
    /\ UNCHANGED <<goroutineVars, buffer, history>>

\* thread.join of a goroutine, called by a goroutine.
Join(g, h) ==
    /\ g # h /\ gstate[h] # "Done"
    /\ RequestSuspension(g, h)
    /\ UNCHANGED <<queued, resume, current, channelVars, history>>

Running(g) == current = g /\ gstate[g] = "Running"

Call(g) ==
    /\ Running(g)
    /\ \/ \E c \in Channel :
            \/ ReceiveValue(g, c) \/ ReceiveWaits(g, c) \/ Close(c)
            \/ \E v \in Value : Send(c, v)
       \/ \E h \in Goroutine : Join(g, h)

\* The message handler of a script thread, at any time.
ActorSend(a) == \E c \in Channel, v \in Value : Send(c, v)
-----------------------------------------------------------------------------
Init ==
    /\ gstate = [g \in Goroutine |-> "Runnable"] /\ queued = Goroutine
    /\ handle = [g \in Goroutine |-> Null] /\ resume = [g \in Goroutine |-> Null]
    /\ current = NoGoroutine
    /\ buffer = [c \in Channel |-> <<>>] /\ open = Channel /\ known = Channel
    /\ sent = [c \in Channel |-> <<>>] /\ taken = [c \in Channel |-> <<>>]
    /\ got = [g \in Goroutine |-> <<>>]

Next ==
    \/ \E g \in Goroutine :
        \/ Pick(g) \/ Yield(g) \/ Complete(g) \/ Call(g)
        \/ Suspend(g) \/ RemoveFromQueues(g)
    \/ \E h \in Hotkey : HotkeyResume(h) \/ HotkeyStop(h)
    \/ \E a \in Actor : ActorSend(a)

Spec == Init /\ [][Next]_vars

\* A slice ends, by suspension or by its budget, and a runnable goroutine gets its
\* turn: ExecutionEngine's ReadyRuns.  The scripts owe nothing.
FairSpec ==
    /\ Spec
    /\ \A g \in Goroutine :
        WF_vars(Yield(g) \/ Suspend(g) \/ RemoveFromQueues(g)) /\ SF_vars(Pick(g))
-----------------------------------------------------------------------------
(* Properties.                                                              *)

\* The type invariant.
ChannelsTypeOK ==
    /\ gstate \in [Goroutine -> {"Runnable", "Running", "Leaving", "Suspended", "Done"}]
    /\ queued \subseteq Goroutine
    /\ handle \in [Goroutine -> Goroutine \cup Channel \cup {Null}]
    /\ resume \in [Goroutine -> Value \cup {Null}]
    /\ current \in Goroutine \cup {NoGoroutine}
    /\ buffer \in [Channel -> Seq(Value)]
    /\ open \subseteq known /\ known \subseteq Channel
    /\ sent \in [Channel -> Seq(Value)] /\ taken \in [Channel -> Seq(Value)]
    /\ got \in [Goroutine -> Seq(Value)]

\* A channel is a FIFO: its values are handed to receivers in the order in which
\* they were sent, whether a receiver finds them in the queue or waits for them.
HandedInOrder == \A c \in Channel : sent[c] = taken[c] \o buffer[c]

\* Where a value is: at which positions of which queues, and with which receivers:
\* handed to one that has not run since, or received.
Buffered(v) ==
    UNION {{<<c, i>> : i \in {j \in DOMAIN buffer[c] : buffer[c][j] = v}} : c \in Channel}
InHands(v) ==
    {<<g, 0>> : g \in {h \in Goroutine : resume[h] = v}}
    \cup UNION {{<<g, i>> : i \in {j \in DOMAIN got[g] : got[g][j] = v}} : g \in Goroutine}

\* No value is lost, none arrives twice: one that was accepted is in one queue, or
\* on its way to one receiver, or has been received once.
OnePlace == \A v \in Accepted : Cardinality(Buffered(v) \cup InHands(v)) = 1

\* Nobody waits for a value that is there: "the sender unparks it".
NoStarvedReceiver ==
    \A c \in Channel : Waiting(c) # {} => buffer[c] = <<>>

\* A value handed to a waiting receiver arrives, unless the receiver is stopped.
HandedOverArrives ==
    \A g \in Goroutine, v \in Value :
        resume[g] = v ~> v \in Range(got[g]) \/ gstate[g] = "Done"

\* Closing a channel ends the wait of its receivers: "Channel deadlock on close",
\* says the changelog, is fixed.
CloseEndsWaits ==
    \A g \in Goroutine, c \in Channel :
        g \in Waiting(c) /\ c \notin open ~> g \notin Waiting(c)

\* The wait for a goroutine ends with it: "The ExecutionEngine will unpark when
\* goroutine completes", says ConcurrencyBridge.cpp.
JoinReturns ==
    \A g, h \in Goroutine :
        g \in Waiting(h) /\ gstate[h] = "Done" ~> g \notin Waiting(h)
=============================================================================
