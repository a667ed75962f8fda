----------------------------- MODULE EventQueue -----------------------------
(***************************************************************************)
(* EventQueue (compiler/runtime) over LockFreeQueue (utils): a linked list *)
(* with a dummy node at its head.  Any thread pushes: it exchanges the     *)
(* tail for its node, then links the previous tail to it, then writes the  *)
(* wake-up eventfd, three separate steps.  One thread pops: it moves the   *)
(* head to the next node, takes the event from it and deletes the old      *)
(* head.  Memory is explicit, a deleted node may be allocated again.       *)
(***************************************************************************)
EXTENDS Naturals, Sequences, Functions

CONSTANTS
    Event,      \* events, each pushed at most once (the bound of the model)
    Legacy,     \* events pushed through push(Callback)
    Producer,   \* threads that push
    Node,       \* memory for list nodes
    NoNode      \* nullptr

ASSUME EventQueueAssumption ==
    /\ Legacy \subseteq Event
    /\ NoNode \notin Node
    /\ Node # {}

VARIABLES
    next,       \* Node::next_
    value,      \* Node::value
    alive,      \* allocated nodes
    head, tail,
    ppc,        \* per producer: where it is in push() ...
    pnode,      \* ... its new node ...
    pprev,      \* ... and the tail it exchanged
    cpc,        \* where the processing thread is
    cold,       \* the head that pop() is about to delete
    cevent,     \* the event pop() returned
    wakeFd,     \* wakeupFd_ is readable
    closed,     \* shutdown_workers_
    sent,       \* events given to push()
    chain,      \* history: the nodes from head_ to tail_, linked or not
    taken       \* history: events dispatched

listVars == <<next, value, alive, head, tail, chain>>
pushVars == <<ppc, pnode, pprev, sent>>
popVars == <<cpc, cold, cevent, taken, closed>>
vars == <<listVars, pushVars, popVars, wakeFd>>

-----------------------------------------------------------------------------
(* push().  The shutdown test comes first and is not repeated; the legacy   *)
(* overload has none.                                                       *)

NewNode(p, e) ==
    /\ ppc[p] = "idle" /\ e \notin sent
    /\ e \in Legacy \/ ~closed
    /\ \E n \in Node \ alive :
        /\ alive' = alive \cup {n}
        /\ value' = [value EXCEPT ![n] = e]
        /\ next' = [next EXCEPT ![n] = NoNode]
        /\ pnode' = [pnode EXCEPT ![p] = n]
    /\ sent' = sent \cup {e}
    /\ ppc' = [ppc EXCEPT ![p] = "exchange"]
    /\ UNCHANGED <<head, tail, chain, pprev, popVars, wakeFd>>

ExchangeTail(p) ==
    /\ ppc[p] = "exchange"
    /\ pprev' = [pprev EXCEPT ![p] = tail]
    /\ tail' = pnode[p]
    /\ chain' = Append(chain, pnode[p])
    /\ ppc' = [ppc EXCEPT ![p] = "link"]
    /\ UNCHANGED <<next, value, alive, head, pnode, sent, popVars, wakeFd>>

\* Seeded fault: the previous tail is not linked.
LinkMissing(p) ==
    /\ ppc[p] = "link"
    /\ ppc' = [ppc EXCEPT ![p] = "signal"]
    /\ UNCHANGED <<listVars, pnode, pprev, sent, popVars, wakeFd>>

Link(p) ==
    /\ ppc[p] = "link"
    /\ next' = [next EXCEPT ![pprev[p]] = pnode[p]]
    /\ ppc' = [ppc EXCEPT ![p] = "signal"]
    /\ UNCHANGED <<value, alive, head, tail, chain, pnode, pprev, sent, popVars, wakeFd>>

\* signalWakeup()
Signal(p) ==
    /\ ppc[p] = "signal"
    /\ wakeFd' = TRUE
    /\ ppc' = [ppc EXCEPT ![p] = "idle"]
    /\ UNCHANGED <<listVars, pnode, pprev, sent, popVars>>

-----------------------------------------------------------------------------
(* The processing thread: its loop polls, with a timeout, and reads the     *)
(* eventfd; processAll() reads it again, then pops until pop() fails.       *)

PollReturns ==
    /\ cpc = "poll"
    /\ wakeFd' = FALSE /\ cpc' = "frame"
    /\ UNCHANGED <<listVars, pushVars, cold, cevent, taken, closed>>

DrainWakeup ==
    /\ cpc = "frame"
    /\ wakeFd' = FALSE /\ cpc' = "pop"
    /\ UNCHANGED <<listVars, pushVars, cold, cevent, taken, closed>>

\* pop() finds no successor: the rest of the frame follows, and the poll.
PopEmpty ==
    /\ cpc = "pop" /\ next[head] = NoNode
    /\ cpc' = IF closed THEN "gone" ELSE "poll"
    /\ UNCHANGED <<listVars, pushVars, cold, cevent, taken, closed, wakeFd>>

\* Seeded fault: the event of the dummy node is returned.
PopReadsDummy ==
    /\ cpc = "pop" /\ next[head] # NoNode
    /\ cold' = head
    /\ cevent' = value[head]
    /\ head' = next[head] /\ chain' = Tail(chain)
    /\ cpc' = "delete"
    /\ UNCHANGED <<next, value, alive, tail, pushVars, taken, closed, wakeFd>>

PopNext ==
    /\ cpc = "pop" /\ next[head] # NoNode
    /\ cold' = head
    /\ cevent' = value[next[head]]
    /\ head' = next[head] /\ chain' = Tail(chain)
    /\ cpc' = "delete"
    /\ UNCHANGED <<next, value, alive, tail, pushVars, taken, closed, wakeFd>>

\* Seeded fault: the new head is deleted.
DeleteNewHead ==
    /\ cpc = "delete"
    /\ alive' = alive \ {head}
    /\ cpc' = "dispatch"
    /\ UNCHANGED <<next, value, head, tail, chain, pushVars, cold, cevent, taken, closed,
                   wakeFd>>

DeleteOldHead ==
    /\ cpc = "delete"
    /\ alive' = alive \ {cold}
    /\ cpc' = "dispatch"
    /\ UNCHANGED <<next, value, head, tail, chain, pushVars, cold, cevent, taken, closed,
                   wakeFd>>

\* The event goes to its handler, a legacy callback to the worker threads;
\* clear() deletes its payload instead.
Dispatch ==
    /\ cpc = "dispatch"
    /\ taken' = IF closed THEN taken ELSE Append(taken, cevent)
    /\ cpc' = "pop"
    /\ UNCHANGED <<listVars, pushVars, cold, cevent, closed, wakeFd>>

\* ~EventQueue(), on the processing thread: no more pushes, then clear().  The
\* model ends there: the list's own destructor, which frees the nodes that a
\* push past the test has added since, is left to the owner of the producers.
Destroy ==
    /\ cpc = "poll"
    /\ closed' = TRUE /\ cpc' = "pop"
    /\ UNCHANGED <<listVars, pushVars, cold, cevent, taken, wakeFd>>

-----------------------------------------------------------------------------
Init ==
    \E dummy \in Node, e0 \in Event :
        /\ next = [n \in Node |-> NoNode]
        /\ value = [n \in Node |-> e0]
        /\ alive = {dummy} /\ head = dummy /\ tail = dummy /\ chain = <<dummy>>
        /\ ppc = [p \in Producer |-> "idle"]
        /\ pnode = [p \in Producer |-> dummy]
        /\ pprev = [p \in Producer |-> dummy]
        /\ sent = {}
        /\ cpc = "poll" /\ cold = dummy /\ cevent = e0
        /\ taken = <<>> /\ closed = FALSE
        /\ wakeFd = FALSE

\* Seeded fault: processAll() reads the eventfd after it has emptied the queue.
DrainsLast ==
    \/ PollReturns \/ PopNext \/ DeleteOldHead \/ Dispatch
    \/ /\ \/ cpc = "frame" /\ cpc' = "pop" /\ UNCHANGED wakeFd
          \/ cpc = "pop" /\ next[head] = NoNode /\ cpc' = "gone" /\ UNCHANGED wakeFd
          \/ cpc = "gone" /\ cpc' = "poll" /\ wakeFd' = FALSE
       /\ UNCHANGED <<listVars, pushVars, cold, cevent, taken, closed>>

PushStep(p) == ExchangeTail(p) \/ Link(p) \/ Signal(p)
ProcessStep ==
    PollReturns \/ DrainWakeup \/ PopEmpty \/ PopNext \/ DeleteOldHead \/ Dispatch

Next ==
    \/ ProcessStep \/ Destroy
    \/ \E p \in Producer : PushStep(p) \/ \E e \in Event : NewNode(p, e)

Spec == Init /\ [][Next]_vars

\* push() never blocks; the loop's poll has a timeout.
FairSpec ==
    /\ Spec
    /\ WF_vars(ProcessStep)
    /\ \A p \in Producer : WF_vars(PushStep(p))
-----------------------------------------------------------------------------
(* Properties.                                                              *)

\* The type invariant.
EventQueueTypeOK ==
    /\ next \in [Node -> Node \cup {NoNode}]
    /\ value \in [Node -> Event]
    /\ alive \subseteq Node
    /\ head \in Node /\ tail \in Node
    /\ ppc \in [Producer -> {"idle", "exchange", "link", "signal"}]
    /\ pnode \in [Producer -> Node]
    /\ pprev \in [Producer -> Node]
    /\ sent \subseteq Event
    /\ cpc \in {"poll", "frame", "pop", "delete", "dispatch", "gone"}
    /\ cold \in Node
    /\ cevent \in Event
    /\ wakeFd \in BOOLEAN /\ closed \in BOOLEAN
    /\ chain \in Seq(Node)
    /\ taken \in Seq(Event)

\* No thread touches deleted memory: the list's ends, the tail a producer still
\* has to link and every node in between are allocated, whatever pop() deletes
\* in the meantime.
NoFreedNode ==
    /\ {head, tail} \subseteq alive
    /\ \A p \in Producer :
        /\ ppc[p] \in {"exchange", "link"} => pnode[p] \in alive
        /\ ppc[p] = "link" => pprev[p] \in alive
    /\ \A n \in alive : next[n] # NoNode /\ n # cold => next[n] \in alive

\* The loop does not sleep on an event: while one is in the list, the eventfd is
\* readable or a producer is still on its way to write it.  This covers the event
\* that is complete but hidden behind an unlinked one.
NoLostEvent ==
    cpc = "poll" /\ Len(chain) > 1
        => wakeFd \/ \E p \in Producer : ppc[p] \in {"link", "signal"}

\* The list implements the queue of EventFifo: every event once, in the order of
\* the tail exchanges, although links appear in any order.
Waiting ==
    (IF cpc \in {"delete", "dispatch"} THEN <<cevent>> ELSE <<>>)
        \o [i \in 1 .. Len(chain) - 1 |-> value[chain[i + 1]]]

Fifo == INSTANCE EventFifo WITH waiting <- Waiting
ImplementsFifo == Fifo!Spec

\* Every event pushed is dispatched, unless the queue is destroyed.
EventDispatched == \A e \in Event : e \in sent ~> e \in Range(taken) \/ closed
=============================================================================
