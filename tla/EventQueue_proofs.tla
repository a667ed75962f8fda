-------------------------- MODULE EventQueue_proofs --------------------------
(***************************************************************************)
(* Proofs about EventQueue, for any number of events, producers and nodes: *)
(* deleted memory is never touched, no event is slept on, and the list     *)
(* implements the queue of EventFifo.                                      *)
(*                                                                         *)
(* The invariant describes the list by the history variable chain, the     *)
(* nodes in the order of the tail exchanges: which of its links exist, who *)
(* owes the missing ones, and which allocated nodes are not in it.         *)
(***************************************************************************)
EXTENDS EventQueue, SequenceTheorems, TLAPS

Pos == 1 .. Len(chain)
InChain(n) == \E i \in Pos : chain[i] = n

\* The chain runs from head_ to tail_ through distinct allocated nodes.
Chained ==
    /\ Len(chain) >= 1
    /\ chain[1] = head /\ chain[Len(chain)] = tail
    /\ \A i, j \in Pos : chain[i] = chain[j] => i = j
    /\ \A i \in Pos : chain[i] \in alive

\* A link of the chain is there, or a producer is about to write it.
Linked ==
    /\ next[tail] = NoNode
    /\ \A i \in Pos : i < Len(chain) =>
         \/ next[chain[i]] = chain[i + 1]
         \/ next[chain[i]] = NoNode /\ \E p \in Producer : ppc[p] = "link" /\ pprev[p] = chain[i]

\* A producer that still has to link owes one link of the chain, its own.
Linking ==
    /\ \A p \in Producer : ppc[p] = "link" =>
         \E i \in Pos : /\ i < Len(chain)
                        /\ chain[i] = pprev[p] /\ chain[i + 1] = pnode[p]
                        /\ next[chain[i]] = NoNode
    /\ \A p, q \in Producer :
         ppc[p] = "link" /\ ppc[q] = "link" /\ pprev[p] = pprev[q] => p = q

\* A node that is not in the list yet belongs to one producer.
Fresh ==
    \A p \in Producer : ppc[p] = "exchange" =>
      /\ pnode[p] \in alive /\ next[pnode[p]] = NoNode /\ ~InChain(pnode[p])
      /\ \A q \in Producer : ppc[q] = "exchange" /\ pnode[q] = pnode[p] => q = p
      /\ cpc = "delete" => cold # pnode[p]

\* The node that pop() deletes has left the list.
OldHead == cpc = "delete" => cold \in alive /\ ~InChain(cold)

\* Every allocated node is in the list, new, or about to be deleted.
Accounted ==
    \A n \in alive : \/ InChain(n)
                     \/ \E p \in Producer : ppc[p] = "exchange" /\ pnode[p] = n
                     \/ cpc = "delete" /\ n = cold

ListInv == Chained /\ Linked /\ Linking /\ Fresh /\ OldHead /\ Accounted

\* Destruction begins in the poll and does not return to it.
Closing == closed => cpc \notin {"poll", "frame"}

EInv == EventQueueTypeOK /\ ListInv /\ Closing /\ NoLostEvent

-------------------------------------------------------------------------------
LEMMA InitEInv == Init => EInv
<1> SUFFICES ASSUME Init PROVE EInv
  OBVIOUS
<1>1. PICK dummy \in Node, e0 \in Event :
        /\ next = [n \in Node |-> NoNode]
        /\ value = [n \in Node |-> e0]
        /\ alive = {dummy} /\ head = dummy /\ tail = dummy /\ chain = <<dummy>>
        /\ ppc = [p \in Producer |-> "idle"]
        /\ pnode = [p \in Producer |-> dummy]
        /\ pprev = [p \in Producer |-> dummy]
        /\ sent = {}
        /\ cpc = "poll" /\ cold = dummy /\ cevent = e0
        /\ taken = <<>> /\ closed = FALSE
        /\ wakeFd = FALSE
  BY DEF Init
<1>2. chain \in Seq(Node) /\ Len(chain) = 1 /\ chain[1] = dummy /\ taken \in Seq(Event)
  BY <1>1, EmptySeq
<1>3. EventQueueTypeOK
  BY <1>1, <1>2 DEF EventQueueTypeOK
<1>4. ListInv
  BY <1>1, <1>2 DEF ListInv, Chained, Linked, Linking, Fresh, OldHead, Accounted, Pos, InChain
<1> QED BY <1>1, <1>2, <1>3, <1>4 DEF EInv, Closing, NoLostEvent

\* What the chain is after a tail exchange and after a pop.
LEMMA ChainGrows ==
    ASSUME EventQueueTypeOK, NEW p \in Producer, ExchangeTail(p)
    PROVE  /\ chain' \in Seq(Node) /\ Len(chain) \in Nat /\ Len(chain') = Len(chain) + 1
           /\ \A i \in Pos : chain'[i] = chain[i]
           /\ chain'[Len(chain) + 1] = pnode[p]
BY AppendProperties, LenProperties DEF EventQueueTypeOK, ExchangeTail, Pos

LEMMA ChainShrinks ==
    ASSUME EventQueueTypeOK, chain # <<>>, PopNext
    PROVE  /\ chain' \in Seq(Node) /\ Len(chain) \in Nat /\ Len(chain') = Len(chain) - 1
           /\ \A i \in 1 .. Len(chain) - 1 : chain'[i] = chain[i + 1]
<1>1. chain' = Tail(chain)
  BY DEF PopNext
<1> QED BY <1>1, HeadTailProperties, LenProperties DEF EventQueueTypeOK

LEMMA TypeStep == EventQueueTypeOK /\ ListInv /\ [Next]_vars => EventQueueTypeOK'
<1> SUFFICES ASSUME EventQueueTypeOK, ListInv, [Next]_vars PROVE EventQueueTypeOK'
  OBVIOUS
<1> USE EventQueueAssumption DEF EventQueueTypeOK, listVars, pushVars, popVars
<1>1. ASSUME NEW p \in Producer, NEW e \in Event, NewNode(p, e) PROVE EventQueueTypeOK'
  BY <1>1 DEF NewNode
<1>2. ASSUME NEW p \in Producer, ExchangeTail(p) PROVE EventQueueTypeOK'
  BY <1>2, ChainGrows DEF ExchangeTail
<1>3. ASSUME NEW p \in Producer, Link(p) \/ Signal(p) PROVE EventQueueTypeOK'
  BY <1>3 DEF Link, Signal
<1>4. CASE PollReturns \/ DrainWakeup \/ PopEmpty \/ DeleteOldHead \/ Destroy
  BY <1>4 DEF PollReturns, DrainWakeup, PopEmpty, DeleteOldHead, Destroy
<1>5. CASE PopNext
  <2>1. chain # <<>> /\ chain' \in Seq(Node)
    BY <1>5, ChainShrinks DEF ListInv, Chained
  <2>2. next[head] \in Node
    BY <1>5 DEF PopNext
  <2> QED BY <1>5, <2>1, <2>2 DEF PopNext
<1>6. CASE Dispatch
  BY <1>6, AppendProperties DEF Dispatch
<1>7. CASE UNCHANGED vars
  BY <1>7 DEF vars
<1> QED BY <1>1, <1>2, <1>3, <1>4, <1>5, <1>6, <1>7 DEF Next, ProcessStep, PushStep

-------------------------------------------------------------------------------
\* A new node comes from outside the list and changes nothing in it.
LEMMA NewNodeKeepsList ==
    ASSUME EventQueueTypeOK, ListInv, NEW p \in Producer, NEW e \in Event, NewNode(p, e)
    PROVE  ListInv'
<1> USE DEF EventQueueTypeOK, ListInv, popVars
<1>1. PICK n \in Node \ alive :
        /\ alive' = alive \cup {n}
        /\ next' = [next EXCEPT ![n] = NoNode]
        /\ pnode' = [pnode EXCEPT ![p] = n]
  BY DEF NewNode
<1>2. /\ ppc[p] = "idle" /\ ppc' = [ppc EXCEPT ![p] = "exchange"]
      /\ UNCHANGED <<head, tail, chain, pprev, cpc, cold>>
  BY DEF NewNode
<1>3. Chained'
  BY <1>1, <1>2 DEF Chained, Pos
<1>4. tail # n /\ \A i \in Pos : chain[i] # n
  BY <1>1 DEF Chained, Pos
<1>5. \A q \in Producer : /\ ppc'[q] = "link" <=> ppc[q] = "link"
                          /\ ppc[q] = "link" => pnode'[q] = pnode[q]
  BY <1>1, <1>2
<1>6. Linked'
  BY <1>1, <1>2, <1>4, <1>5 DEF Linked, Pos
<1>7. Linking'
  <2>1. Pos' = Pos /\ \A i \in Pos : next'[chain[i]] = next[chain[i]]
    BY <1>1, <1>2, <1>4 DEF Pos
  <2> QED BY <1>2, <1>5, <2>1 DEF Linking
<1>8. Fresh'
  BY <1>1, <1>2, <1>4 DEF Fresh, InChain, Pos, OldHead
<1>9. OldHead' /\ Accounted'
  BY <1>1, <1>2 DEF OldHead, Accounted, InChain, Pos
<1> QED BY <1>3, <1>6, <1>7, <1>8, <1>9

\* The exchange appends the node; the link to it is owed.
LEMMA ExchangeKeepsList ==
    ASSUME EventQueueTypeOK, ListInv, NEW p \in Producer, ExchangeTail(p)
    PROVE  ListInv'
<1> DEFINE n == pnode[p]
<1> USE DEF EventQueueTypeOK, ListInv
<1>1. /\ ppc[p] = "exchange" /\ ppc' = [ppc EXCEPT ![p] = "link"]
      /\ pprev' = [pprev EXCEPT ![p] = tail] /\ tail' = n
      /\ UNCHANGED <<next, alive, head, pnode, cpc, cold>>
  BY DEF ExchangeTail, popVars
<1>2. /\ Len(chain) \in Nat /\ Len(chain') = Len(chain) + 1
      /\ \A i \in Pos : chain'[i] = chain[i]
      /\ chain'[Len(chain) + 1] = n
      /\ Len(chain) >= 1
  BY ChainGrows DEF Chained
<1>3. Pos' = Pos \cup {Len(chain) + 1} /\ Len(chain) \in Pos /\ 1 \in Pos
  BY <1>2 DEF Pos
<1>4. /\ n \in alive /\ next[n] = NoNode /\ \A i \in Pos : chain[i] # n
      /\ \A q \in Producer : ppc[q] = "exchange" /\ pnode[q] = n => q = p
      /\ cpc = "delete" => cold # n
  BY <1>1 DEF Fresh, InChain
<1> HIDE DEF n
<1>5. \A x : InChain(x)' <=> InChain(x) \/ x = n
  BY <1>2, <1>3 DEF InChain
<1>6. Chained'
  BY <1>1, <1>2, <1>3, <1>4 DEF Chained
<1>7. Linked'
  <2>1. ASSUME NEW i \in Pos', i < Len(chain')
        PROVE  \/ next'[chain'[i]] = chain'[i + 1]
               \/ /\ next'[chain'[i]] = NoNode
                  /\ \E q \in Producer : ppc'[q] = "link" /\ pprev'[q] = chain'[i]
    <3>1. CASE i = Len(chain)
      BY <1>1, <1>2, <1>3, <3>1 DEF Chained, Linked
    <3>2. CASE i # Len(chain)
      <4>1. i \in Pos /\ i + 1 \in Pos /\ i < Len(chain)
        BY <1>2, <2>1, <3>2 DEF Pos
      <4> QED BY <1>1, <1>2, <4>1 DEF Linked
    <3> QED BY <3>1, <3>2
  <2> QED BY <1>1, <1>4, <2>1 DEF Linked
<1>8. Linking'
  <2>1. ASSUME NEW q \in Producer, ppc'[q] = "link"
        PROVE  \E i \in Pos' : /\ i < Len(chain') /\ chain'[i] = pprev'[q]
                               /\ chain'[i + 1] = pnode'[q] /\ next'[chain'[i]] = NoNode
    <3>1. CASE q = p
      <4> DEFINE i == Len(chain)
      <4>1. i \in Pos' /\ i < Len(chain') /\ chain'[i] = tail /\ chain'[i + 1] = n
        BY <1>2, <1>3 DEF Chained
      <4> HIDE DEF i
      <4> QED BY <1>1, <3>1, <4>1 DEF Linked, n
    <3>2. CASE q # p
      <4>1. PICK i \in Pos : /\ i < Len(chain) /\ chain[i] = pprev[q]
                             /\ chain[i + 1] = pnode[q] /\ next[chain[i]] = NoNode
        BY <1>1, <2>1, <3>2 DEF Linking
      <4>2. i \in Pos' /\ i + 1 \in Pos /\ i < Len(chain')
        BY <1>2, <4>1 DEF Pos
      <4> QED BY <1>1, <1>2, <3>2, <4>1, <4>2
    <3> QED BY <3>1, <3>2
  <2>2. ASSUME NEW q \in Producer, q # p, ppc[q] = "link" PROVE pprev[q] # tail
    <3>1. PICK i \in Pos : i < Len(chain) /\ chain[i] = pprev[q]
      BY <2>2 DEF Linking
    <3> QED BY <1>2, <1>3, <3>1 DEF Chained
  <2>3. \A q, r \in Producer :
          ppc'[q] = "link" /\ ppc'[r] = "link" /\ pprev'[q] = pprev'[r] => q = r
    BY <1>1, <2>2 DEF Linking
  <2> QED BY <2>1, <2>3 DEF Linking
<1>9. Fresh' /\ OldHead' /\ Accounted'
  BY <1>1, <1>4, <1>5 DEF Fresh, OldHead, Accounted, n
<1> QED BY <1>6, <1>7, <1>8, <1>9

\* A producer writes the link it owes, and no other.
LEMMA LinkKeepsList ==
    ASSUME EventQueueTypeOK, ListInv, NEW p \in Producer, Link(p)
    PROVE  ListInv'
<1> USE DEF EventQueueTypeOK, ListInv
<1>1. /\ ppc[p] = "link" /\ ppc' = [ppc EXCEPT ![p] = "signal"]
      /\ next' = [next EXCEPT ![pprev[p]] = pnode[p]]
      /\ UNCHANGED <<alive, head, tail, chain, pnode, pprev, cpc, cold>>
  BY DEF Link, popVars
<1>2. PICK k \in Pos : /\ k < Len(chain) /\ chain[k] = pprev[p]
                       /\ chain[k + 1] = pnode[p]
  BY <1>1 DEF Linking
<1>3. Pos' = Pos /\ (\A x : InChain(x)' <=> InChain(x)) /\ Len(chain) \in Pos
  BY <1>1, <1>2, LenProperties DEF Pos, InChain
<1>4. \A i \in Pos : next'[chain[i]] = IF i = k THEN chain[k + 1] ELSE next[chain[i]]
  BY <1>1, <1>2 DEF Chained
<1>5. next'[tail] = NoNode
  BY <1>2, <1>3, <1>4 DEF Chained, Linked
<1>6. Linked'
  <2>1. ASSUME NEW i \in Pos, i < Len(chain), i # k, next[chain[i]] # chain[i + 1]
        PROVE  \E q \in Producer : ppc'[q] = "link" /\ pprev'[q] = chain[i]
    <3>1. PICK q \in Producer : ppc[q] = "link" /\ pprev[q] = chain[i]
      BY <2>1 DEF Linked
    <3>2. q # p
      BY <1>2, <2>1, <3>1 DEF Chained
    <3> QED BY <1>1, <3>1, <3>2
  <2> QED BY <1>1, <1>3, <1>4, <1>5, <2>1 DEF Linked
<1>7. Linking'
  <2>1. ASSUME NEW q \in Producer, ppc'[q] = "link"
        PROVE  \E i \in Pos : /\ i < Len(chain) /\ chain[i] = pprev[q]
                              /\ chain[i + 1] = pnode[q] /\ next'[chain[i]] = NoNode
    <3>1. ppc[q] = "link" /\ q # p
      BY <1>1, <2>1
    <3>2. PICK i \in Pos : /\ i < Len(chain) /\ chain[i] = pprev[q]
                           /\ chain[i + 1] = pnode[q] /\ next[chain[i]] = NoNode
      BY <3>1 DEF Linking
    <3>3. i # k
      BY <1>1, <1>2, <3>1, <3>2 DEF Linking
    <3> QED BY <1>4, <3>2, <3>3
  <2>2. \A q, r \in Producer :
          ppc'[q] = "link" /\ ppc'[r] = "link" /\ pprev'[q] = pprev'[r] => q = r
    BY <1>1 DEF Linking
  <2> QED BY <1>1, <1>3, <2>1, <2>2 DEF Linking
<1>8. Fresh'
  BY <1>1, <1>2, <1>3 DEF Fresh, InChain
<1>9. Chained' /\ OldHead' /\ Accounted'
  BY <1>1, <1>3 DEF Chained, OldHead, Accounted
<1> QED BY <1>6, <1>7, <1>8, <1>9

\* pop() takes the dummy out of the list; the next node takes its place.
LEMMA PopKeepsList ==
    ASSUME EventQueueTypeOK, ListInv, PopNext
    PROVE  ListInv' /\ next[head] = chain[2] /\ Len(chain) > 1
<1> USE DEF EventQueueTypeOK, ListInv
<1>1. /\ cpc = "pop" /\ cpc' = "delete" /\ cold' = head /\ head' = next[head]
      /\ next[head] # NoNode
      /\ UNCHANGED <<next, alive, tail, ppc, pnode, pprev>>
  BY DEF PopNext, pushVars
<1>2. /\ Len(chain) \in Nat /\ Len(chain') = Len(chain) - 1
      /\ \A i \in 1 .. Len(chain) - 1 : chain'[i] = chain[i + 1]
  BY ChainShrinks DEF Chained
<1>3. Len(chain) > 1
  BY <1>1, <1>2 DEF Chained, Linked
<1>4. 1 \in Pos /\ 2 \in Pos /\ head = chain[1] /\ head \in alive
  BY <1>2, <1>3 DEF Pos, Chained
<1>5. next[head] = chain[2]
  BY <1>1, <1>3, <1>4 DEF Linked
<1>6. ASSUME NEW i PROVE i \in Pos' <=> i + 1 \in Pos /\ i # 0 /\ i \in Int
  BY <1>2 DEF Pos
<1>7. \A i \in Pos' : i + 1 \in Pos /\ chain'[i] = chain[i + 1] /\ i + 1 # 1
  BY <1>2, <1>6 DEF Pos
<1>8. ASSUME NEW x PROVE InChain(x)' <=> InChain(x) /\ x # head
  <2>1. ASSUME NEW i \in Pos, chain[i] = x, x # head PROVE InChain(x)'
    <3>1. i - 1 \in Pos' /\ chain'[i - 1] = chain[i]
      BY <1>2, <1>4, <2>1 DEF Pos
    <3> QED BY <2>1, <3>1 DEF InChain
  <2>2. ASSUME NEW i \in Pos', chain'[i] = x PROVE InChain(x) /\ x # head
    BY <1>4, <1>7, <2>2 DEF InChain, Chained
  <2> QED BY <2>1, <2>2 DEF InChain
<1>13. Chained'
  <2>1. \A i, j \in Pos' : chain'[i] = chain'[j] => i = j
    <3> SUFFICES ASSUME NEW i \in Pos', NEW j \in Pos', chain'[i] = chain'[j] PROVE i = j
      OBVIOUS
    <3>1. i + 1 = j + 1
      BY <1>7 DEF Chained
    <3> QED BY <1>2, <3>1 DEF Pos
  <2>2. 1 \in Pos' /\ Len(chain') \in Pos' /\ Len(chain') + 1 = Len(chain)
    BY <1>2, <1>3 DEF Pos
  <2>3. chain'[1] = chain[2] /\ chain'[Len(chain')] = chain[Len(chain)]
    <3>1. chain'[1] = chain[1 + 1] /\ chain'[Len(chain')] = chain[Len(chain') + 1]
      BY <1>7, <2>2
    <3> QED BY <2>2, <3>1
  <2>4. \A i \in Pos' : chain'[i] \in alive'
    BY <1>1, <1>7 DEF Chained
  <2> QED BY <1>1, <1>3, <1>5, <2>1, <2>2, <2>3, <2>4 DEF Chained
<1>9. Linked'
  BY <1>1, <1>2, <1>3 DEF Linked, Pos
<1>10. Linking'
  <2>1. ASSUME NEW q \in Producer, ppc[q] = "link"
        PROVE  \E i \in Pos' : /\ i < Len(chain') /\ chain'[i] = pprev[q]
                               /\ chain'[i + 1] = pnode[q] /\ next[chain'[i]] = NoNode
    <3>1. PICK i \in Pos : /\ i < Len(chain) /\ chain[i] = pprev[q]
                           /\ chain[i + 1] = pnode[q] /\ next[chain[i]] = NoNode
      BY <2>1 DEF Linking
    <3>2. i # 1
      BY <1>1, <1>4, <3>1
    <3>3. i - 1 \in Pos' /\ i - 1 < Len(chain') /\ chain'[i - 1] = chain[i] /\ chain'[(i - 1) + 1] = chain[i + 1]
      BY <1>2, <3>1, <3>2 DEF Pos
    <3> QED BY <3>1, <3>3
  <2> QED BY <1>1, <2>1 DEF Linking
<1>11. Fresh'
  BY <1>1, <1>4, <1>8 DEF Fresh, InChain
<1>12. OldHead' /\ Accounted'
  BY <1>1, <1>4, <1>8 DEF OldHead, Accounted
<1> QED BY <1>3, <1>5, <1>13, <1>9, <1>10, <1>11, <1>12

LEMMA DeleteKeepsList ==
    ASSUME EventQueueTypeOK, ListInv, DeleteOldHead
    PROVE  ListInv'
<1> USE DEF EventQueueTypeOK, ListInv, InChain, Pos, pushVars
<1>1. /\ cpc = "delete" /\ cpc' = "dispatch" /\ alive' = alive \ {cold}
      /\ UNCHANGED <<next, head, tail, chain, cold, ppc, pnode, pprev>>
  BY DEF DeleteOldHead
<1>2. Chained'
  BY <1>1 DEF Chained, OldHead
<1>3. Linked' /\ Linking'
  BY <1>1 DEF Linked, Linking
<1>4. Fresh'
  BY <1>1 DEF Fresh
<1>5. OldHead' /\ Accounted'
  BY <1>1 DEF OldHead, Accounted
<1> QED BY <1>2, <1>3, <1>4, <1>5

\* Everything else leaves the list alone.
LEMMA ListStays ==
    ASSUME ListInv, UNCHANGED <<next, alive, head, tail, chain, pnode, pprev, cold>>,
           \A p \in Producer : /\ ppc'[p] = "exchange" <=> ppc[p] = "exchange"
                               /\ ppc'[p] = "link" <=> ppc[p] = "link",
           cpc' = "delete" <=> cpc = "delete"
    PROVE  ListInv'
<1> USE DEF ListInv, InChain, Pos
<1>1. Chained' /\ OldHead'
  BY DEF Chained, OldHead
<1>2. Linked' /\ Linking'
  BY DEF Linked, Linking
<1>3. Fresh' /\ Accounted'
  BY DEF Fresh, Accounted
<1> QED BY <1>1, <1>2, <1>3

\* The list keeps its shape in every step.
LEMMA ListStep == EventQueueTypeOK /\ ListInv /\ [Next]_vars => ListInv'
<1> SUFFICES ASSUME EventQueueTypeOK, ListInv, [Next]_vars PROVE ListInv'
  OBVIOUS
<1>1. ASSUME NEW p \in Producer, Signal(p) PROVE ListInv'
  <2>1. /\ UNCHANGED <<next, alive, head, tail, chain, pnode, pprev, cold, cpc>>
        /\ ppc[p] = "signal" /\ ppc' = [ppc EXCEPT ![p] = "idle"]
    BY <1>1 DEF Signal, listVars, popVars
  <2>2. ASSUME NEW q \in Producer
        PROVE  /\ ppc'[q] = "exchange" <=> ppc[q] = "exchange"
               /\ ppc'[q] = "link" <=> ppc[q] = "link"
    BY <2>1 DEF EventQueueTypeOK
  <2> QED BY <2>1, <2>2, ListStays
<1>2. CASE PollReturns \/ DrainWakeup \/ PopEmpty \/ Dispatch \/ Destroy
  BY <1>2, ListStays
     DEF PollReturns, DrainWakeup, PopEmpty, Dispatch, Destroy, listVars, pushVars
<1>3. CASE UNCHANGED vars
  BY <1>3, ListStays DEF vars, listVars, pushVars, popVars
<1> QED
  BY <1>1, <1>2, <1>3, NewNodeKeepsList, ExchangeKeepsList, LinkKeepsList, PopKeepsList,
     DeleteKeepsList DEF Next, ProcessStep, PushStep

\* Who finds the list empty although it is not has found a link that a producer
\* still owes; the producer's write of the eventfd comes after the link.
LEMMA WakeupStep ==
    ASSUME EInv, [Next]_vars
    PROVE  NoLostEvent' /\ Closing'
<1> USE DEF EInv, EventQueueTypeOK
<1>1. ASSUME NEW p \in Producer, NEW e \in Event, NewNode(p, e)
      PROVE  NoLostEvent' /\ Closing'
  BY <1>1 DEF NewNode, NoLostEvent, Closing, popVars
<1>2. ASSUME NEW p \in Producer, ExchangeTail(p) \/ Link(p) \/ Signal(p)
      PROVE  NoLostEvent' /\ Closing'
  BY <1>2 DEF ExchangeTail, Link, Signal, NoLostEvent, Closing, listVars, popVars
<1>3. CASE PopEmpty
  <2>1. Len(chain) > 1 => \E p \in Producer : ppc[p] = "link"
    <3> SUFFICES ASSUME Len(chain) > 1 PROVE \E p \in Producer : ppc[p] = "link"
      OBVIOUS
    <3>1. 1 \in Pos /\ 2 \in Pos /\ chain[1] = head /\ chain[2] # NoNode
      BY LenProperties, EventQueueAssumption, ElementOfSeq DEF Pos, ListInv, Chained
    <3>2. next[chain[1]] = NoNode
      BY <1>3, <3>1 DEF PopEmpty
    <3> QED BY <3>1, <3>2 DEF ListInv, Linked
  <2> QED
    BY <1>3, <2>1 DEF PopEmpty, NoLostEvent, Closing, listVars, pushVars
<1>4. CASE PollReturns \/ DrainWakeup \/ PopNext \/ DeleteOldHead \/ Dispatch \/ Destroy
  BY <1>4 DEF PollReturns, DrainWakeup, PopNext, DeleteOldHead, Dispatch, Destroy,
              NoLostEvent, Closing
<1>5. CASE UNCHANGED vars
  BY <1>5 DEF vars, NoLostEvent, Closing, listVars, pushVars, popVars
<1> QED BY <1>1, <1>2, <1>3, <1>4, <1>5 DEF Next, ProcessStep, PushStep

\* The inductive invariant.
THEOREM Inductive == Spec => []EInv
<1>1. EInv /\ [Next]_vars => EInv'
  BY TypeStep, ListStep, WakeupStep DEF EInv
<1> QED BY InitEInv, <1>1, PTL DEF Spec

\* No deleted node is touched: the ends of the list, the links between its nodes
\* and the nodes that producers hold are allocated, for any number of producers
\* and any reuse of memory.
THEOREM MemoryIsSafe == Spec => []NoFreedNode
<1>1. EInv => NoFreedNode
  <2> SUFFICES ASSUME EInv PROVE NoFreedNode
    OBVIOUS
  <2> USE DEF EInv, ListInv
  <2>1. Len(chain) \in Nat /\ 1 \in Pos /\ Len(chain) \in Pos
    BY LenProperties DEF EventQueueTypeOK, Chained, Pos
  <2>2. {head, tail} \subseteq alive
    BY <2>1 DEF Chained
  <2>3. ASSUME NEW p \in Producer, ppc[p] \in {"exchange", "link"}
        PROVE  pnode[p] \in alive /\ (ppc[p] = "link" => pprev[p] \in alive)
    <3>1. CASE ppc[p] = "exchange"
      BY <3>1 DEF Fresh
    <3>2. CASE ppc[p] = "link"
      <4>1. PICK i \in Pos : i < Len(chain) /\ chain[i] = pprev[p] /\ chain[i + 1] = pnode[p]
        BY <3>2 DEF Linking
      <4>2. i + 1 \in Pos
        BY <2>1, <4>1 DEF Pos
      <4> QED BY <4>1, <4>2 DEF Chained
    <3> QED BY <2>3, <3>1, <3>2
  <2>4. ASSUME NEW n \in alive, next[n] # NoNode, n # cold PROVE next[n] \in alive
    <3>1. PICK i \in Pos : chain[i] = n
      BY <2>4 DEF Accounted, InChain, Fresh
    <3>2. i < Len(chain)
      BY <2>1, <2>4, <3>1 DEF Chained, Linked, Pos
    <3>3. i + 1 \in Pos /\ next[n] = chain[i + 1]
      BY <2>1, <2>4, <3>1, <3>2 DEF Linked, Pos
    <3> QED BY <3>3 DEF Chained
  <2> QED BY <2>2, <2>3, <2>4 DEF NoFreedNode
<1> QED BY Inductive, <1>1, PTL

\* The loop never polls with an event in the list unless the eventfd is readable
\* or a producer is about to write it.
THEOREM NoEventIsSleptOn == Spec => []NoLostEvent
<1>1. EInv => NoLostEvent
  BY DEF EInv
<1> QED BY Inductive, <1>1, PTL

-------------------------------------------------------------------------------
(* The refinement of EventFifo.  The events of the list are the values of its *)
(* nodes but the first; an event that pop() has returned is still waiting.    *)

ListOf(c, v) == [i \in 1 .. Len(c) - 1 |-> v[c[i + 1]]]
InHand == IF cpc \in {"delete", "dispatch"} THEN <<cevent>> ELSE <<>>

LEMMA ListOfIsSeq ==
    ASSUME NEW c \in Seq(Node), Len(c) >= 1, NEW v \in [Node -> Event]
    PROVE  /\ ListOf(c, v) \in Seq(Event)
           /\ Len(ListOf(c, v)) = Len(c) - 1
           /\ \A i \in 1 .. Len(c) - 1 : ListOf(c, v)[i] = v[c[i + 1]]
<1> DEFINE n == Len(c) - 1
           l == [i \in 1 .. n |-> v[c[i + 1]]]
<1>1. n \in Nat /\ \A i \in 1 .. n : c[i + 1] \in Node
  BY LenProperties, ElementOfSeq
<1>2. l \in [1 .. n -> Event]
  BY <1>1
<1>3. l \in Seq(Event)
  BY <1>1, <1>2, SeqDef
<1>4. Len(l) = n
  BY <1>1, <1>3, LenProperties
<1>5. \A i \in 1 .. n : l[i] = v[c[i + 1]]
  OBVIOUS
<1> QED BY <1>3, <1>4, <1>5 DEF ListOf

\* What is appended to the second part is appended to the whole.
LEMMA ConcatAppend ==
    ASSUME NEW S, NEW a \in Seq(S), NEW b \in Seq(S), NEW x \in S
    PROVE  a \o Append(b, x) = Append(a \o b, x)
<1>1. a \o b \in Seq(S) /\ Append(b, x) \in Seq(S)
  BY ConcatProperties, AppendProperties
<1>2. a \o Append(b, x) \in Seq(S) /\ Append(a \o b, x) \in Seq(S)
  BY <1>1, ConcatProperties, AppendProperties
<1>3. Len(a) \in Nat /\ Len(b) \in Nat
  BY LenProperties
<1>4. Len(a \o Append(b, x)) = Len(a) + Len(b) + 1
  BY <1>1, <1>3, ConcatProperties, AppendProperties
<1>5. Len(Append(a \o b, x)) = Len(a) + Len(b) + 1
  BY <1>1, <1>3, ConcatProperties, AppendProperties
<1>6. ASSUME NEW i \in 1 .. Len(a) + Len(b) + 1
      PROVE  (a \o Append(b, x))[i] = Append(a \o b, x)[i]
  OBVIOUS
<1> QED BY <1>2, <1>4, <1>5, <1>6, SeqEqual

LEMMA WaitingParts ==
    /\ Waiting = InHand \o ListOf(chain, value)
    /\ Waiting' = InHand' \o ListOf(chain', value')
BY DEF Waiting, InHand, ListOf

\* A step that leaves the chain, its values and what pop() returned alone.
LEMMA WaitingStays ==
    ASSUME EInv, UNCHANGED chain, InHand' = InHand,
           \A i \in Pos : value'[chain[i]] = value[chain[i]]
    PROVE  Waiting' = Waiting
<1>1. Len(chain) \in Nat
  BY LenProperties DEF EInv, EventQueueTypeOK
<1>2. \A i \in 1 .. Len(chain) - 1 : i + 1 \in Pos
  BY <1>1 DEF Pos
<1>3. ListOf(chain', value') = ListOf(chain, value)
  BY <1>2 DEF ListOf
<1> QED BY <1>3, WaitingParts

\* The exchange of the tail is the push of the abstract queue ...
LEMMA ExchangePushes ==
    ASSUME EInv, EInv', NEW p \in Producer, ExchangeTail(p)
    PROVE  Fifo!Push(value[pnode[p]])
<1> DEFINE s == ListOf(chain, value)
           t == ListOf(chain', value')
           e == value[pnode[p]]
<1> USE DEF EInv, EventQueueTypeOK
<1>1. /\ UNCHANGED <<value, taken, closed, cpc, cevent>>
      /\ Len(chain) \in Nat /\ Len(chain) >= 1 /\ Len(chain') = Len(chain) + 1
      /\ \A i \in Pos : chain'[i] = chain[i]
      /\ chain'[Len(chain) + 1] = pnode[p]
  BY ChainGrows DEF ExchangeTail, popVars, ListInv, Chained
<1>2. /\ s \in Seq(Event) /\ Len(s) = Len(chain) - 1
      /\ \A i \in 1 .. Len(chain) - 1 : s[i] = value[chain[i + 1]]
  BY <1>1, ListOfIsSeq
<1>3. /\ t \in Seq(Event) /\ Len(t) = Len(chain)
      /\ \A i \in 1 .. Len(chain) : t[i] = value[chain'[i + 1]]
  <2>1. chain' \in Seq(Node) /\ value' \in [Node -> Event]
    OBVIOUS
  <2>2. Len(chain') >= 1 /\ Len(chain') - 1 = Len(chain)
    BY <1>1
  <2>3. UNCHANGED value
    BY <1>1
  <2> HIDE DEF EInv, EventQueueTypeOK
  <2> QED BY <2>1, <2>2, <2>3, ListOfIsSeq
<1>4. InHand \in Seq(Event) /\ InHand' = InHand /\ e \in Event
  BY <1>1, EmptySeq DEF InHand
<1>5. t = Append(s, e)
  <2> HIDE DEF s, t, e
  <2>1. /\ Append(s, e) \in Seq(Event) /\ Len(Append(s, e)) = Len(chain)
        /\ \A i \in 1 .. Len(chain) - 1 : Append(s, e)[i] = s[i]
        /\ Append(s, e)[Len(chain)] = e
    BY <1>1, <1>2, <1>4, AppendProperties
  <2>2. \A i \in 1 .. Len(chain) - 1 : i \in Pos /\ i + 1 \in Pos
    BY <1>1 DEF Pos
  <2>3. ASSUME NEW i \in 1 .. Len(t) PROVE t[i] = Append(s, e)[i]
    <3>1. CASE i = Len(chain)
      BY <1>1, <1>3, <2>1, <3>1 DEF e
    <3>2. CASE i < Len(chain)
      <4>1. i \in 1 .. Len(chain) - 1 /\ i \in 1 .. Len(chain)
        BY <1>1, <1>3, <3>2
      <4>2. s[i] = value[chain[i + 1]] /\ t[i] = value[chain'[i + 1]]
        BY <1>2, <1>3, <4>1
      <4>3. chain'[i + 1] = chain[i + 1]
        BY <1>1, <2>2, <4>1
      <4> QED BY <2>1, <4>1, <4>2, <4>3
    <3>3. Len(t) = Len(chain) /\ Len(chain) \in Nat
      BY <1>1, <1>3
    <3>4. i = Len(chain) \/ i < Len(chain)
      BY <3>3
    <3> QED BY <3>1, <3>2, <3>4
  <2> QED BY <1>3, <2>1, <2>3, SeqEqual
<1>6. Waiting' = Append(Waiting, e)
  <2> HIDE DEF s, t, e
  <2>1. InHand \o Append(s, e) = Append(InHand \o s, e)
    BY <1>2, <1>4, ConcatAppend
  <2> QED BY <1>4, <1>5, <2>1, WaitingParts DEF s, t
<1> QED BY <1>1, <1>6 DEF Fifo!Push

\* ... pop() only takes the event in hand ...
LEMMA PopKeepsWaiting ==
    ASSUME EInv, EInv', PopNext
    PROVE  Waiting' = Waiting
<1> DEFINE s == ListOf(chain, value)
           t == ListOf(chain', value')
<1> USE DEF EInv, EventQueueTypeOK
<1>1. /\ UNCHANGED value /\ cpc = "pop" /\ cpc' = "delete" /\ cevent' = value[chain[2]]
      /\ Len(chain) \in Nat /\ Len(chain) > 1 /\ Len(chain') = Len(chain) - 1
      /\ \A i \in 1 .. Len(chain) - 1 : chain'[i] = chain[i + 1]
  BY ChainShrinks, PopKeepsList DEF PopNext, ListInv, Chained
<1>2. /\ s \in Seq(Event) /\ Len(s) = Len(chain) - 1
      /\ \A i \in 1 .. Len(chain) - 1 : s[i] = value[chain[i + 1]]
  <2>1. chain \in Seq(Node) /\ value \in [Node -> Event]
    OBVIOUS
  <2>2. Len(chain) >= 1
    BY <1>1
  <2> HIDE DEF EInv, EventQueueTypeOK
  <2> QED BY <2>1, <2>2, ListOfIsSeq
<1>3. /\ t \in Seq(Event) /\ Len(t) = Len(chain) - 2
      /\ \A i \in 1 .. Len(chain) - 2 : t[i] = value[chain'[i + 1]]
  BY <1>1, ListOfIsSeq DEF ListInv, Chained
<1> HIDE DEF s, t
<1>4. Waiting = s
  BY <1>1, <1>2, ConcatEmptySeq, WaitingParts DEF InHand, s
<1>5. /\ <<cevent'>> \o t \in Seq(Event) /\ Len(<<cevent'>> \o t) = Len(chain) - 1
      /\ \A i \in 1 .. Len(chain) - 1 :
           (<<cevent'>> \o t)[i] = IF i = 1 THEN cevent' ELSE t[i - 1]
  <2>1. <<cevent'>> \in Seq(Event) /\ Len(<<cevent'>>) = 1 /\ <<cevent'>>[1] = cevent'
    OBVIOUS
  <2> QED BY <1>1, <1>3, <2>1, ConcatProperties
<1>6. ASSUME NEW i \in 1 .. Len(chain) - 1 PROVE s[i] = (<<cevent'>> \o t)[i]
  BY <1>1, <1>2, <1>3, <1>5
<1>7. s = <<cevent'>> \o t
  <2> DEFINE u == <<cevent'>> \o t
  <2>1. u \in Seq(Event) /\ Len(u) = Len(s) /\ \A i \in 1 .. Len(s) : s[i] = u[i]
    BY <1>2, <1>5, <1>6
  <2> HIDE DEF u
  <2>2. s = u
    BY <1>2, <2>1, SeqEqual
  <2> QED BY <2>2 DEF u
<1> QED BY <1>1, <1>4, <1>7, WaitingParts DEF InHand, t

\* ... and its dispatch takes it from the abstract queue.
LEMMA DispatchTakes ==
    ASSUME EInv, EInv', Dispatch
    PROVE  Fifo!Take \/ Fifo!Discard
<1> DEFINE s == ListOf(chain, value)
<1> USE DEF EInv, EventQueueTypeOK
<1>1. /\ UNCHANGED <<value, chain, cevent, closed>> /\ cpc = "dispatch" /\ cpc' = "pop"
      /\ taken' = IF closed THEN taken ELSE Append(taken, cevent)
  BY DEF Dispatch, listVars
<1>2. s \in Seq(Event) /\ cevent \in Event
  BY ListOfIsSeq DEF ListInv, Chained
<1> HIDE DEF s
<1>3. Waiting = <<cevent>> \o s /\ Waiting' = s
  BY <1>1, <1>2, ConcatEmptySeq, WaitingParts DEF InHand, s
<1>4. <<cevent>> \o s # <<>> /\ Head(<<cevent>> \o s) = cevent /\ Tail(<<cevent>> \o s) = s
  BY <1>2
<1> QED BY <1>1, <1>3, <1>4 DEF Fifo!Take, Fifo!Discard

\* The list, with links that appear in any order and memory that is reused, is a
\* queue: every event once, in the order of the tail exchanges.
THEOREM ListImplementsFifo == Spec => ImplementsFifo
<1>1. Init => Fifo!Init
  <2> SUFFICES ASSUME Init PROVE Waiting = <<>> /\ taken = <<>> /\ closed = FALSE
    BY DEF Fifo!Init
  <2>1. Len(chain) = 1 /\ cpc = "poll" /\ taken = <<>> /\ closed = FALSE
    BY DEF Init
  <2>2. ListOf(chain, value) = <<>>
    BY <2>1 DEF ListOf
  <2> QED BY <2>1, <2>2, WaitingParts DEF InHand
<1>2. EInv /\ EInv' /\ [Next]_vars => [Fifo!Next]_<<Waiting, taken, closed>>
  <2> SUFFICES ASSUME EInv, EInv', [Next]_vars
               PROVE  Fifo!Next \/ UNCHANGED <<Waiting, taken, closed>>
    OBVIOUS
  <2>1. ASSUME NEW p \in Producer, NEW e \in Event, NewNode(p, e)
        PROVE  UNCHANGED <<Waiting, taken, closed>>
    <3>1. /\ UNCHANGED <<chain, cpc, cevent, taken, closed>>
          /\ \E n \in Node \ alive : value' = [value EXCEPT ![n] = e]
      BY <2>1 DEF NewNode, popVars
    <3>2. \A i \in Pos : value'[chain[i]] = value[chain[i]]
      BY <3>1 DEF EInv, EventQueueTypeOK, ListInv, Chained
    <3> QED BY <3>1, <3>2, WaitingStays DEF InHand
  <2>2. ASSUME NEW p \in Producer, ExchangeTail(p) PROVE Fifo!Next
    <3>1. value[pnode[p]] \in Event
      BY DEF EInv, EventQueueTypeOK
    <3> QED BY <2>2, <3>1, ExchangePushes DEF Fifo!Next
  <2>3. ASSUME NEW p \in Producer, Link(p) \/ Signal(p)
        PROVE  UNCHANGED <<Waiting, taken, closed>>
    <3>1. UNCHANGED <<chain, value, cpc, cevent, taken, closed>>
      BY <2>3 DEF Link, Signal, listVars, popVars
    <3> QED BY <3>1, WaitingStays DEF InHand
  <2>4. CASE PollReturns \/ DrainWakeup \/ PopEmpty \/ DeleteOldHead \/ UNCHANGED vars
    <3>1. UNCHANGED <<chain, value, cevent, taken, closed>>
      BY <2>4 DEF PollReturns, DrainWakeup, PopEmpty, DeleteOldHead, vars, listVars, popVars
    <3>2. InHand' = InHand
      BY <2>4, <3>1 DEF PollReturns, DrainWakeup, PopEmpty, DeleteOldHead, vars, popVars, InHand
    <3> QED BY <3>1, <3>2, WaitingStays
  <2>5. CASE PopNext
    BY <2>5, PopKeepsWaiting DEF PopNext
  <2>6. CASE Dispatch
    BY <2>6, DispatchTakes DEF Fifo!Next
  <2>7. CASE Destroy
    <3>1. /\ UNCHANGED <<chain, value, cevent, taken>> /\ ~closed /\ closed' = TRUE
          /\ InHand' = InHand
      BY <2>7 DEF Destroy, EInv, EventQueueTypeOK, Closing, InHand, listVars
    <3>2. Waiting' = Waiting
      BY <3>1, WaitingStays
    <3> QED BY <3>1, <3>2 DEF Fifo!Next, Fifo!Close
  <2> QED BY <2>1, <2>2, <2>3, <2>4, <2>5, <2>6, <2>7 DEF Next, ProcessStep, PushStep
<1> QED BY Inductive, <1>1, <1>2, PTL DEF Spec, ImplementsFifo, Fifo!Spec, Fifo!fifoVars
==============================================================================
