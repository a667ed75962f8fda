--------------------------- MODULE Channels_proofs ---------------------------
(***************************************************************************)
(* Theorems about Channels, for any number of goroutines, channels, values *)
(* and script threads.  The order of a channel needs no more than types;   *)
(* that nobody waits beside a value needs the absence of script threads,   *)
(* and what a goroutine does between its request and its suspension.       *)
(***************************************************************************)
EXTENDS Channels, FiniteSetTheorems, SequenceTheorems, TLAPS

-----------------------------------------------------------------------------
(* Sequences.                                                               *)

\* A sequence is its head before its tail.
LEMMA HeadBeforeTail ==
    ASSUME NEW q \in Seq(Value), q # <<>>
    PROVE  <<Head(q)>> \o Tail(q) = q
<1>1. /\ <<Head(q)>> \in Seq(Value) /\ Len(<<Head(q)>>) = 1 /\ <<Head(q)>>[1] = q[1]
      /\ Tail(q) \in Seq(Value) /\ Len(Tail(q)) = Len(q) - 1 /\ Len(q) \in Nat \ {0}
      /\ \A i \in 1 .. Len(Tail(q)) : Tail(q)[i] = q[i + 1]
  BY HeadTailProperties, EmptySeq, LenProperties
<1> DEFINE h == <<Head(q)>>
           r == Tail(q)
<1> HIDE DEF h, r
<1>2. /\ h \o r \in Seq(Value) /\ Len(h \o r) = Len(q)
      /\ \A i \in 1 .. Len(q) : (h \o r)[i] = IF i <= 1 THEN h[i] ELSE r[i - 1]
  BY <1>1, ConcatProperties DEF h, r
<1>3. ASSUME NEW i \in 1 .. Len(q)
      PROVE  (h \o r)[i] = q[i]
  <2>1. CASE i = 1
    BY <2>1, <1>1, <1>2 DEF h
  <2>2. CASE i # 1
    <3>1. i - 1 \in 1 .. Len(r) /\ (i - 1) + 1 = i
      BY <2>2, <1>1 DEF r
    <3> QED BY <2>2, <3>1, <1>1, <1>2 DEF r
  <2> QED BY <2>1, <2>2
<1> QED BY <1>2, <1>3, SeqEqual DEF h, r

\* The front of the queue goes to a receiver.
LEMMA HandOver ==
    ASSUME NEW t \in Seq(Value), NEW q \in Seq(Value), q # <<>>
    PROVE  Append(t, Head(q)) \o Tail(q) = t \o q
<1>1. Head(q) \in Value /\ Tail(q) \in Seq(Value)
  BY HeadTailProperties
<1>2. <<Head(q)>> \in Seq(Value) /\ Append(t, Head(q)) = t \o <<Head(q)>>
  BY <1>1, AppendIsConcat
<1>3. Append(t, Head(q)) \o Tail(q) = t \o (<<Head(q)>> \o Tail(q))
  BY <1>1, <1>2, ConcatAssociative
<1> QED BY <1>3, HeadBeforeTail

\* A value joins the queue.
LEMMA Joins ==
    ASSUME NEW t \in Seq(Value), NEW q \in Seq(Value), NEW v \in Value
    PROVE  Append(t \o q, v) = t \o Append(q, v)
<1>1. <<v>> \in Seq(Value) /\ t \o q \in Seq(Value)
  BY ConcatProperties
<1>2. Append(q, v) = q \o <<v>> /\ Append(t \o q, v) = (t \o q) \o <<v>>
  BY <1>1, AppendIsConcat
<1> QED BY <1>1, <1>2, ConcatAssociative

-----------------------------------------------------------------------------
(* The actions, one after the other.                                        *)

\* A step is one of these, by a goroutine or by a script thread.
LEMMA Steps ==
    ASSUME Next
    PROVE  \/ \E g \in Goroutine :
                \/ Pick(g) \/ Yield(g) \/ Complete(g) \/ Suspend(g) \/ RemoveFromQueues(g)
                \/ Running(g) /\ \E c \in Channel :
                        ReceiveValue(g, c) \/ ReceiveWaits(g, c) \/ Close(c)
                \/ Running(g) /\ \E h \in Goroutine : Join(g, h)
           \/ \E h \in Goroutine : HotkeyResume(h) \/ HotkeyStop(h)
           \/ \E c \in Channel, v \in Value :
                Send(c, v) /\ (Actor = {} => \E g \in Goroutine : Running(g))
BY ChannelsAssumption DEF Next, Call, ActorSend

\* What a send does to the channels.
LEMMA SendEffect ==
    ASSUME ChannelsTypeOK, NEW c \in Channel, NEW v \in Value, Send(c, v)
    PROVE  /\ sent' = [sent EXCEPT ![c] = Append(@, v)]
           /\ \/ /\ Waiting(c) = {}
                 /\ buffer' = [buffer EXCEPT ![c] = Append(@, v)]
                 /\ UNCHANGED <<gstate, queued, resume, taken>>
              \/ \E g \in Waiting(c), w \in Value :
                    /\ w = Head(Append(buffer[c], v))
                    /\ buffer' = [buffer EXCEPT ![c] = Tail(Append(@, v))]
                    /\ taken' = [taken EXCEPT ![c] = Append(@, w)]
                    /\ resume' = [resume EXCEPT ![g] = w]
                    /\ gstate' = [gstate EXCEPT ![g] = "Runnable"]
                    /\ queued' = queued \cup {g}
           /\ UNCHANGED <<handle, current, open, known, got>>
<1>1. Append(buffer[c], v) \in Seq(Value) /\ Append(buffer[c], v) # <<>>
  <2>1. buffer[c] \in Seq(Value)
    BY DEF ChannelsTypeOK
  <2> QED BY <2>1, AppendProperties
<1>2. Head(Append(buffer[c], v)) \in Value
  BY <1>1, HeadTailProperties
<1> QED BY <1>2 DEF Send, SendFrom, Unpark

\* Every step preserves the types.
LEMMA TypeStep ==
    ASSUME ChannelsTypeOK, [Next]_vars
    PROVE  ChannelsTypeOK'
<1> USE DEF ChannelsTypeOK, Return, RequestSuspension, EndSlice, Unpark,
            goroutineVars, channelVars, history
<1>1. ASSUME NEW g \in Goroutine, Pick(g) PROVE ChannelsTypeOK'
  <2>1. got' \in [Goroutine -> Seq(Value)]
    <3>1. CASE got' = got
      BY <3>1
    <3>2. CASE resume[g] \in Value /\ got' = [got EXCEPT ![g] = Append(@, resume[g])]
      BY <3>2, AppendProperties
    <3> QED BY <1>1, <3>1, <3>2 DEF Pick
  <2> QED BY <1>1, <2>1 DEF Pick
<1>2. ASSUME NEW g \in Goroutine,
             Yield(g) \/ Complete(g) \/ Suspend(g) \/ RemoveFromQueues(g)
      PROVE  ChannelsTypeOK'
  BY <1>2 DEF Yield, Complete, Suspend, RemoveFromQueues
<1>3. ASSUME NEW h \in Goroutine, HotkeyResume(h) \/ HotkeyStop(h)
      PROVE  ChannelsTypeOK'
  BY <1>3 DEF HotkeyResume, HotkeyStop
<1>4. ASSUME NEW g \in Goroutine, NEW c \in Channel, ReceiveValue(g, c)
      PROVE  ChannelsTypeOK'
  <2>1. buffer[c] \in Seq(Value) /\ buffer[c] # <<>>
    BY <1>4 DEF ReceiveValue
  <2>2. Head(buffer[c]) \in Value /\ Tail(buffer[c]) \in Seq(Value)
    BY <2>1, HeadTailProperties
  <2>3. /\ Append(got[g], Head(buffer[c])) \in Seq(Value)
        /\ Append(taken[c], Head(buffer[c])) \in Seq(Value)
    BY <2>2, AppendProperties
  <2> QED BY <1>4, <2>2, <2>3 DEF ReceiveValue
<1>5. ASSUME NEW g \in Goroutine, NEW c \in Channel, ReceiveWaits(g, c) \/ Close(c)
      PROVE  ChannelsTypeOK'
  <2>1. CASE ReceiveWaits(g, c)
    BY <2>1 DEF ReceiveWaits
  <2>2. CASE Close(c)
    <3>1. /\ open' \subseteq known' /\ known' \subseteq Channel
          /\ UNCHANGED <<gstate, queued, handle, resume, current, buffer, sent, taken, got>>
      BY <2>2 DEF Close
    <3> QED BY <3>1
  <2> QED BY <1>5, <2>1, <2>2
<1>6. ASSUME NEW g \in Goroutine, NEW h \in Goroutine, Join(g, h)
      PROVE  ChannelsTypeOK'
  BY <1>6 DEF Join
<1>7. ASSUME NEW c \in Channel, NEW v \in Value, Send(c, v)
      PROVE  ChannelsTypeOK'
  <2>1. /\ Append(buffer[c], v) \in Seq(Value) /\ Append(buffer[c], v) # <<>>
        /\ Append(sent[c], v) \in Seq(Value)
        /\ \A w \in Value : Append(taken[c], w) \in Seq(Value)
    BY AppendProperties
  <2>2. Tail(Append(buffer[c], v)) \in Seq(Value)
    BY <2>1, HeadTailProperties
  <2>3. /\ sent' = [sent EXCEPT ![c] = Append(@, v)]
        /\ UNCHANGED <<handle, current, open, known, got>>
    BY <1>7, SendEffect
  <2>4. CASE /\ buffer' = [buffer EXCEPT ![c] = Append(@, v)]
             /\ UNCHANGED <<gstate, queued, resume, taken>>
    BY <2>1, <2>3, <2>4
  <2>5. ASSUME NEW g \in Goroutine, NEW w \in Value,
               buffer' = [buffer EXCEPT ![c] = Tail(Append(@, v))],
               taken' = [taken EXCEPT ![c] = Append(@, w)],
               resume' = [resume EXCEPT ![g] = w],
               gstate' = [gstate EXCEPT ![g] = "Runnable"],
               queued' = queued \cup {g}
        PROVE  ChannelsTypeOK'
    BY <2>1, <2>2, <2>3, <2>5
  <2>6. Waiting(c) \subseteq Goroutine
    BY DEF Waiting
  <2> HIDE DEF ChannelsTypeOK
  <2> QED BY <1>7, <2>4, <2>5, <2>6, SendEffect
<1>8. CASE UNCHANGED vars
  BY <1>8 DEF vars
<1> QED BY <1>1, <1>2, <1>3, <1>4, <1>5, <1>6, <1>7, <1>8, Steps

\* The start satisfies the types.
LEMMA TypeInit == Init => ChannelsTypeOK
BY EmptySeq, ChannelsAssumption DEF Init, ChannelsTypeOK

-----------------------------------------------------------------------------
(* The order of a channel.                                                  *)

\* Values leave a queue only to a receiver, and only from the front.
LEMMA OrderStep ==
    ASSUME ChannelsTypeOK, HandedInOrder, [Next]_vars
    PROVE  HandedInOrder'
<1> USE DEF HandedInOrder, goroutineVars, channelVars, history
<1>0. ASSUME UNCHANGED <<sent, taken, buffer>> PROVE HandedInOrder'
  BY <1>0
<1>1. ASSUME NEW g \in Goroutine, NEW c \in Channel, ReceiveValue(g, c)
      PROVE  HandedInOrder'
  <2>1. buffer[c] \in Seq(Value) /\ buffer[c] # <<>> /\ taken[c] \in Seq(Value)
    BY <1>1 DEF ReceiveValue, ChannelsTypeOK
  <2>2. Append(taken[c], Head(buffer[c])) \o Tail(buffer[c]) = taken[c] \o buffer[c]
    BY <2>1, HandOver
  <2> QED BY <1>1, <2>2 DEF ReceiveValue, ChannelsTypeOK
<1>2. ASSUME NEW c \in Channel, NEW v \in Value, Send(c, v)
      PROVE  HandedInOrder'
  <2> DEFINE q == Append(buffer[c], v)
  <2>1. /\ buffer[c] \in Seq(Value) /\ taken[c] \in Seq(Value)
        /\ sent[c] = taken[c] \o buffer[c]
    BY DEF ChannelsTypeOK
  <2>2. q \in Seq(Value) /\ q # <<>>
    BY <2>1, AppendProperties
  <2>3. Append(sent[c], v) = taken[c] \o q
    BY <2>1, Joins
  <2>4. Append(taken[c], Head(q)) \o Tail(q) = taken[c] \o q
    BY <2>1, <2>2, HandOver
  <2> HIDE DEF q
  <2>5. \/ buffer' = [buffer EXCEPT ![c] = q] /\ taken' = taken
        \/ /\ buffer' = [buffer EXCEPT ![c] = Tail(q)]
           /\ taken' = [taken EXCEPT ![c] = Append(@, Head(q))]
    BY <1>2, SendEffect DEF q
  <2>6. sent' = [sent EXCEPT ![c] = Append(@, v)]
    BY <1>2, SendEffect
  <2> QED BY <2>3, <2>4, <2>5, <2>6 DEF ChannelsTypeOK
<1>3. ASSUME NEW g \in Goroutine,
             \/ Pick(g) \/ Yield(g) \/ Complete(g) \/ Suspend(g) \/ RemoveFromQueues(g)
             \/ HotkeyResume(g) \/ HotkeyStop(g)
             \/ \E c \in Channel : ReceiveWaits(g, c) \/ Close(c)
             \/ \E h \in Goroutine : Join(g, h)
      PROVE  UNCHANGED <<sent, taken, buffer>>
  BY <1>3 DEF Pick, Yield, Complete, EndSlice, Suspend, RemoveFromQueues, HotkeyResume,
              HotkeyStop, ReceiveWaits, Close, Join
<1>4. CASE UNCHANGED vars
  BY <1>4 DEF vars
<1> QED BY <1>0, <1>1, <1>2, <1>3, <1>4, Steps

\* The types hold.
THEOREM ChannelsTyped == Spec => []ChannelsTypeOK
BY TypeInit, TypeStep, PTL DEF Spec

\* A channel is a FIFO, whoever sends, receives and closes, and from whatever
\* thread.
THEOREM ChannelIsFifo == Spec => []HandedInOrder
<1>1. Init => HandedInOrder
  BY EmptySeq, ConcatEmptySeq DEF Init, HandedInOrder
<1> QED BY <1>1, OrderStep, ChannelsTyped, PTL DEF Spec

-----------------------------------------------------------------------------
(* Nobody waits beside a value, as long as only goroutines send.            *)

\* A goroutine in the middle of its slice is the current one.
OneInSlice ==
    \A g \in Goroutine : gstate[g] \in {"Running", "Leaving"} => current = g

\* Whoever has asked to wait for a channel, parked or not, asked an empty one,
\* and it stays empty: NoStarvedReceiver from the request on.
WaitsForEmpty ==
    \A g \in Goroutine, c \in Channel :
        gstate[g] \in {"Leaving", "Suspended"} /\ handle[g] = c => buffer[c] = <<>>

\* The inductive invariant behind NobodyStarves.
WInv == ChannelsTypeOK /\ OneInSlice /\ WaitsForEmpty

\* Every step leaves at most the current goroutine in its slice.
LEMMA SliceStep ==
    ASSUME ChannelsTypeOK, OneInSlice, [Next]_vars
    PROVE  OneInSlice'
<1> USE DEF OneInSlice, ChannelsTypeOK, EndSlice, RequestSuspension, Unpark, Running,
            goroutineVars, channelVars, history
<1>1. ASSUME NEW g \in Goroutine, Pick(g) PROVE OneInSlice'
  BY <1>1, ChannelsAssumption DEF Pick
<1>2. ASSUME NEW g \in Goroutine,
             Yield(g) \/ Complete(g) \/ Suspend(g) \/ RemoveFromQueues(g)
      PROVE  OneInSlice'
  BY <1>2 DEF Yield, Complete, Suspend, RemoveFromQueues
<1>3. ASSUME NEW h \in Goroutine, HotkeyResume(h) \/ HotkeyStop(h)
      PROVE  OneInSlice'
  BY <1>3 DEF HotkeyResume, HotkeyStop
<1>4. ASSUME NEW g \in Goroutine, NEW c \in Channel,
             Running(g), ReceiveValue(g, c) \/ ReceiveWaits(g, c) \/ Close(c)
      PROVE  OneInSlice'
  BY <1>4 DEF ReceiveValue, ReceiveWaits, Close
<1>5. ASSUME NEW g \in Goroutine, NEW h \in Goroutine, Running(g), Join(g, h)
      PROVE  OneInSlice'
  BY <1>5 DEF Join
<1>6. ASSUME NEW c \in Channel, NEW v \in Value, Send(c, v)
      PROVE  OneInSlice'
  BY <1>6 DEF Send, SendFrom, Waiting
<1>7. CASE UNCHANGED vars
  BY <1>7 DEF vars
<1> QED BY <1>1, <1>2, <1>3, <1>4, <1>5, <1>6, <1>7, Steps

\* Every step keeps the channel of a waiting goroutine empty.
LEMMA WaitStep ==
    ASSUME WInv, [Next]_vars, Actor = {}
    PROVE  WaitsForEmpty'
<1> USE DEF WInv, WaitsForEmpty, ChannelsTypeOK, EndSlice, RequestSuspension, Unpark,
            Running, goroutineVars, channelVars, history
<1>1. ASSUME NEW g \in Goroutine, Pick(g) PROVE WaitsForEmpty'
  BY <1>1 DEF Pick
<1>2. ASSUME NEW g \in Goroutine,
             Yield(g) \/ Complete(g) \/ Suspend(g) \/ RemoveFromQueues(g)
      PROVE  WaitsForEmpty'
  BY <1>2 DEF Yield, Complete, Suspend, RemoveFromQueues
<1>3. ASSUME NEW h \in Goroutine, HotkeyResume(h) \/ HotkeyStop(h)
      PROVE  WaitsForEmpty'
  BY <1>3 DEF HotkeyResume, HotkeyStop
<1>4. ASSUME NEW g \in Goroutine, NEW c \in Channel,
             Running(g), ReceiveValue(g, c) \/ ReceiveWaits(g, c) \/ Close(c)
      PROVE  WaitsForEmpty'
  BY <1>4 DEF ReceiveValue, ReceiveWaits, Close
<1>5. ASSUME NEW g \in Goroutine, NEW h \in Goroutine, Running(g), Join(g, h)
      PROVE  WaitsForEmpty'
  BY <1>5, ChannelsAssumption DEF Join
<1>6. ASSUME NEW c \in Channel, NEW v \in Value, Send(c, v),
             NEW r \in Goroutine, Running(r)
      PROVE  WaitsForEmpty'
  <2>1. CASE /\ Waiting(c) = {}
             /\ buffer' = [buffer EXCEPT ![c] = Append(@, v)]
             /\ UNCHANGED <<gstate, handle>>
    <3>1. \A g \in Goroutine : handle[g] = c => gstate[g] \notin {"Leaving", "Suspended"}
      BY <1>6, <2>1 DEF Waiting, OneInSlice
    <3> QED BY <2>1, <3>1
  <2>2. ASSUME NEW g \in Waiting(c),
               buffer' = [buffer EXCEPT ![c] = Tail(Append(@, v))],
               gstate' = [gstate EXCEPT ![g] = "Runnable"], UNCHANGED handle
        PROVE  WaitsForEmpty'
    <3>1. buffer[c] = <<>>
      BY DEF Waiting
    <3>2. buffer'[c] = <<>>
      BY <2>2, <3>1, EmptySeq, HeadTailAppend
    <3> QED BY <2>2, <3>2 DEF Waiting
  <2> QED BY <1>6, <2>1, <2>2, SendEffect
<1>7. CASE UNCHANGED vars
  BY <1>7 DEF vars
<1> QED BY <1>1, <1>2, <1>3, <1>4, <1>5, <1>6, <1>7, Steps

\* Without script threads that send, no goroutine is parked beside a value.  With
\* them it can be: a send that falls between the request and the suspension.
THEOREM NobodyStarves == (Actor = {}) => (Spec => []NoStarvedReceiver)
<1> SUFFICES ASSUME Actor = {} PROVE Spec => []NoStarvedReceiver
  OBVIOUS
<1>1. Init => WInv
  BY TypeInit DEF Init, WInv, OneInSlice, WaitsForEmpty
<1>2. WInv /\ [Next]_vars => WInv'
  BY TypeStep, SliceStep, WaitStep DEF WInv
<1>3. WInv => NoStarvedReceiver
  BY DEF WInv, WaitsForEmpty, NoStarvedReceiver, Waiting
<1> QED BY <1>1, <1>2, <1>3, PTL DEF Spec

-----------------------------------------------------------------------------
(* No value is lost or doubled.                                             *)

\* A value is accepted once, at one position of one channel.
SentOnce ==
    \A c, d \in Channel : \A i \in 1 .. Len(sent[c]), j \in 1 .. Len(sent[d]) :
        sent[c][i] = sent[d][j] => c = d /\ i = j

\* The wait handle outlives the hand-over: a resume value belongs to a receiver
\* that is to run, or was stopped, and that will look for it.
HandlesKept ==
    \A g \in Goroutine : resume[g] # Null => gstate[g] \in {"Runnable", "Done"}
                                             /\ handle[g] # Null

\* The values that have left their queue are with exactly one receiver.
Delivered == UNION {Range(taken[c]) : c \in Channel}
DeliveredOnce ==
    \A v \in Value : IF v \in Delivered THEN \E p : InHands(v) = {p} ELSE InHands(v) = {}

\* The inductive invariant behind NothingLostOrDoubled.
PInv ==
    ChannelsTypeOK /\ OneInSlice /\ HandedInOrder /\ SentOnce /\ HandlesKept /\ DeliveredOnce

\* The places of a value among the receivers, one by one.
LEMMA HandsByPlace ==
    ASSUME ChannelsTypeOK, NEW v \in Value, NEW p
    PROVE  p \in InHands(v) <=>
              \E g \in Goroutine :
                 \/ p = <<g, 0>> /\ resume[g] = v
                 \/ \E i \in 1 .. Len(got[g]) : p = <<g, i>> /\ got[g][i] = v
<1>1. \A g \in Goroutine : DOMAIN got[g] = 1 .. Len(got[g])
  BY LenProperties DEF ChannelsTypeOK
<1> QED BY <1>1 DEF InHands

\* The values a channel has handed out, one by one.
LEMMA DeliveredAt ==
    ASSUME ChannelsTypeOK, NEW v
    PROVE  v \in Delivered <=>
              \E c \in Channel : \E i \in 1 .. Len(taken[c]) : taken[c][i] = v
<1>1. \A c \in Channel : DOMAIN taken[c] = 1 .. Len(taken[c])
  BY LenProperties DEF ChannelsTypeOK
<1> QED BY <1>1 DEF Delivered, Range

\* What was sent on a channel is what was handed out, and then what is in the queue.
LEMMA SentByPosition ==
    ASSUME ChannelsTypeOK, HandedInOrder, NEW c \in Channel
    PROVE  /\ Len(taken[c]) \in Nat /\ Len(buffer[c]) \in Nat
           /\ DOMAIN sent[c] = 1 .. Len(sent[c])
           /\ \A i \in 1 .. Len(taken[c]) :
                i \in 1 .. Len(sent[c]) /\ sent[c][i] = taken[c][i]
           /\ \A i \in 1 .. Len(buffer[c]) :
                /\ Len(taken[c]) + i \in 1 .. Len(sent[c])
                /\ sent[c][Len(taken[c]) + i] = buffer[c][i]
           /\ \A i \in 1 .. Len(sent[c]) :
                \/ i \in 1 .. Len(taken[c])
                \/ i - Len(taken[c]) \in 1 .. Len(buffer[c])
                   /\ buffer[c][i - Len(taken[c])] = sent[c][i]
<1> DEFINE t == taken[c]
           b == buffer[c]
           s == sent[c]
<1>1. t \in Seq(Value) /\ b \in Seq(Value) /\ s = t \o b
  BY DEF ChannelsTypeOK, HandedInOrder
<1>2. Len(t) \in Nat /\ Len(b) \in Nat
  BY <1>1, LenProperties
<1> HIDE DEF t, b, s
<1>3. /\ s \in Seq(Value) /\ Len(s) = Len(t) + Len(b)
      /\ \A i \in 1 .. Len(t) + Len(b) : s[i] = IF i <= Len(t) THEN t[i] ELSE b[i - Len(t)]
  BY <1>1, ConcatProperties
<1>4. DOMAIN s = 1 .. Len(s)
  BY <1>3, LenProperties
<1>5. \A i \in 1 .. Len(t) : i \in 1 .. Len(s) /\ s[i] = t[i]
  BY <1>2, <1>3
<1>6. ASSUME NEW i \in 1 .. Len(b)
      PROVE  Len(t) + i \in 1 .. Len(s) /\ s[Len(t) + i] = b[i]
  <2>1. /\ Len(t) + i \in 1 .. Len(t) + Len(b) /\ ~(Len(t) + i <= Len(t))
        /\ (Len(t) + i) - Len(t) = i
    BY <1>2
  <2> QED BY <1>3, <2>1
<1>7. ASSUME NEW i \in 1 .. Len(s), i \notin 1 .. Len(t)
      PROVE  i - Len(t) \in 1 .. Len(b) /\ b[i - Len(t)] = s[i]
  <2>1. ~(i <= Len(t)) /\ i - Len(t) \in 1 .. Len(b)
    BY <1>2, <1>3, <1>7
  <2> QED BY <1>3, <2>1
<1> QED BY <1>2, <1>4, <1>5, <1>6, <1>7 DEF t, b, s

\* A value that is in a queue has not been handed out: its position among those
\* sent tells.
LEMMA QueuedIsNotDelivered ==
    ASSUME PInv, NEW c \in Channel, NEW i \in 1 .. Len(buffer[c])
    PROVE  buffer[c][i] \notin Delivered
<1> DEFINE k == Len(taken[c]) + i
<1>1. k \in 1 .. Len(sent[c]) /\ sent[c][k] = buffer[c][i] /\ Len(taken[c]) \in Nat
  BY SentByPosition DEF PInv
<1>2. k > Len(taken[c])
  BY <1>1
<1> HIDE DEF k
<1>3. ASSUME NEW d \in Channel, NEW j \in 1 .. Len(taken[d]), taken[d][j] = buffer[c][i]
      PROVE  FALSE
  <2>1. j \in 1 .. Len(sent[d]) /\ sent[d][j] = buffer[c][i]
    BY <1>3, SentByPosition DEF PInv
  <2>2. c = d /\ k = j
    BY <1>1, <2>1 DEF PInv, SentOnce
  <2> QED BY <1>1, <1>2, <2>2
<1> QED BY <1>3, DeliveredAt DEF PInv

\* The invariant says of every accepted value that it has one place.
LEMMA PlaceIsOne ==
    PInv => OnePlace
<1> SUFFICES ASSUME PInv, NEW v \in Accepted
             PROVE  \E p : Buffered(v) \cup InHands(v) = {p}
  BY FS_Singleton DEF OnePlace
<1>1. PICK c \in Channel : v \in Range(sent[c])
  BY DEF Accepted
<1>2. PICK i \in 1 .. Len(sent[c]) : sent[c][i] = v
  BY <1>1, SentByPosition DEF PInv, Range
<1>3. v \in Value
  <2>1. sent[c] \in Seq(Value)
    BY DEF PInv, ChannelsTypeOK
  <2> QED BY <1>2, <2>1, ElementOfSeq
<1>4. ASSUME NEW p
      PROVE  p \in Buffered(v) <=>
               \E d \in Channel : \E j \in 1 .. Len(buffer[d]) : p = <<d, j>> /\ buffer[d][j] = v
  <2>1. \A d \in Channel : DOMAIN buffer[d] = 1 .. Len(buffer[d])
    BY LenProperties DEF PInv, ChannelsTypeOK
  <2> QED BY <2>1 DEF Buffered
<1>5. CASE i \in 1 .. Len(taken[c])
  <2>1. v \in Delivered
    BY <1>2, <1>5, SentByPosition, DeliveredAt DEF PInv
  <2>2. Buffered(v) = {}
    BY <1>4, <2>1, QueuedIsNotDelivered
  <2>3. \E p : InHands(v) = {p}
    BY <1>3, <2>1 DEF PInv, DeliveredOnce
  <2> QED BY <2>2, <2>3
<1>6. CASE i \notin 1 .. Len(taken[c])
  <2> DEFINE k == i - Len(taken[c])
  <2>1. k \in 1 .. Len(buffer[c]) /\ buffer[c][k] = v
    BY <1>2, <1>6, SentByPosition DEF PInv
  <2>2. v \notin Delivered
    BY <2>1, QueuedIsNotDelivered
  <2>3. InHands(v) = {}
    BY <1>3, <2>2 DEF PInv, DeliveredOnce
  <2>4. ASSUME NEW d \in Channel, NEW j \in 1 .. Len(buffer[d]), buffer[d][j] = v
        PROVE  d = c /\ j = k
    <3> DEFINE m == Len(taken[d]) + j
    <3>1. m \in 1 .. Len(sent[d]) /\ sent[d][m] = v /\ Len(taken[d]) \in Nat
      BY <2>4, SentByPosition DEF PInv
    <3>2. d = c /\ m = i
      BY <1>2, <3>1 DEF PInv, SentOnce
    <3> QED BY <3>1, <3>2
  <2> HIDE DEF k
  <2>5. Buffered(v) = {<<c, k>>}
    BY <1>4, <2>1, <2>4
  <2> QED BY <2>3, <2>5
<1> QED BY <1>5, <1>6

\* Nothing is handed out that was not accepted.
LEMMA DeliveredWasSent ==
    PInv => Delivered \subseteq Accepted
<1> SUFFICES ASSUME PInv, NEW v \in Delivered PROVE v \in Accepted
  OBVIOUS
<1>1. PICK c \in Channel : \E i \in 1 .. Len(taken[c]) : taken[c][i] = v
  BY DeliveredAt DEF PInv
<1>2. PICK i \in 1 .. Len(sent[c]) : sent[c][i] = v
  BY <1>1, SentByPosition DEF PInv
<1>3. v \in Range(sent[c])
  BY <1>2, SentByPosition DEF PInv, Range
<1> QED BY <1>3 DEF Accepted

\* Only a send accepts a value, and one that was not accepted before.
LEMMA SentStep ==
    ASSUME ChannelsTypeOK, SentOnce, [Next]_vars
    PROVE  SentOnce'
<1>1. ASSUME NEW c \in Channel, NEW v \in Value, Send(c, v)
      PROVE  SentOnce'
  <2>1. /\ \A d \in Channel : sent[d] \in Seq(Value) /\ Len(sent[d]) \in Nat
                              /\ DOMAIN sent[d] = 1 .. Len(sent[d])
        /\ sent \in [Channel -> Seq(Value)] /\ sent[c] \in Seq(Value)
    BY LenProperties DEF ChannelsTypeOK
  <2>2. sent' = [sent EXCEPT ![c] = Append(sent[c], v)] /\ v \notin Accepted
    BY <1>1 DEF Send, SendFrom
  <2>3. \A d \in Channel : \A i \in 1 .. Len(sent[d]) : sent[d][i] # v
    BY <2>1, <2>2 DEF Accepted, Range
  <2>4. /\ Len(Append(sent[c], v)) = Len(sent[c]) + 1
        /\ \A i \in 1 .. Len(sent[c]) : Append(sent[c], v)[i] = sent[c][i]
        /\ Append(sent[c], v)[Len(sent[c]) + 1] = v
    BY <2>1, AppendProperties
  <2>5. /\ sent'[c] = Append(sent[c], v)
        /\ \A d \in Channel \ {c} : sent'[d] = sent[d]
    BY <2>1, <2>2
  <2>6. \A d \in Channel : \A i \in 1 .. Len(sent'[d]) :
           \/ i \in 1 .. Len(sent[d]) /\ sent'[d][i] = sent[d][i]
           \/ d = c /\ i = Len(sent[c]) + 1 /\ sent'[d][i] = v
    BY <2>1, <2>4, <2>5
  <2> SUFFICES ASSUME NEW d \in Channel, NEW e \in Channel,
                      NEW i \in 1 .. Len(sent'[d]), NEW j \in 1 .. Len(sent'[e]),
                      sent'[d][i] = sent'[e][j]
               PROVE  d = e /\ i = j
    BY DEF SentOnce
  <2>7. CASE i \in 1 .. Len(sent[d]) /\ sent'[d][i] = sent[d][i]
    <3>1. sent[d][i] # v
      BY <2>3, <2>7
    <3>2. \/ j \in 1 .. Len(sent[e]) /\ sent'[e][j] = sent[e][j]
          \/ sent'[e][j] = v
      BY <2>6
    <3>3. j \in 1 .. Len(sent[e]) /\ sent[e][j] = sent[d][i]
      BY <2>7, <3>1, <3>2
    <3> QED BY <2>7, <3>3 DEF SentOnce
  <2>8. CASE d = c /\ i = Len(sent[c]) + 1 /\ sent'[d][i] = v
    <3>1. \/ j \in 1 .. Len(sent[e]) /\ sent'[e][j] = sent[e][j]
          \/ e = c /\ j = Len(sent[c]) + 1
      BY <2>6
    <3>2. ~(j \in 1 .. Len(sent[e]) /\ sent'[e][j] = sent[e][j])
      BY <2>3, <2>8
    <3> QED BY <2>8, <3>1, <3>2
  <2> QED BY <2>6, <2>7, <2>8
<1>2. ASSUME UNCHANGED sent PROVE SentOnce'
  BY <1>2 DEF SentOnce
<1>3. ASSUME NEW g \in Goroutine,
             \/ Pick(g) \/ Yield(g) \/ Complete(g) \/ Suspend(g) \/ RemoveFromQueues(g)
             \/ HotkeyResume(g) \/ HotkeyStop(g)
             \/ \E c \in Channel : ReceiveValue(g, c) \/ ReceiveWaits(g, c) \/ Close(c)
             \/ \E h \in Goroutine : Join(g, h)
      PROVE  UNCHANGED sent
  BY <1>3 DEF Pick, Yield, Complete, EndSlice, Suspend, RemoveFromQueues, HotkeyResume,
              HotkeyStop, ReceiveValue, ReceiveWaits, Close, Join, channelVars, history
<1>4. CASE UNCHANGED vars
  BY <1>2, <1>4 DEF vars, history
<1> QED BY <1>1, <1>2, <1>3, <1>4, Steps

\* A receiver to whom a value was handed keeps its handle until it has it.
LEMMA HandleStep ==
    ASSUME ChannelsTypeOK, HandlesKept, [Next]_vars
    PROVE  HandlesKept'
<1> USE DEF HandlesKept, ChannelsTypeOK, EndSlice, RequestSuspension, Unpark, Running,
            goroutineVars, channelVars, history
<1>1. ASSUME NEW g \in Goroutine, Pick(g) PROVE HandlesKept'
  <2>1. CASE handle[g] = Null
    BY <1>1, <2>1 DEF Pick
  <2>2. CASE handle[g] # Null
    <3>1. /\ resume' = [resume EXCEPT ![g] = Null] /\ handle' = [handle EXCEPT ![g] = Null]
          /\ gstate' = [gstate EXCEPT ![g] = "Running"]
      BY <1>1, <2>2 DEF Pick
    <3> QED BY <3>1
  <2> QED BY <2>1, <2>2
<1>2. ASSUME NEW g \in Goroutine,
             Yield(g) \/ Complete(g) \/ Suspend(g) \/ RemoveFromQueues(g)
      PROVE  HandlesKept'
  BY <1>2 DEF Yield, Complete, Suspend, RemoveFromQueues
<1>3. ASSUME NEW h \in Goroutine, HotkeyResume(h) \/ HotkeyStop(h)
      PROVE  HandlesKept'
  BY <1>3 DEF HotkeyResume, HotkeyStop
<1>4. ASSUME NEW g \in Goroutine, NEW c \in Channel,
             Running(g), ReceiveValue(g, c) \/ ReceiveWaits(g, c) \/ Close(c)
      PROVE  HandlesKept'
  BY <1>4 DEF ReceiveValue, ReceiveWaits, Close
<1>5. ASSUME NEW g \in Goroutine, NEW h \in Goroutine, Running(g), Join(g, h)
      PROVE  HandlesKept'
  BY <1>5 DEF Join
<1>6. ASSUME NEW c \in Channel, NEW v \in Value, Send(c, v)
      PROVE  HandlesKept'
  <2>1. CASE UNCHANGED <<gstate, resume, handle>>
    BY <2>1
  <2>2. ASSUME NEW g \in Waiting(c), NEW w \in Value,
               resume' = [resume EXCEPT ![g] = w],
               gstate' = [gstate EXCEPT ![g] = "Runnable"], UNCHANGED handle
        PROVE  HandlesKept'
    <3>1. g \in Goroutine /\ handle[g] # Null
      BY ChannelsAssumption DEF Waiting
    <3> QED BY <2>2, <3>1
  <2> HIDE DEF HandlesKept, ChannelsTypeOK
  <2> QED BY <1>6, <2>1, <2>2, SendEffect
<1>7. CASE UNCHANGED vars
  BY <1>7 DEF vars
<1> QED BY <1>1, <1>2, <1>3, <1>4, <1>5, <1>6, <1>7, Steps

\* A value that was not handed out before is handed to one receiver.
LEMMA HandOut ==
    ASSUME PInv, ChannelsTypeOK', NEW c \in Channel, NEW w \in Value, w \notin Delivered,
           taken' = [taken EXCEPT ![c] = Append(@, w)],
           NEW q, \A v \in Value : InHands(v)' = IF v = w THEN InHands(v) \cup {q}
                                                 ELSE InHands(v)
    PROVE  DeliveredOnce'
<1>1. /\ taken \in [Channel -> Seq(Value)] /\ taken[c] \in Seq(Value)
      /\ \A d \in Channel : Len(taken[d]) \in Nat /\ DOMAIN taken[d] = 1 .. Len(taken[d])
  BY LenProperties DEF PInv, ChannelsTypeOK
<1>2. /\ Len(Append(taken[c], w)) = Len(taken[c]) + 1
      /\ DOMAIN Append(taken[c], w) = 1 .. Len(taken[c]) + 1
      /\ \A i \in 1 .. Len(taken[c]) : Append(taken[c], w)[i] = taken[c][i]
      /\ Append(taken[c], w)[Len(taken[c]) + 1] = w
  BY <1>1, AppendProperties, LenProperties
<1>3. Range(Append(taken[c], w)) = Range(taken[c]) \cup {w}
  BY <1>1, <1>2 DEF Range
<1>4. Delivered' = Delivered \cup {w}
  <2>1. /\ taken'[c] = Append(taken[c], w) /\ \A d \in Channel \ {c} : taken'[d] = taken[d]
    BY <1>1
  <2> QED BY <1>3, <2>1 DEF Delivered
<1>5. ASSUME NEW v \in Value
      PROVE  IF v \in Delivered' THEN \E p : InHands(v)' = {p} ELSE InHands(v)' = {}
  <2>1. CASE v = w
    <3>1. InHands(v)' = {q}
      BY <2>1 DEF PInv, DeliveredOnce
    <3> QED BY <1>4, <2>1, <3>1
  <2>2. CASE v # w
    BY <1>4, <2>2 DEF PInv, DeliveredOnce
  <2> QED BY <2>1, <2>2
<1> QED BY <1>5 DEF DeliveredOnce

\* Steps that hand nothing over.
LEMMA DeliveredSame ==
    ASSUME DeliveredOnce, UNCHANGED <<resume, got, taken>>
    PROVE  DeliveredOnce'
<1>1. ASSUME NEW v \in Value PROVE InHands(v)' = InHands(v)
  <2>1. resume' = resume /\ got' = got
    OBVIOUS
  <2>2. ASSUME NEW p PROVE p \in InHands(v)' <=> p \in InHands(v)
    BY <2>1 DEF InHands
  <2> QED BY <2>2
<1>2. Delivered' = Delivered
  BY Zenon DEF Delivered
<1> QED BY <1>1, <1>2 DEF DeliveredOnce

\* Every delivered value stays with one receiver: it is handed to one, or goes from
\* the resume value of a goroutine to what its receive() returns.
LEMMA DeliveredStep ==
    ASSUME PInv, ChannelsTypeOK', [Next]_vars
    PROVE  DeliveredOnce'
<1>1. /\ got \in [Goroutine -> Seq(Value)] /\ resume \in [Goroutine -> Value \cup {Null}]
      /\ buffer \in [Channel -> Seq(Value)] /\ Null \notin Value
      /\ \A g \in Goroutine : Len(got[g]) \in Nat /\ got[g] \in Seq(Value)
  BY ChannelsAssumption, LenProperties DEF PInv, ChannelsTypeOK
<1>2. ASSUME NEW v \in Value
      PROVE  \A p : /\ p \in InHands(v) <=>
                         \E g \in Goroutine :
                            \/ p = <<g, 0>> /\ resume[g] = v
                            \/ \E i \in 1 .. Len(got[g]) : p = <<g, i>> /\ got[g][i] = v
                    /\ p \in InHands(v)' <=>
                         \E g \in Goroutine :
                            \/ p = <<g, 0>> /\ resume'[g] = v
                            \/ \E i \in 1 .. Len(got'[g]) : p = <<g, i>> /\ got'[g][i] = v
  <2>1. \A g \in Goroutine : DOMAIN got'[g] = 1 .. Len(got'[g])
    BY LenProperties DEF ChannelsTypeOK
  <2>2. \A p : p \in InHands(v)' <=>
                  \E g \in Goroutine :
                     \/ p = <<g, 0>> /\ resume'[g] = v
                     \/ \E i \in 1 .. Len(got'[g]) : p = <<g, i>> /\ got'[g][i] = v
    BY <2>1 DEF InHands
  <2> QED BY <2>2, HandsByPlace DEF PInv
<1>3. ASSUME NEW g \in Goroutine, NEW w \in Value, got' = [got EXCEPT ![g] = Append(@, w)]
      PROVE  /\ got'[g] = Append(got[g], w) /\ Len(got'[g]) = Len(got[g]) + 1
             /\ \A i \in 1 .. Len(got[g]) : got'[g][i] = got[g][i]
             /\ got'[g][Len(got[g]) + 1] = w
             /\ \A h \in Goroutine \ {g} : got'[h] = got[h]
  <2>1. got'[g] = Append(got[g], w) /\ \A h \in Goroutine \ {g} : got'[h] = got[h]
    BY <1>1, <1>3
  <2> QED BY <1>1, <2>1, AppendProperties
<1>4. ASSUME NEW g \in Goroutine, NEW c \in Channel, ReceiveValue(g, c)
      PROVE  DeliveredOnce'
  <2>1. buffer[c] \in Seq(Value) /\ buffer[c] # <<>>
    BY <1>1, <1>4 DEF ReceiveValue
  <2>2. 1 \in 1 .. Len(buffer[c]) /\ Head(buffer[c]) = buffer[c][1] /\ buffer[c][1] \in Value
    BY <2>1, HeadTailProperties, EmptySeq, LenProperties
  <2>3. PICK w \in Value : w = Head(buffer[c]) /\ w \notin Delivered
    BY <2>2, QueuedIsNotDelivered
  <2>4. /\ got' = [got EXCEPT ![g] = Append(@, w)] /\ resume' = resume
        /\ taken' = [taken EXCEPT ![c] = Append(@, w)]
    BY <1>4, <2>3 DEF ReceiveValue, Return, goroutineVars
  <2> DEFINE q == <<g, Len(got[g]) + 1>>
  <2>5. ASSUME NEW v \in Value
        PROVE  InHands(v)' = IF v = w THEN InHands(v) \cup {q} ELSE InHands(v)
    <3>1. ASSUME NEW p
          PROVE  p \in InHands(v)' <=> p \in InHands(v) \/ (v = w /\ p = q)
      <4>1. \A h \in Goroutine : \A i \in 1 .. Len(got'[h]) :
               \/ i \in 1 .. Len(got[h]) /\ got'[h][i] = got[h][i]
               \/ h = g /\ i = Len(got[g]) + 1 /\ got'[h][i] = w
        BY <1>1, <1>3, <2>4
      <4>2. \A h \in Goroutine : \A i \in 1 .. Len(got[h]) :
               i \in 1 .. Len(got'[h]) /\ got'[h][i] = got[h][i]
        BY <1>1, <1>3, <2>4
      <4>3. Len(got[g]) + 1 \in 1 .. Len(got'[g]) /\ got'[g][Len(got[g]) + 1] = w
        BY <1>1, <1>3, <2>4
      <4> QED BY <1>2, <2>4, <4>1, <4>2, <4>3
    <3> QED BY <3>1
  <2> HIDE DEF q
  <2> QED BY <2>3, <2>4, <2>5, HandOut
<1>5. ASSUME NEW c \in Channel, NEW v \in Value, Send(c, v)
      PROVE  DeliveredOnce'
  <2>1. CASE UNCHANGED <<resume, taken>>
    <3>1. got' = got
      BY <1>5, SendEffect DEF PInv
    <3> QED BY <2>1, <3>1, DeliveredSame DEF PInv
  <2>2. ASSUME NEW g \in Waiting(c), NEW w \in Value, w = Head(Append(buffer[c], v)),
               taken' = [taken EXCEPT ![c] = Append(@, w)],
               resume' = [resume EXCEPT ![g] = w]
        PROVE  DeliveredOnce'
    <3>1. g \in Goroutine /\ resume[g] = Null /\ got' = got
      BY <1>5, SendEffect DEF PInv, HandlesKept, Waiting
    <3>2. w \notin Delivered
      <4>1. buffer[c] \in Seq(Value)
        BY <1>1
      <4>2. CASE buffer[c] = <<>>
        <5>1. w = v
          BY <2>2, <4>1, <4>2, HeadTailAppend
        <5>2. v \notin Accepted
          BY <1>5 DEF Send, SendFrom
        <5>3. Delivered \subseteq Accepted
          BY DeliveredWasSent
        <5> QED BY <5>1, <5>2, <5>3
      <4>3. CASE buffer[c] # <<>>
        <5>1. w = Head(buffer[c])
          BY <2>2, <4>1, <4>3, HeadTailAppend
        <5>2. 1 \in 1 .. Len(buffer[c]) /\ Head(buffer[c]) = buffer[c][1]
          BY <4>1, <4>3, HeadTailProperties, EmptySeq, LenProperties
        <5> QED BY <5>1, <5>2, QueuedIsNotDelivered
      <4> QED BY <4>2, <4>3
    <3> DEFINE q == <<g, 0>>
    <3>3. ASSUME NEW x \in Value
          PROVE  InHands(x)' = IF x = w THEN InHands(x) \cup {q} ELSE InHands(x)
      <4>1. /\ resume'[g] = w /\ \A h \in Goroutine \ {g} : resume'[h] = resume[h]
        BY <1>1, <2>2, <3>1
      <4>2. ASSUME NEW p
            PROVE  p \in InHands(x)' <=> p \in InHands(x) \/ (x = w /\ p = q)
        <5>1. ASSUME NEW h \in Goroutine
              PROVE  p = <<h, 0>> /\ resume'[h] = x <=>
                        (p = <<h, 0>> /\ resume[h] = x) \/ (x = w /\ h = g /\ p = q)
          BY <1>1, <3>1, <4>1
        <5>2. p \in InHands(x) <=>
                 \E h \in Goroutine :
                    \/ p = <<h, 0>> /\ resume[h] = x
                    \/ \E i \in 1 .. Len(got[h]) : p = <<h, i>> /\ got[h][i] = x
          BY <1>2
        <5>3. p \in InHands(x)' <=>
                 \E h \in Goroutine :
                    \/ p = <<h, 0>> /\ resume'[h] = x
                    \/ \E i \in 1 .. Len(got[h]) : p = <<h, i>> /\ got[h][i] = x
          BY <1>2, <3>1
        <5> HIDE DEF q
        <5> QED BY <3>1, <5>1, <5>2, <5>3
      <4> QED BY <4>2
    <3> HIDE DEF q
    <3> QED BY <2>2, <3>2, <3>3, HandOut
  <2> QED BY <1>5, <2>1, <2>2, SendEffect DEF PInv
<1>6. ASSUME NEW g \in Goroutine, Pick(g)
      PROVE  DeliveredOnce'
  <2>1. UNCHANGED taken
    BY <1>6 DEF Pick
  <2>2. CASE UNCHANGED <<resume, got>>
    BY <2>1, <2>2, DeliveredSame DEF PInv
  <2>3. CASE resume[g] \in Value /\ handle[g] # Null
    <3> DEFINE w == resume[g]
               m(p) == IF p = <<g, 0>> THEN <<g, Len(got[g]) + 1>> ELSE p
    <3>1. w \in Value /\ got' = [got EXCEPT ![g] = Append(@, w)]
          /\ resume' = [resume EXCEPT ![g] = Null]
      BY <1>6, <2>3 DEF Pick, Return
    <3>2. resume'[g] = Null /\ \A h \in Goroutine \ {g} : resume'[h] = resume[h]
      BY <1>1, <3>1
    <3>3. /\ \A h \in Goroutine : \A i \in 1 .. Len(got'[h]) :
               \/ i \in 1 .. Len(got[h]) /\ got'[h][i] = got[h][i]
               \/ h = g /\ i = Len(got[g]) + 1 /\ got'[h][i] = w
          /\ \A h \in Goroutine : \A i \in 1 .. Len(got[h]) :
               i \in 1 .. Len(got'[h]) /\ got'[h][i] = got[h][i]
          /\ Len(got[g]) + 1 \in 1 .. Len(got'[g]) /\ got'[g][Len(got[g]) + 1] = w
      BY <1>1, <1>3, <3>1
    <3>4. ASSUME NEW v \in Value PROVE InHands(v)' = {m(p) : p \in InHands(v)}
      <4>1. ASSUME NEW p \in InHands(v)' PROVE \E r \in InHands(v) : p = m(r)
        <5>1. PICK h \in Goroutine :
                 \/ p = <<h, 0>> /\ resume'[h] = v
                 \/ \E i \in 1 .. Len(got'[h]) : p = <<h, i>> /\ got'[h][i] = v
          BY <1>2, <4>1
        <5>2. CASE p = <<h, 0>> /\ resume'[h] = v
          <6>1. h # g /\ resume[h] = v
            BY <1>1, <3>2, <5>2
          <6>2. p \in InHands(v) /\ p = m(p)
            BY <1>2, <5>2, <6>1
          <6> QED BY <6>2
        <5>3. ASSUME NEW i \in 1 .. Len(got'[h]), p = <<h, i>>, got'[h][i] = v
              PROVE  \E r \in InHands(v) : p = m(r)
          <6>1. CASE i \in 1 .. Len(got[h]) /\ got'[h][i] = got[h][i]
            <7>1. p \in InHands(v) /\ p = m(p)
              BY <1>1, <1>2, <5>3, <6>1
            <7> QED BY <7>1
          <6>2. CASE h = g /\ i = Len(got[g]) + 1 /\ got'[h][i] = w
            <7>1. <<g, 0>> \in InHands(v) /\ p = m(<<g, 0>>)
              BY <1>2, <5>3, <6>2
            <7> QED BY <7>1
          <6> QED BY <3>3, <6>1, <6>2
        <5> QED BY <5>1, <5>2, <5>3
      <4>2. ASSUME NEW r \in InHands(v) PROVE m(r) \in InHands(v)'
        <5>1. PICK h \in Goroutine :
                 \/ r = <<h, 0>> /\ resume[h] = v
                 \/ \E i \in 1 .. Len(got[h]) : r = <<h, i>> /\ got[h][i] = v
          BY <1>2, <4>2
        <5>2. CASE r = <<h, 0>> /\ resume[h] = v /\ h = g
          <6>1. m(r) = <<g, Len(got[g]) + 1>> /\ v = w
            BY <5>2
          <6> QED BY <1>2, <3>3, <6>1
        <5>3. CASE r = <<h, 0>> /\ resume[h] = v /\ h # g
          <6>1. m(r) = r /\ resume'[h] = v
            BY <3>2, <5>3
          <6> QED BY <1>2, <5>3, <6>1
        <5>4. ASSUME NEW i \in 1 .. Len(got[h]), r = <<h, i>>, got[h][i] = v
              PROVE  m(r) \in InHands(v)'
          <6>1. m(r) = r /\ i \in 1 .. Len(got'[h]) /\ got'[h][i] = v
            BY <1>1, <3>3, <5>4
          <6> QED BY <1>2, <5>4, <6>1
        <5> QED BY <5>1, <5>2, <5>3, <5>4
      <4> QED BY <4>1, <4>2
    <3> HIDE DEF m
    <3>5. Delivered' = Delivered
      BY <2>1 DEF Delivered
    <3>6. ASSUME NEW v \in Value
          PROVE  IF v \in Delivered' THEN \E p : InHands(v)' = {p} ELSE InHands(v)' = {}
      <4>1. CASE v \in Delivered
        <5>1. PICK p : InHands(v) = {p}
          BY <4>1 DEF PInv, DeliveredOnce
        <5>2. InHands(v)' = {m(p)}
          BY <3>4, <5>1
        <5> QED BY <3>5, <4>1, <5>2
      <4>2. CASE v \notin Delivered
        BY <3>4, <3>5, <4>2 DEF PInv, DeliveredOnce
      <4> QED BY <4>1, <4>2
    <3> QED BY <3>6 DEF DeliveredOnce
  <2>4. CASE resume[g] \notin Value /\ handle[g] # Null
    <3>1. resume[g] = Null
      BY <1>1, <2>4
    <3>2. UNCHANGED <<resume, got>>
      BY <1>1, <1>6, <2>4, <3>1 DEF Pick, Return
    <3> QED BY <2>2, <3>2
  <2>5. handle[g] = Null => UNCHANGED <<resume, got>>
    BY <1>6 DEF Pick
  <2> QED BY <2>2, <2>3, <2>4, <2>5
<1>7. ASSUME UNCHANGED <<resume, got, taken>> PROVE DeliveredOnce'
  BY <1>7, DeliveredSame DEF PInv
<1>8. ASSUME NEW g \in Goroutine,
             \/ Yield(g) \/ Complete(g) \/ Suspend(g) \/ RemoveFromQueues(g)
             \/ HotkeyResume(g) \/ HotkeyStop(g)
             \/ \E c \in Channel : ReceiveWaits(g, c) \/ Close(c)
             \/ \E h \in Goroutine : Join(g, h)
      PROVE  UNCHANGED <<resume, got, taken>>
  BY <1>8 DEF Yield, Complete, EndSlice, Suspend, RemoveFromQueues, HotkeyResume,
              HotkeyStop, ReceiveWaits, Close, Join, goroutineVars, history
<1>9. CASE UNCHANGED vars
  BY <1>7, <1>9 DEF vars, goroutineVars, history
<1> QED BY <1>4, <1>5, <1>6, <1>7, <1>8, <1>9, Steps

\* Every accepted value is at one position of one queue, or on its way to one
\* receiver, or was received once: also when script threads send in the middle of
\* a suspension, and when receivers are resumed or stopped as hotkeys.
THEOREM NothingLostOrDoubled == Spec => []OnePlace
<1>1. Init => PInv
  <2> SUFFICES ASSUME Init PROVE PInv
    OBVIOUS
  <2>1. ChannelsTypeOK /\ OneInSlice /\ SentOnce /\ HandlesKept
    BY TypeInit, EmptySeq DEF Init, OneInSlice, SentOnce, HandlesKept
  <2>2. HandedInOrder
    BY EmptySeq, ConcatEmptySeq DEF Init, HandedInOrder
  <2>3. ASSUME NEW v \in Value PROVE v \notin Delivered /\ InHands(v) = {}
    BY ChannelsAssumption DEF Init, Delivered, InHands, Range
  <2> QED BY <2>1, <2>2, <2>3 DEF PInv, DeliveredOnce
<1>2. PInv /\ [Next]_vars => PInv'
  BY TypeStep, SliceStep, OrderStep, SentStep, HandleStep, DeliveredStep DEF PInv
<1> QED BY <1>1, <1>2, PlaceIsOne, PTL DEF Spec
=============================================================================
