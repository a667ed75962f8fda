------------------------------ MODULE Upvalues ------------------------------
(***************************************************************************)
(* Local variables, call frames and captured variables of the virtual      *)
(* machine (VM.cpp, VMControlFlow.cpp, VMDispatch.cpp).                    *)
(*                                                                         *)
(* A closure refers to the variables it captures through cells.  A cell is *)
(* open while the frame of its variable lives, and then names a slot of    *)
(* the VM's vector of locals; when the frame goes the value moves into the *)
(* cell.  open_upvalues maps slots to open cells, so that two closures     *)
(* that capture the same variable share a cell.  locals is saved and       *)
(* loaded when executions take turns on the VM; open_upvalues is not.      *)
(*                                                                         *)
(* A closure has one captured variable here, and a cell is named after the *)
(* closure it was made for.  box and truth are history variables: the      *)
(* variable a slot or a closure stands for in the language, and the value  *)
(* last assigned to it, through either.                                    *)
(***************************************************************************)
EXTENDS Integers, Sequences

CONSTANTS
  Fiber,        \* executions that take turns on the VM
  Main,
  Closure,
  None,
  Value,
  Null,
  FrameSize,    \* local_count of every function
  MaxFrames,    \* bound on the frames of one execution
  SuspendOpen,  \* an execution may be switched out while a cell is open
  SyncWrites    \* a callback run by callFunctionSync() may assign to variables
                \* of the frames below it

ASSUME UpvaluesAssumption ==
  /\ Main \in Fiber /\ None \notin Closure /\ Null \in Value
  /\ FrameSize \in Nat \ {0} /\ MaxFrames \in Nat \ {0}
  /\ SuspendOpen \in BOOLEAN /\ SyncWrites \in BOOLEAN

VARIABLES
  current,   \* whose state the VM holds
  locals,    \* the VM's for current, the one saved in the fiber for others
  frames,    \* likewise; a frame has the base of its locals and its closure
  openUp,    \* open_upvalues, from slots to cells
  cells,     \* [open, at, val] of every cell
  cellOf,    \* the cell of a closure, None before the closure is made
  saved,     \* what the callFunctionSync() calls in progress keep
  box,       \* history: the variable of every slot
  boxOf,     \* history: the variable of every closure
  truth      \* history: the value of every variable

vars == <<current, locals, frames, openUp, cells, cellOf, saved, box, boxOf, truth>>

Slot == 1 .. FrameSize * MaxFrames
L == locals[current]
F == frames[current]
Top == F[Len(F)]
Made == {k \in Closure : cellOf[k] # None}
Blank(v) == [i \in 1 .. FrameSize |-> IF i = 1 THEN v ELSE Null]
NoBox == [i \in 1 .. FrameSize |-> None]
Depth == IF saved = <<>> THEN 0 ELSE saved[Len(saved)].depth

(***************************************************************************)
(* Variables.                                                              *)
(***************************************************************************)
\* The value a closure reads through its cell (LOAD_UPVALUE) on the VM as it
\* is now.
Read(k) ==
  LET c == cells[cellOf[k]] IN
  IF c.open THEN IF c.at <= Len(L) THEN L[c.at] ELSE Null ELSE c.val

\* An assignment to the variable of a slot or closure, in the language.
Assign(b, v) == truth' = IF b = None THEN truth ELSE [truth EXCEPT ![b] = v]

\* CLOSURE with captures_local: the cell of the slot, or a new one.
Capture(k, i) ==
  LET at == Top.base + i IN
  /\ F # <<>> /\ k \notin Made /\ i \in 1 .. FrameSize
  /\ IF openUp[at] = None
     THEN /\ cellOf' = [cellOf EXCEPT ![k] = k]
          /\ cells' = [cells EXCEPT ![k] = [open |-> TRUE, at |-> at, val |-> Null]]
          /\ openUp' = [openUp EXCEPT ![at] = k]
     ELSE /\ cellOf' = [cellOf EXCEPT ![k] = openUp[at]]
          /\ UNCHANGED <<cells, openUp>>
  /\ IF box[current][at] = None
     THEN /\ box' = [box EXCEPT ![current][at] = k]
          /\ boxOf' = [boxOf EXCEPT ![k] = k]
          /\ truth' = [truth EXCEPT ![k] = L[at]]
     ELSE /\ boxOf' = [boxOf EXCEPT ![k] = box[current][at]]
          /\ UNCHANGED <<box, truth>>
  /\ UNCHANGED <<current, locals, frames, saved>>

\* CLOSURE of an upvalue of the closure that runs.
CaptureUpvalue(k) ==
  /\ F # <<>> /\ Top.clo # None /\ k \notin Made
  /\ cellOf' = [cellOf EXCEPT ![k] = cellOf[Top.clo]]
  /\ boxOf' = [boxOf EXCEPT ![k] = boxOf[Top.clo]]
  /\ UNCHANGED <<current, locals, frames, openUp, cells, saved, box, truth>>

\* STORE_VAR
StoreVar(i, v) ==
  LET at == Top.base + i IN
  /\ F # <<>> /\ i \in 1 .. FrameSize
  /\ locals' = [locals EXCEPT ![current][at] = v]
  /\ Assign(box[current][at], v)
  /\ UNCHANGED <<current, frames, openUp, cells, cellOf, saved, box, boxOf>>

\* ensureLocalIndex()
Padded(s, n) == [i \in 1 .. (IF n > Len(s) THEN n ELSE Len(s)) |->
                   IF i <= Len(s) THEN s[i] ELSE Null]

\* Mutant: the cell gets the value whether it is open or not.
MutantStoreUpvalue(v) ==
  /\ F # <<>> /\ Top.clo # None
  /\ cells' = [cells EXCEPT ![cellOf[Top.clo]].val = v]
  /\ Assign(boxOf[Top.clo], v)
  /\ UNCHANGED <<current, locals, frames, openUp, cellOf, saved, box, boxOf>>

\* The variable is in a slot that a callFunctionSync() will put back.
BelowCallback(c) ==
  saved # <<>> /\ cells[c].open /\ cells[c].at <= Len(saved[Len(saved)].locals)

\* STORE_UPVALUE
StoreUpvalue(v) ==
  LET c == cellOf[Top.clo] IN
  /\ F # <<>> /\ Top.clo # None
  /\ SyncWrites \/ ~BelowCallback(c)
  /\ IF cells[c].open
     THEN /\ locals' = [locals EXCEPT ![current] =
                          [Padded(@, cells[c].at) EXCEPT ![cells[c].at] = v]]
          /\ box' = [box EXCEPT ![current] =
                       [i \in DOMAIN locals'[current] |->
                          IF i <= Len(@) THEN @[i] ELSE None]]
          /\ UNCHANGED cells
     ELSE /\ cells' = [cells EXCEPT ![c].val = v]
          /\ UNCHANGED <<locals, box>>
  /\ Assign(boxOf[Top.clo], v)
  /\ UNCHANGED <<current, frames, openUp, cellOf, saved, boxOf>>

(***************************************************************************)
(* Calls.                                                                  *)
(***************************************************************************)
\* closeFrameUpvalues(): the cells of the slots above base get their values.
Closes(base) == {s \in Slot : s > base /\ openUp[s] # None}
MutantOpenLeft(base) == openUp
OpenLeft(base) == [s \in Slot |-> IF s \in Closes(base) THEN None ELSE openUp[s]]
ClosedCells(base) ==
  [c \in Closure |->
     IF \E s \in Closes(base) : openUp[s] = c
     THEN LET s == CHOOSE s \in Closes(base) : openUp[s] = c IN
          [cells[c] EXCEPT !.open = FALSE,
                           !.val = IF s <= Len(L) THEN L[s] ELSE Null]
     ELSE cells[c]]
Close(base) == openUp' = OpenLeft(base) /\ cells' = ClosedCells(base)

\* doCall() of a closure.
Enter(k, v) ==
  /\ Len(F) < MaxFrames /\ Len(L) + FrameSize <= FrameSize * MaxFrames
  /\ frames' = [frames EXCEPT ![current] = Append(@, [base |-> Len(L), clo |-> k])]
  /\ locals' = [locals EXCEPT ![current] = @ \o Blank(v)]
  /\ box' = [box EXCEPT ![current] = @ \o NoBox]
  /\ UNCHANGED <<current, openUp, cells, cellOf, boxOf, truth>>

Call(k, v) == F # <<>> /\ k \in Made /\ Enter(k, v) /\ UNCHANGED saved

\* Mutant: without closeFrameUpvalues().
MutantTailCall(k, v) ==
  /\ F # <<>> /\ k \in Made
  /\ frames' = [frames EXCEPT ![current][Len(F)].clo = k]
  /\ locals' = [locals EXCEPT ![current] = SubSeq(@, 1, Top.base) \o Blank(v)]
  /\ box' = [box EXCEPT ![current] = SubSeq(@, 1, Top.base) \o NoBox]
  /\ UNCHANGED <<current, openUp, cells, cellOf, saved, boxOf, truth>>

\* doTailCall(): the frame is used again.
TailCall(k, v) ==
  /\ F # <<>> /\ k \in Made
  /\ Close(Top.base)
  /\ frames' = [frames EXCEPT ![current][Len(F)].clo = k]
  /\ locals' = [locals EXCEPT ![current] = SubSeq(@, 1, Top.base) \o Blank(v)]
  /\ box' = [box EXCEPT ![current] = SubSeq(@, 1, Top.base) \o NoBox]
  /\ UNCHANGED <<current, cellOf, saved, boxOf, truth>>

\* What is left when the frames above n have gone.
Drop(n) ==
  LET base == F[n + 1].base IN
  /\ Close(base)
  /\ frames' = [frames EXCEPT ![current] = SubSeq(@, 1, n)]
  /\ locals' = [locals EXCEPT ![current] = SubSeq(@, 1, base)]
  /\ box' = [box EXCEPT ![current] = SubSeq(@, 1, base)]

\* doReturn(), not from the frame a callFunctionSync() waits for.
Return ==
  /\ F # <<>> /\ (saved = <<>> \/ Len(F) > Depth + 1)
  /\ Drop(Len(F) - 1)
  /\ UNCHANGED <<current, cellOf, saved, boxOf, truth>>

\* handleScriptThrow(): frames without a handler are unwound one by one, down
\* to one that has one (or to none at all).
Throw(n) ==
  /\ F # <<>> /\ n \in Depth .. Len(F) - 1 /\ (saved # <<>> => n > Depth)
  /\ Drop(n)
  /\ UNCHANGED <<current, cellOf, saved, boxOf, truth>>

\* callFunctionSync() of map, filter, reduce and foreach.
SyncCall(k, v) ==
  /\ F # <<>> /\ k \in Made
  /\ saved' = Append(saved, [depth |-> Len(F), locals |-> L, openUp |-> openUp])
  /\ Enter(k, v)

\* The callback returns: doReturn(), then the saved copies come back.
SyncReturn ==
  /\ saved # <<>> /\ Len(F) = Depth + 1
  /\ LET was == saved[Len(saved)] IN
     /\ cells' = ClosedCells(Top.base)
     /\ openUp' = was.openUp
     /\ locals' = [locals EXCEPT ![current] = was.locals]
     /\ box' = [box EXCEPT ![current] = SubSeq(@, 1, Len(was.locals))]
  /\ frames' = [frames EXCEPT ![current] = SubSeq(@, 1, Depth)]
  /\ saved' = SubSeq(saved, 1, Len(saved) - 1)
  /\ UNCHANGED <<current, cellOf, boxOf, truth>>

(***************************************************************************)
(* Executions.                                                             *)
(***************************************************************************)
MaySwitch(f) ==
  /\ f # current /\ saved = <<>>
  /\ SuspendOpen \/ \A s \in Slot : openUp[s] = None

\* saveFiberState() and loadFiberState(): nothing else changes hands.
Resume(f) ==
  /\ MaySwitch(f) /\ frames[f] # <<>>
  /\ current' = f
  /\ UNCHANGED <<locals, frames, openUp, cells, cellOf, saved, box, boxOf, truth>>

\* startGoroutineCall()
Start(f, k, v) ==
  /\ MaySwitch(f) /\ frames[f] = <<>> /\ k \in Made
  /\ current' = f
  /\ frames' = [frames EXCEPT ![f] = <<[base |-> 0, clo |-> k]>>]
  /\ locals' = [locals EXCEPT ![f] = Blank(v)]
  /\ box' = [box EXCEPT ![f] = NoBox]
  /\ UNCHANGED <<openUp, cells, cellOf, saved, boxOf, truth>>

Init ==
  /\ current = Main
  /\ locals = [f \in Fiber |-> IF f = Main THEN Blank(Null) ELSE <<>>]
  /\ frames = [f \in Fiber |-> IF f = Main THEN <<[base |-> 0, clo |-> None]>> ELSE <<>>]
  /\ openUp = [s \in Slot |-> None]
  /\ cells = [c \in Closure |-> [open |-> FALSE, at |-> 1, val |-> Null]]
  /\ cellOf = [k \in Closure |-> None]
  /\ saved = <<>>
  /\ box = [f \in Fiber |-> IF f = Main THEN NoBox ELSE <<>>]
  /\ boxOf = [k \in Closure |-> None]
  /\ truth = [k \in Closure |-> Null]

Next ==
  \/ \E k \in Closure, i \in 1 .. FrameSize : Capture(k, i)
  \/ \E k \in Closure : CaptureUpvalue(k)
  \/ \E i \in 1 .. FrameSize, v \in Value : StoreVar(i, v)
  \/ \E v \in Value : StoreUpvalue(v)
  \/ \E k \in Closure, v \in Value : Call(k, v) \/ TailCall(k, v) \/ SyncCall(k, v)
  \/ Return \/ SyncReturn
  \/ \E n \in 0 .. MaxFrames : Throw(n)
  \/ \E f \in Fiber : Resume(f) \/ \E k \in Closure, v \in Value : Start(f, k, v)

Spec == Init /\ [][Next]_vars

(***************************************************************************)
(* Properties.                                                             *)
(***************************************************************************)
UpvaluesTypeOK ==
  /\ current \in Fiber
  /\ \A f \in Fiber :
       /\ Len(locals[f]) \in 0 .. FrameSize * MaxFrames
       /\ \A i \in DOMAIN locals[f] : locals[f][i] \in Value
       /\ Len(box[f]) = Len(locals[f])
       /\ Len(frames[f]) \in 0 .. MaxFrames
       /\ \A n \in DOMAIN frames[f] : frames[f][n].base + FrameSize <= Len(locals[f])
  /\ openUp \in [Slot -> Closure \cup {None}]
  /\ cells \in [Closure -> [open : BOOLEAN, at : Slot, val : Value]]
  /\ cellOf \in [Closure -> Closure \cup {None}]
  /\ boxOf \in [Closure -> Closure \cup {None}]
  /\ truth \in [Closure -> Value]

\* Every open cell is registered for its slot, and its slot is one of a frame
\* that lives: closeFrameUpvalues() misses none of them.
OpenCellsLive ==
  /\ \A c \in Closure : cells[c].open => openUp[cells[c].at] = c
  /\ \A s \in Slot : openUp[s] # None =>
       /\ cells[openUp[s]].open /\ cells[openUp[s]].at = s
       /\ s <= Len(L)

\* A function sees what a closure assigned to a local that it captured.
LocalsSeeClosures ==
  \A f \in Fiber : \A i \in DOMAIN locals[f] :
    box[f][i] # None => locals[f][i] = truth[box[f][i]]

\* A closure sees the last value of its variable, before and after the frame
\* of the variable is gone, and whoever assigned it.
ClosuresSeeVariables == \A k \in Made : Read(k) = truth[boxOf[k]]

\* The two kinds of step that put them at risk: an execution is switched out with
\* a cell open; a callback assigns to a variable below it.
OpenSwitch == current' # current /\ \E s \in Slot : openUp[s] # None
CallbackWrites ==
  F # <<>> /\ BelowCallback(cellOf[Top.clo]) /\ \E v \in Value : StoreUpvalue(v)

\* Closures share a cell if and only if they captured the same variable.
SharedIffSame ==
  \A j, k \in Made : (cellOf[j] = cellOf[k]) <=> (boxOf[j] = boxOf[k])
=============================================================================
