--------------------------- MODULE Upvalues_proofs ---------------------------
(***************************************************************************)
(* Proofs about module Upvalues, for every number of executions, closures  *)
(* and values, every frame size and every depth of calls.                  *)
(*                                                                         *)
(* Two kinds of step can break what they say, a switch of executions while *)
(* a cell is open and an assignment of a callFunctionSync() callback to a  *)
(* variable of the frames below it; no other step can, whatever ran before *)
(* it.  Until the first of them open_upvalues belongs to the execution on  *)
(* the VM, and the copies callFunctionSync() puts back are what unwinding  *)
(* its frame would have left.                                              *)
(***************************************************************************)
EXTENDS Upvalues, SequenceTheorems, TLAPS

Frame == [base : Nat, clo : Closure \cup {None}]
Cell == [open : BOOLEAN, at : Slot, val : Value]
Copies == [depth : Nat, locals : Seq(Value), openUp : [Slot -> Closure \cup {None}]]

Typed ==
    /\ current \in Fiber
    /\ locals \in [Fiber -> Seq(Value)]
    /\ box \in [Fiber -> Seq(Closure \cup {None})]
    /\ frames \in [Fiber -> Seq(Frame)]
    /\ openUp \in [Slot -> Closure \cup {None}]
    /\ cells \in [Closure -> Cell]
    /\ cellOf \in [Closure -> Closure \cup {None}]
    /\ boxOf \in [Closure -> Closure \cup {None}]
    /\ truth \in [Closure -> Value]
    /\ saved \in Seq(Copies)

\* The frames of an execution lie one above the other in its locals.
Layout ==
    \A f \in Fiber :
        /\ Len(box[f]) = Len(locals[f]) /\ Len(locals[f]) <= FrameSize * MaxFrames
        /\ \A n \in 1 .. Len(frames[f]) :
             /\ frames[f][n].base + FrameSize <= Len(locals[f])
             /\ \A p \in 1 .. n - 1 : frames[f][p].base + FrameSize <= frames[f][n].base

\* Cells are those of closures that have been made.
MadeOnly ==
    /\ \A k \in Made : cellOf[k] \in Made
    /\ \A c \in Closure : cells[c].open => c \in Made
    /\ \A f \in Fiber : \A n \in 1 .. Len(frames[f]) : frames[f][n].clo \in Made \cup {None}

\* The value of a variable is where its cell says.
CellsTrue ==
    \A c \in Closure :
        truth[c] = IF cells[c].open THEN L[cells[c].at] ELSE cells[c].val

\* Before a switch with a cell open, the registry of open cells is that of the
\* execution on the VM, and it knows every captured variable by its cell.
Boxes ==
    /\ boxOf = cellOf
    /\ \A f \in Fiber : \A i \in 1 .. Len(locals[f]) :
         box[f][i] = IF f = current THEN openUp[i] ELSE None

\* The copies callFunctionSync() keeps agree with the VM below the frame that
\* it waits for.
CopiesAgree ==
    \A j \in 1 .. Len(saved) :
        /\ saved[j].depth < Len(F)
        /\ Len(saved[j].locals) = F[saved[j].depth + 1].base
        /\ \A i \in 1 .. Len(saved[j].locals) : saved[j].locals[i] = L[i]
        /\ \A s \in Slot : saved[j].openUp[s] =
             IF s <= Len(saved[j].locals) THEN openUp[s] ELSE None
        /\ \A i \in 1 .. j - 1 : saved[i].depth < saved[j].depth

\* The inductive invariant.
UInv ==
    /\ Typed
    /\ Layout
    /\ OpenCellsLive
    /\ MadeOnly
    /\ CellsTrue
    /\ Boxes
    /\ CopiesAgree

-----------------------------------------------------------------------------
(* Sequences, position by position.                                         *)

\* The first n elements.
LEMMA PrefixOf ==
    ASSUME NEW T, NEW s \in Seq(T), NEW n \in 0 .. Len(s)
    PROVE  /\ SubSeq(s, 1, n) \in Seq(T) /\ Len(SubSeq(s, 1, n)) = n
           /\ \A i \in 1 .. n : SubSeq(s, 1, n)[i] = s[i]
<1>1. Len(s) \in Nat /\ \A i \in 1 .. Len(s) : s[i] \in T
  BY LenProperties, ElementOfSeq
<1>2. n \in Int /\ \A i \in 1 .. n : s[i] \in T
  BY <1>1
<1>3. /\ SubSeq(s, 1, n) \in Seq(T)
      /\ Len(SubSeq(s, 1, n)) = IF 1 <= n THEN n - 1 + 1 ELSE 0
      /\ \A i \in 1 .. n - 1 + 1 : SubSeq(s, 1, n)[i] = s[1 + i - 1]
  BY <1>2, SubSeqProperties
<1>4. n \in Nat /\ n - 1 + 1 = n
  BY <1>1
<1>5. Len(SubSeq(s, 1, n)) = n
  BY <1>3, <1>4
<1>6. ASSUME NEW i \in 1 .. n PROVE SubSeq(s, 1, n)[i] = s[i]
  <2>1. 1 + i - 1 = i /\ i \in 1 .. n - 1 + 1
    BY <1>4
  <2> QED BY <1>3, <2>1
<1> QED BY <1>3, <1>5, <1>6

\* A call pushes the new frame's locals on those there are.
LEMMA JoinOf ==
    ASSUME NEW T, NEW s \in Seq(T), NEW t \in Seq(T)
    PROVE  /\ s \o t \in Seq(T) /\ Len(s \o t) = Len(s) + Len(t)
           /\ \A i \in 1 .. Len(s) : (s \o t)[i] = s[i]
           /\ \A i \in 1 .. Len(s) + Len(t) : i > Len(s) =>
                i - Len(s) \in 1 .. Len(t) /\ (s \o t)[i] = t[i - Len(s)]
<1>1. Len(s) \in Nat /\ Len(t) \in Nat
  BY LenProperties
<1>2. /\ s \o t \in Seq(T) /\ Len(s \o t) = Len(s) + Len(t)
      /\ \A i \in 1 .. Len(s) + Len(t) :
           (s \o t)[i] = IF i <= Len(s) THEN s[i] ELSE t[i - Len(s)]
  BY ConcatProperties
<1> QED BY <1>1, <1>2

\* The locals of a new frame.
LEMMA BlankFrame ==
    ASSUME NEW v \in Value
    PROVE  /\ Blank(v) \in Seq(Value) /\ Len(Blank(v)) = FrameSize
           /\ NoBox \in Seq(Closure \cup {None}) /\ Len(NoBox) = FrameSize
           /\ \A i \in 1 .. FrameSize : NoBox[i] = None
<1>1. FrameSize \in Nat /\ Null \in Value
  BY UpvaluesAssumption
<1>2. /\ Blank(v) \in [1 .. FrameSize -> Value]
      /\ NoBox \in [1 .. FrameSize -> Closure \cup {None}]
  BY <1>1 DEF Blank, NoBox
<1>3. Blank(v) \in Seq(Value) /\ NoBox \in Seq(Closure \cup {None})
  BY <1>1, <1>2, SeqDef
<1>4. Len(Blank(v)) = FrameSize /\ Len(NoBox) = FrameSize
  <2>1. DOMAIN Blank(v) = 1 .. FrameSize /\ DOMAIN NoBox = 1 .. FrameSize
    BY <1>2
  <2>2. /\ Len(Blank(v)) \in Nat /\ DOMAIN Blank(v) = 1 .. Len(Blank(v))
        /\ Len(NoBox) \in Nat /\ DOMAIN NoBox = 1 .. Len(NoBox)
    BY <1>3, LenProperties
  <2> HIDE DEF Blank, NoBox
  <2> QED BY <1>1, <2>1, <2>2
<1> QED BY <1>3, <1>4 DEF NoBox

\* ensureLocalIndex() of an index within the locals does nothing.
LEMMA PaddedSame ==
    ASSUME NEW T, NEW s \in Seq(T), NEW n \in 1 .. Len(s)
    PROVE  Padded(s, n) = s
<1>1. Len(s) \in Nat /\ s \in [1 .. Len(s) -> T]
  BY LenProperties
<1>2. Padded(s, n) = [i \in 1 .. Len(s) |-> s[i]]
  <2>1. (IF n > Len(s) THEN n ELSE Len(s)) = Len(s)
    <3> DEFINE len == Len(s)
    <3>1. len \in Nat /\ n \in 1 .. len
      BY <1>1
    <3> HIDE DEF len
    <3>2. ~(n > len)
      BY <3>1
    <3> QED BY <3>2 DEF len
  <2>2. Padded(s, n) = [i \in 1 .. Len(s) |-> IF i <= Len(s) THEN s[i] ELSE Null]
    BY <2>1, Zenon DEF Padded
  <2>3. \A i \in 1 .. Len(s) : (IF i <= Len(s) THEN s[i] ELSE Null) = s[i]
    BY <1>1
  <2> QED BY <2>2, <2>3
<1> QED BY <1>1, <1>2

-----------------------------------------------------------------------------
(* What the invariant says about the execution on the VM.                   *)

\* The locals and the frames of the execution on the VM.
LEMMA OnVM ==
    ASSUME UInv
    PROVE  /\ FrameSize \in Nat \ {0} /\ FrameSize * MaxFrames \in Nat
           /\ Slot = 1 .. FrameSize * MaxFrames /\ None \notin Closure
           /\ L \in Seq(Value) /\ Len(L) \in Nat /\ Len(L) <= FrameSize * MaxFrames
           /\ \A i \in 1 .. Len(L) : L[i] \in Value
           /\ box[current] \in Seq(Closure \cup {None}) /\ Len(box[current]) = Len(L)
           /\ F \in Seq(Frame) /\ Len(F) \in Nat
           /\ \A n \in 1 .. Len(F) :
                /\ F[n] \in Frame /\ F[n].base \in Nat /\ F[n].clo \in Closure \cup {None}
                /\ F[n].base + FrameSize <= Len(L)
                /\ \A p \in 1 .. n - 1 : F[p].base + FrameSize <= F[n].base
           /\ F # <<>> => Len(F) \in 1 .. Len(F) /\ Top = F[Len(F)]
<1>1. /\ FrameSize \in Nat \ {0} /\ MaxFrames \in Nat \ {0} /\ None \notin Closure
  BY UpvaluesAssumption
<1>2. FrameSize * MaxFrames \in Nat /\ Slot = 1 .. FrameSize * MaxFrames
  BY <1>1 DEF Slot
<1>3. /\ L \in Seq(Value) /\ box[current] \in Seq(Closure \cup {None}) /\ F \in Seq(Frame)
      /\ current \in Fiber
  BY DEF UInv, Typed, L, F
<1>4. /\ Len(L) \in Nat /\ Len(F) \in Nat
      /\ \A i \in 1 .. Len(L) : L[i] \in Value
      /\ \A n \in 1 .. Len(F) : F[n] \in Frame
  BY <1>3, LenProperties, ElementOfSeq
<1>5. /\ Len(box[current]) = Len(L) /\ Len(L) <= FrameSize * MaxFrames
      /\ \A n \in 1 .. Len(F) :
           /\ F[n].base + FrameSize <= Len(L)
           /\ \A p \in 1 .. n - 1 : F[p].base + FrameSize <= F[n].base
  BY <1>3 DEF UInv, Layout, L, F
<1>6. F # <<>> => Len(F) \in 1 .. Len(F) /\ Top = F[Len(F)]
  BY <1>3, <1>4, EmptySeq DEF Top
<1>7. \A n \in 1 .. Len(F) : F[n].base \in Nat /\ F[n].clo \in Closure \cup {None}
  BY <1>4 DEF Frame
<1> HIDE DEF L, F, Slot, Top
<1> QED BY <1>1, <1>2, <1>3, <1>4, <1>5, <1>6, <1>7

\* The copies in progress are of locals below the frame each one waits for.
LEMMA CopiesBelow ==
    ASSUME UInv, NEW j \in 1 .. Len(saved)
    PROVE  /\ saved \in Seq(Copies) /\ Len(saved) \in Nat
           /\ saved[j] \in Copies /\ saved[j].depth \in Nat
           /\ Depth \in Nat /\ Depth = saved[Len(saved)].depth
           /\ saved[j].depth <= Depth /\ Depth < Len(F)
           /\ Len(saved[j].locals) = F[saved[j].depth + 1].base
           /\ \A n \in Depth + 1 .. Len(F) : F[saved[j].depth + 1].base <= F[n].base
<1>1. saved \in Seq(Copies) /\ Len(saved) \in Nat /\ saved # <<>>
  BY LenProperties, EmptySeq DEF UInv, Typed
<1>2. \A i \in 1 .. Len(saved) : saved[i] \in Copies
  BY <1>1, ElementOfSeq
<1>3. \A i \in 1 .. Len(saved) : saved[i].depth \in Nat
  BY <1>2 DEF Copies
<1>4. Len(saved) \in 1 .. Len(saved)
  BY <1>1
<1>5. Depth = saved[Len(saved)].depth
  BY <1>1 DEF Depth
<1>6. /\ \A i \in 1 .. Len(saved) : /\ saved[i].depth < Len(F)
                                    /\ Len(saved[i].locals) = F[saved[i].depth + 1].base
      /\ \A i \in 1 .. Len(saved) - 1 : saved[i].depth < saved[Len(saved)].depth
  BY <1>4 DEF UInv, CopiesAgree
<1>7. saved[j].depth <= Depth
  BY <1>1, <1>3, <1>5, <1>6
<1>8. ASSUME NEW n \in Depth + 1 .. Len(F)
      PROVE  F[saved[j].depth + 1].base <= F[n].base
  <2>1. Len(F) \in Nat /\ FrameSize \in Nat
        /\ \A m \in 1 .. Len(F) : /\ F[m].base \in Nat
                                  /\ \A p \in 1 .. m - 1 : F[p].base + FrameSize <= F[m].base
    BY OnVM
  <2> DEFINE p == saved[j].depth + 1
  <2>2. p \in Nat /\ p <= n /\ p \in 1 .. Len(F) /\ n \in 1 .. Len(F)
    BY <1>3, <1>4, <1>5, <1>7, <2>1
  <2> HIDE DEF p, F
  <2>3. p = n \/ p \in 1 .. n - 1
    BY <2>1, <2>2
  <2>4. F[p].base <= F[n].base
    BY <2>1, <2>2, <2>3
  <2> QED BY <2>4 DEF p
<1> QED BY <1>1, <1>2, <1>3, <1>4, <1>5, <1>6, <1>7, <1>8

-----------------------------------------------------------------------------
(* The parts of the invariant, one by one.                                  *)

\* One execution's frames change.
LEMMA LayoutOfOne ==
    ASSUME UInv, NEW e \in Fiber,
           \A f \in Fiber \ {e} : /\ frames'[f] = frames[f] /\ locals'[f] = locals[f]
                                  /\ box'[f] = box[f],
           Len(box'[e]) = Len(locals'[e]), Len(locals'[e]) <= FrameSize * MaxFrames,
           \A n \in 1 .. Len(frames'[e]) :
               /\ frames'[e][n].base + FrameSize <= Len(locals'[e])
               /\ \A p \in 1 .. n - 1 : frames'[e][p].base + FrameSize <= frames'[e][n].base
    PROVE  Layout'
BY DEF UInv, Layout

\* No closure is made, no cell opened.
LEMMA MadeKept ==
    ASSUME UInv, NEW e \in Fiber, UNCHANGED cellOf,
           \A c \in Closure : cells'[c].open => cells[c].open,
           \A f \in Fiber \ {e} : frames'[f] = frames[f],
           \A n \in 1 .. Len(frames'[e]) : frames'[e][n].clo \in Made \cup {None}
    PROVE  MadeOnly'
<1>1. Made' = Made
  BY DEF Made
<1> QED BY <1>1 DEF UInv, MadeOnly

\* The first d frames and b locals stay, and the copies in progress are of them.
LEMMA CopiesKept ==
    ASSUME UInv, NEW b \in Nat, NEW d \in Nat,
           d <= Len(F'), Len(F') \in Nat,
           \A n \in 1 .. d : F'[n].base = F[n].base,
           \A i \in 1 .. b : L'[i] = L[i],
           \A s \in Slot : s <= b => openUp'[s] = openUp[s],
           \A j \in 1 .. Len(saved') :
               /\ j \in 1 .. Len(saved) /\ saved'[j] = saved[j]
               /\ saved[j].depth < d /\ Len(saved[j].locals) <= b
    PROVE  CopiesAgree'
<1> SUFFICES ASSUME NEW j \in 1 .. Len(saved')
             PROVE  /\ saved'[j].depth < Len(F')
                    /\ Len(saved'[j].locals) = F'[saved'[j].depth + 1].base
                    /\ \A i \in 1 .. Len(saved'[j].locals) : saved'[j].locals[i] = L'[i]
                    /\ \A s \in Slot : saved'[j].openUp[s] =
                         IF s <= Len(saved'[j].locals) THEN openUp'[s] ELSE None
                    /\ \A i \in 1 .. j - 1 : saved'[i].depth < saved'[j].depth
  BY DEF CopiesAgree
<1> DEFINE w == saved[j]
<1>1. /\ j \in 1 .. Len(saved) /\ saved'[j] = w
      /\ w.depth < d /\ Len(w.locals) <= b
      /\ \A i \in 1 .. j - 1 : saved'[i] = saved[i]
  <2>1. \A i \in 1 .. j - 1 : i \in 1 .. Len(saved')
    OBVIOUS
  <2> QED BY <2>1
<1>2. /\ w.depth \in Nat /\ w \in Copies /\ Len(w.locals) \in Nat
  BY <1>1, CopiesBelow, LenProperties DEF Copies
<1>3. /\ Len(w.locals) = F[w.depth + 1].base
      /\ \A i \in 1 .. Len(w.locals) : w.locals[i] = L[i]
      /\ \A s \in Slot : w.openUp[s] = IF s <= Len(w.locals) THEN openUp[s] ELSE None
      /\ \A i \in 1 .. j - 1 : saved[i].depth < w.depth
  BY <1>1 DEF UInv, CopiesAgree
<1> HIDE DEF w
<1>4. w.depth < Len(F') /\ w.depth + 1 \in 1 .. d
  BY <1>1, <1>2
<1>5. \A i \in 1 .. Len(w.locals) : i \in 1 .. b
  BY <1>1, <1>2
<1>6. \A s \in Slot : s <= Len(w.locals) => s <= b
  BY <1>1, <1>2, OnVM
<1> QED BY <1>1, <1>3, <1>4, <1>5, <1>6

\* A step of the function that runs, which is above all the copies.
LEMMA CopiesUnderTop ==
    ASSUME UInv, F # <<>>, UNCHANGED saved, Len(F') \in Nat, Len(F) <= Len(F'),
           \A n \in 1 .. Len(F) : F'[n].base = F[n].base,
           \A i \in 1 .. Top.base : L'[i] = L[i],
           \A s \in Slot : s <= Top.base => openUp'[s] = openUp[s]
    PROVE  CopiesAgree'
<1>1. /\ Len(F) \in Nat /\ Len(F) \in 1 .. Len(F) /\ Top = F[Len(F)] /\ Top.base \in Nat
  BY OnVM
<1>2. ASSUME NEW j \in 1 .. Len(saved)
      PROVE  saved[j].depth < Len(F) /\ Len(saved[j].locals) <= Top.base
  <2>1. /\ saved[j].depth \in Nat /\ Depth \in Nat /\ saved[j].depth <= Depth
        /\ Depth < Len(F) /\ Len(saved[j].locals) = F[saved[j].depth + 1].base
        /\ \A n \in Depth + 1 .. Len(F) : F[saved[j].depth + 1].base <= F[n].base
    BY CopiesBelow
  <2>2. Len(F) \in Depth + 1 .. Len(F)
    BY <1>1, <2>1
  <2>3. F[saved[j].depth + 1].base <= F[Len(F)].base
    BY <2>1, <2>2
  <2>4. saved[j].depth < Len(F)
    BY <1>1, <2>1
  <2>5. Len(saved[j].locals) <= Top.base
    BY <1>1, <2>1, <2>3, Zenon
  <2> QED BY <2>4, <2>5
<1> QED BY <1>1, <1>2, CopiesKept

\* closeFrameUpvalues() closes the open cells above base, and no others.
LEMMA CloseEffect ==
    ASSUME UInv, NEW base \in Nat
    PROVE  /\ \A s \in Slot : OpenLeft(base)[s] = IF s > base THEN None ELSE openUp[s]
           /\ \A c \in Closure : ClosedCells(base)[c] =
                IF cells[c].open /\ cells[c].at > base
                THEN [cells[c] EXCEPT !.open = FALSE, !.val = L[cells[c].at]]
                ELSE cells[c]
           /\ OpenLeft(base) \in [Slot -> Closure \cup {None}]
           /\ ClosedCells(base) \in [Closure -> Cell]
<1>1. /\ openUp \in [Slot -> Closure \cup {None}] /\ cells \in [Closure -> Cell]
      /\ \A c \in Closure : cells[c].open => openUp[cells[c].at] = c
      /\ \A s \in Slot : openUp[s] # None => cells[openUp[s]].at = s
                                             /\ cells[openUp[s]].open /\ s <= Len(L)
  BY DEF UInv, Typed, OpenCellsLive
<1>2. \A c \in Closure : cells[c].at \in Slot /\ cells[c].at \in Nat
  BY <1>1, OnVM DEF Cell
<1>3. \A s \in Slot : OpenLeft(base)[s] = IF s > base THEN None ELSE openUp[s]
  BY DEF OpenLeft, Closes
<1>4. ASSUME NEW c \in Closure
      PROVE  ClosedCells(base)[c] =
                IF cells[c].open /\ cells[c].at > base
                THEN [cells[c] EXCEPT !.open = FALSE, !.val = L[cells[c].at]]
                ELSE cells[c]
  <2>1. \A s \in Closes(base) : openUp[s] = c => s = cells[c].at /\ cells[c].open /\ s > base
    BY <1>1, OnVM DEF Closes
  <2>2. cells[c].open /\ cells[c].at > base => cells[c].at \in Closes(base)
                                               /\ openUp[cells[c].at] = c
    BY <1>1, <1>2, OnVM DEF Closes
  <2>3. CASE cells[c].open /\ cells[c].at > base
    <3> DEFINE t == CHOOSE s \in Closes(base) : openUp[s] = c
    <3>1. \E s \in Closes(base) : openUp[s] = c
      BY <2>2, <2>3
    <3>2. t = cells[c].at
      BY <2>1, <3>1
    <3>3. cells[c].at <= Len(L)
      BY <1>1, <1>2, <2>3, OnVM
    <3>4. ClosedCells(base)[c] =
            [cells[c] EXCEPT !.open = FALSE, !.val = IF t <= Len(L) THEN L[t] ELSE Null]
      BY <3>1 DEF ClosedCells
    <3> HIDE DEF t
    <3> QED BY <2>3, <3>2, <3>3, <3>4
  <2>4. CASE ~(cells[c].open /\ cells[c].at > base)
    BY <2>1, <2>4 DEF ClosedCells
  <2> QED BY <2>3, <2>4
<1>5. OpenLeft(base) \in [Slot -> Closure \cup {None}]
  BY <1>1 DEF OpenLeft
<1>6. \A c \in Closure : ClosedCells(base)[c] \in Cell
  <2> SUFFICES ASSUME NEW c \in Closure PROVE ClosedCells(base)[c] \in Cell
    OBVIOUS
  <2>1. cells[c] \in Cell /\ (cells[c].open => L[cells[c].at] \in Value)
    BY <1>1, <1>2, OnVM
  <2> QED BY <1>4, <2>1 DEF Cell
<1>7. ClosedCells(base) \in [Closure -> Cell]
  BY <1>6 DEF ClosedCells
<1> QED BY <1>3, <1>4, <1>5, <1>7

\* What lies above base goes: the cells of the slots there are closed with the
\* value of the variable, so nothing that a variable or a closure stands for is lost.
LEMMA Unwind ==
    ASSUME UInv, NEW base \in Nat, base <= Len(L), Close(base),
           UNCHANGED <<current, cellOf, boxOf, truth>>,
           \A f \in Fiber \ {current} : locals'[f] = locals[f] /\ box'[f] = box[f],
           Len(L') \in Nat, base <= Len(L'), Len(L') <= FrameSize * MaxFrames,
           \A i \in 1 .. base : L'[i] = L[i],
           \A i \in 1 .. Len(L') : box'[current][i] =
               IF i <= base THEN box[current][i] ELSE None
    PROVE  /\ openUp' \in [Slot -> Closure \cup {None}] /\ cells' \in [Closure -> Cell]
           /\ OpenCellsLive' /\ CellsTrue' /\ Boxes'
           /\ \A c \in Closure : cells'[c].open => cells[c].open
           /\ \A s \in Slot : s <= base => openUp'[s] = openUp[s]
<1>1. /\ \A s \in Slot : openUp'[s] = IF s > base THEN None ELSE openUp[s]
      /\ openUp' \in [Slot -> Closure \cup {None}] /\ cells' \in [Closure -> Cell]
  BY CloseEffect DEF Close
<1>2. /\ openUp \in [Slot -> Closure \cup {None}] /\ cells \in [Closure -> Cell]
      /\ \A c \in Closure : cells[c].open => openUp[cells[c].at] = c
      /\ \A s \in Slot : openUp[s] # None => cells[openUp[s]].at = s
                                             /\ cells[openUp[s]].open /\ s <= Len(L)
      /\ current \in Fiber
  BY DEF UInv, Typed, OpenCellsLive
<1>3. \A c \in Closure : /\ cells[c].at \in Slot /\ cells[c].at \in Nat
                         /\ cells[c].open => cells[c].at \in 1 .. Len(L)
  BY <1>2, OnVM DEF Cell
<1>4. ASSUME NEW c \in Closure
      PROVE  /\ cells'[c].open <=> cells[c].open /\ ~(cells[c].at > base)
             /\ cells'[c].open => cells'[c].at = cells[c].at
             /\ cells[c].open /\ ~cells'[c].open => cells'[c].val = L[cells[c].at]
             /\ ~cells[c].open => cells'[c].val = cells[c].val
  <2>1. cells'[c] = IF cells[c].open /\ cells[c].at > base
                    THEN [cells[c] EXCEPT !.open = FALSE, !.val = L[cells[c].at]]
                    ELSE cells[c]
    BY CloseEffect DEF Close
  <2>2. cells[c] \in Cell
    BY <1>2
  <2>3. CASE cells[c].open /\ cells[c].at > base
    BY <2>1, <2>2, <2>3 DEF Cell
  <2>4. CASE ~(cells[c].open /\ cells[c].at > base)
    BY <2>1, <2>4
  <2> QED BY <2>3, <2>4
<1>5. Slot = 1 .. FrameSize * MaxFrames /\ None \notin Closure /\ Len(L) \in Nat
      /\ FrameSize * MaxFrames \in Nat
  BY OnVM
<1>6. OpenCellsLive'
  <2>1. ASSUME NEW c \in Closure, cells'[c].open PROVE openUp'[cells'[c].at] = c
    <3>1. /\ cells[c].open /\ ~(cells[c].at > base) /\ cells'[c].at = cells[c].at
          /\ cells[c].at \in Slot
      BY <1>3, <1>4, <2>1
    <3>2. openUp'[cells[c].at] = openUp[cells[c].at]
      BY <1>1, <3>1
    <3> QED BY <1>2, <3>1, <3>2
  <2>2. ASSUME NEW s \in Slot, openUp'[s] # None
        PROVE  cells'[openUp'[s]].open /\ cells'[openUp'[s]].at = s /\ s <= Len(L')
    <3>1. ~(s > base) /\ openUp'[s] = openUp[s]
      BY <1>1, <2>2
    <3>2. /\ openUp[s] \in Closure
          /\ cells[openUp[s]].open /\ cells[openUp[s]].at = s
      BY <1>2, <2>2, <3>1
    <3>3. s <= Len(L')
      BY <1>5, <3>1
    <3>4. cells'[openUp[s]].open /\ cells'[openUp[s]].at = s
      BY <1>4, <3>1, <3>2
    <3> QED BY <3>1, <3>3, <3>4
  <2> QED BY <2>1, <2>2 DEF OpenCellsLive
<1>7. CellsTrue'
  <2> SUFFICES ASSUME NEW c \in Closure
               PROVE  truth'[c] = IF cells'[c].open THEN L'[cells'[c].at] ELSE cells'[c].val
    BY DEF CellsTrue
  <2>1. truth'[c] = IF cells[c].open THEN L[cells[c].at] ELSE cells[c].val
    BY DEF UInv, CellsTrue
  <2>2. cells'[c].open => cells[c].at \in 1 .. base
    BY <1>3, <1>4
  <2> QED BY <1>4, <2>1, <2>2
<1>8. Boxes'
  <2>1. boxOf' = cellOf'
    BY DEF UInv, Boxes
  <2>2. ASSUME NEW i \in 1 .. Len(L')
        PROVE  box'[current][i] = openUp'[i]
    <3>1. i \in Slot /\ i \in Nat
      BY <1>5
    <3>2. CASE i <= base
      <4>1. i \in 1 .. Len(L) /\ ~(i > base)
        BY <1>5, <3>1, <3>2
      <4>2. box[current][i] = openUp[i]
        BY <1>2, <4>1 DEF UInv, Boxes, L
      <4>3. box'[current][i] = box[current][i]
        BY <3>2
      <4>4. openUp'[i] = openUp[i]
        BY <1>1, <3>1, <4>1
      <4> QED BY <4>2, <4>3, <4>4
    <3>3. CASE ~(i <= base)
      <4>1. i > base
        BY <3>1, <3>3
      <4>2. openUp'[i] = None
        BY <1>1, <3>1, <4>1
      <4>3. box'[current][i] = None
        BY <3>3
      <4> QED BY <4>2, <4>3
    <3> QED BY <3>2, <3>3
  <2>3. ASSUME NEW f \in Fiber \ {current}, NEW i \in 1 .. Len(locals'[f])
        PROVE  box'[f][i] = None
    BY <2>3 DEF UInv, Boxes
  <2>4. L' = locals'[current] /\ current' = current
    BY DEF L
  <2>5. ASSUME NEW f \in Fiber, NEW i \in 1 .. Len(locals'[f])
        PROVE  box'[f][i] = IF f = current THEN openUp'[i] ELSE None
    BY <2>2, <2>3, <2>4
  <2> QED BY <2>1, <2>4, <2>5 DEF Boxes
<1>9. \A s \in Slot : s <= base => openUp'[s] = openUp[s]
  BY <1>1, <1>5
<1> QED BY <1>1, <1>4, <1>6, <1>7, <1>8, <1>9

-----------------------------------------------------------------------------
(* The operations.                                                          *)

\* A slot of the function that runs.
LEMMA OwnSlot ==
    ASSUME UInv, F # <<>>, NEW i \in 1 .. FrameSize
    PROVE  /\ Top.base + i \in Slot /\ Top.base + i \in 1 .. Len(L)
           /\ Top.base + i > Top.base /\ Top.base \in Nat
           /\ box[current][Top.base + i] = openUp[Top.base + i]
<1>1. /\ FrameSize \in Nat \ {0} /\ Len(L) \in Nat /\ FrameSize * MaxFrames \in Nat
      /\ Len(L) <= FrameSize * MaxFrames /\ Slot = 1 .. FrameSize * MaxFrames
      /\ Top.base \in Nat /\ Top.base + FrameSize <= Len(L)
  BY OnVM
<1>2. Top.base + i \in 1 .. Len(L) /\ Top.base + i > Top.base /\ Top.base + i \in Slot
  BY <1>1
<1>3. \A s \in 1 .. Len(L) : box[current][s] = openUp[s]
  BY DEF UInv, Typed, Boxes, L
<1> QED BY <1>1, <1>2, <1>3

\* CLOSURE of a local variable: the cell of the slot is shared, or a new one
\* takes over the value of the variable.
LEMMA CaptureStep ==
    ASSUME UInv, NEW k \in Closure, NEW i \in 1 .. FrameSize, Capture(k, i)
    PROVE  UInv'
<1>1. /\ F # <<>> /\ k \notin Made
      /\ UNCHANGED <<current, locals, frames, saved>>
  BY DEF Capture
<1>2. PICK at \in Slot : /\ at = Top.base + i /\ at \in 1 .. Len(L) /\ at > Top.base
                         /\ Top.base \in Nat /\ box[current][at] = openUp[at]
  BY <1>1, OwnSlot
<1>3. /\ current \in Fiber /\ box \in [Fiber -> Seq(Closure \cup {None})]
      /\ openUp \in [Slot -> Closure \cup {None}] /\ cells \in [Closure -> Cell]
      /\ cellOf \in [Closure -> Closure \cup {None}] /\ boxOf = cellOf
      /\ truth \in [Closure -> Value]
  BY DEF UInv, Typed, Boxes
<1>4. /\ None \notin Closure /\ Slot = 1 .. FrameSize * MaxFrames
      /\ Null \in Value /\ L[at] \in Value /\ Len(L) \in Nat
      /\ box[current] \in Seq(Closure \cup {None}) /\ Len(box[current]) = Len(L)
  BY <1>2, OnVM, UpvaluesAssumption
<1>5. /\ ~cells[k].open /\ \A s \in Slot : openUp[s] # k
      /\ \A c \in Closure : cells[c].open => openUp[cells[c].at] = c /\ cells[c].at \in Slot
      /\ \A s \in Slot : openUp[s] # None =>
           cells[openUp[s]].open /\ cells[openUp[s]].at = s /\ s <= Len(L)
  BY <1>1, <1>3, <1>4 DEF UInv, MadeOnly, OpenCellsLive, Cell
<1>6. CASE openUp[at] = None
  <2>1. /\ cellOf' = [cellOf EXCEPT ![k] = k]
        /\ cells' = [cells EXCEPT ![k] = [open |-> TRUE, at |-> at, val |-> Null]]
        /\ openUp' = [openUp EXCEPT ![at] = k]
        /\ box' = [box EXCEPT ![current][at] = k]
        /\ boxOf' = [boxOf EXCEPT ![k] = k]
        /\ truth' = [truth EXCEPT ![k] = L[at]]
    BY <1>2, <1>6 DEF Capture
  <2>2. /\ [box[current] EXCEPT ![at] = k] \in Seq(Closure \cup {None})
        /\ Len([box[current] EXCEPT ![at] = k]) = Len(L)
        /\ \A j \in 1 .. Len(L) : [box[current] EXCEPT ![at] = k][j] =
                                    IF j = at THEN k ELSE box[current][j]
    BY <1>2, <1>4, ExceptSeq
  <2>3. /\ box' \in [Fiber -> Seq(Closure \cup {None})]
        /\ \A f \in Fiber \ {current} : box'[f] = box[f]
        /\ Len(box'[current]) = Len(L)
        /\ \A j \in 1 .. Len(L) : box'[current][j] = IF j = at THEN k ELSE box[current][j]
    BY <1>3, <2>1, <2>2
  <2>4. [open |-> TRUE, at |-> at, val |-> Null] \in Cell
    BY <1>4 DEF Cell
  <2>5. Typed'
    BY <1>1, <1>3, <1>4, <2>1, <2>3, <2>4 DEF UInv, Typed
  <2>6. Layout'
    BY <1>1, <2>3 DEF UInv, Layout, L
  <2>7. OpenCellsLive'
    <3>1. \A c \in Closure : cells'[c].open => openUp'[cells'[c].at] = c
      BY <1>3, <1>4, <1>5, <1>6, <2>1
    <3>2. L' = L
      BY <1>1 DEF L
    <3>3. ASSUME NEW s \in Slot, openUp'[s] # None
          PROVE  cells'[openUp'[s]].open /\ cells'[openUp'[s]].at = s /\ s <= Len(L)
      <4>1. CASE s = at
        <5>1. openUp'[s] = k /\ cells'[k] = [open |-> TRUE, at |-> at, val |-> Null]
          BY <1>3, <2>1, <4>1
        <5> QED BY <1>2, <1>4, <4>1, <5>1
      <4>2. CASE s # at
        <5>1. openUp'[s] = openUp[s] /\ openUp[s] # k /\ openUp[s] \in Closure
          BY <1>3, <1>5, <2>1, <3>3, <4>2
        <5>2. cells'[openUp[s]] = cells[openUp[s]]
          BY <1>3, <2>1, <5>1
        <5> QED BY <1>5, <3>3, <5>1, <5>2
      <4> QED BY <4>1, <4>2
    <3> QED BY <3>1, <3>2, <3>3 DEF OpenCellsLive
  <2>8. MadeOnly'
    <3>1. Made' = Made \cup {k}
      BY <1>3, <1>4, <2>1 DEF Made
    <3> QED BY <1>1, <1>3, <2>1, <3>1 DEF UInv, MadeOnly
  <2>9. CellsTrue'
    <3>1. L' = L
      BY <1>1 DEF L
    <3>2. ASSUME NEW c \in Closure
          PROVE  truth'[c] = IF cells'[c].open THEN L[cells'[c].at] ELSE cells'[c].val
      BY <1>3, <2>1 DEF UInv, CellsTrue
    <3> QED BY <3>1, <3>2 DEF CellsTrue
  <2>10. Boxes'
    <3>1. boxOf' = cellOf'
      BY <1>3, <2>1
    <3>2. ASSUME NEW j \in 1 .. Len(L) PROVE box'[current][j] = openUp'[j]
      <4>1. j \in Slot
        BY <1>4, OnVM
      <4>2. box[current][j] = openUp[j]
        BY <1>3 DEF UInv, Boxes, L
      <4> QED BY <1>3, <2>1, <2>3, <4>1, <4>2
    <3> QED BY <1>1, <2>3, <3>1, <3>2 DEF UInv, Boxes, L
  <2>11. CopiesAgree'
    <3>1. F' = F /\ L' = L /\ Len(F) \in Nat /\ \A s \in Slot : s \in Nat
      BY <1>1, OnVM DEF F, L
    <3>2. \A s \in Slot : s <= Top.base => openUp'[s] = openUp[s]
      BY <1>2, <1>3, <2>1, <3>1
    <3> QED BY <1>1, <3>1, <3>2, CopiesUnderTop
  <2> QED BY <2>5, <2>6, <2>7, <2>8, <2>9, <2>10, <2>11 DEF UInv
<1>7. CASE openUp[at] # None
  <2>1. /\ cellOf' = [cellOf EXCEPT ![k] = openUp[at]]
        /\ boxOf' = [boxOf EXCEPT ![k] = openUp[at]]
        /\ UNCHANGED <<cells, openUp, box, truth>>
    BY <1>2, <1>7 DEF Capture
  <2>2. openUp[at] \in Made
    BY <1>3, <1>5, <1>7 DEF UInv, MadeOnly
  <2>3. Typed'
    BY <1>1, <1>3, <2>1 DEF UInv, Typed
  <2>4. MadeOnly'
    <3>1. Made' = Made \cup {k}
      BY <1>3, <1>4, <1>7, <2>1 DEF Made
    <3> QED BY <1>1, <1>3, <2>1, <2>2, <3>1 DEF UInv, MadeOnly
  <2>5. Layout' /\ OpenCellsLive' /\ CellsTrue' /\ CopiesAgree'
    BY <1>1, <2>1 DEF UInv, Layout, OpenCellsLive, CellsTrue, CopiesAgree, L, F
  <2>6. Boxes'
    BY <1>1, <1>3, <2>1 DEF UInv, Boxes
  <2> QED BY <2>3, <2>4, <2>5, <2>6 DEF UInv
<1> QED BY <1>6, <1>7

\* CLOSURE of a captured variable of the closure that runs shares its cell.
LEMMA CaptureUpvalueStep ==
    ASSUME UInv, NEW k \in Closure, CaptureUpvalue(k)
    PROVE  UInv'
<1>1. /\ F # <<>> /\ Top.clo # None /\ k \notin Made
      /\ UNCHANGED <<current, locals, frames, openUp, cells, saved, box, truth>>
  BY DEF CaptureUpvalue
<1>2. /\ cellOf \in [Closure -> Closure \cup {None}] /\ boxOf = cellOf
      /\ None \notin Closure
  BY UpvaluesAssumption DEF UInv, Typed, Boxes
<1>3. Top.clo \in Made /\ cellOf[Top.clo] \in Made
  <2>1. Top.clo \in Made \cup {None}
    BY <1>1, OnVM DEF UInv, Typed, MadeOnly, F
  <2> QED BY <1>1, <2>1 DEF UInv, MadeOnly
<1>4. /\ cellOf' = [cellOf EXCEPT ![k] = cellOf[Top.clo]]
      /\ boxOf' = [boxOf EXCEPT ![k] = cellOf[Top.clo]]
  BY <1>2 DEF CaptureUpvalue
<1>5. cellOf[Top.clo] \in Closure
  BY <1>3 DEF Made
<1> DEFINE c == cellOf[Top.clo]
<1>6. Typed'
  BY <1>1, <1>2, <1>4, <1>5 DEF UInv, Typed
<1>7. MadeOnly'
  <2>1. Made' = Made \cup {k}
    BY <1>2, <1>4, <1>5 DEF Made
  <2>2. \A j \in Made \cup {k} : cellOf'[j] \in Made
    BY <1>2, <1>3, <1>4 DEF UInv, MadeOnly, Made
  <2> QED BY <1>1, <2>1, <2>2 DEF UInv, MadeOnly
<1>8. Layout' /\ OpenCellsLive' /\ CellsTrue' /\ CopiesAgree'
  BY <1>1 DEF UInv, Layout, OpenCellsLive, CellsTrue, CopiesAgree, L, F
<1>9. Boxes'
  BY <1>1, <1>2, <1>4 DEF UInv, Boxes
<1> QED BY <1>6, <1>7, <1>8, <1>9 DEF UInv

\* An assignment to a slot, and to the variable whose open cell names it: what
\* the two stores come down to while the cell is open.
LEMMA AssignSlot ==
    ASSUME UInv, NEW at \in 1 .. Len(L), NEW v \in Value,
           locals' = [locals EXCEPT ![current][at] = v],
           truth' = IF openUp[at] = None THEN truth ELSE [truth EXCEPT ![openUp[at]] = v],
           UNCHANGED <<current, frames, openUp, cells, cellOf, saved, box, boxOf>>,
           \A j \in 1 .. Len(saved) : at > Len(saved[j].locals)
    PROVE  UInv'
<1>1. /\ current \in Fiber /\ locals \in [Fiber -> Seq(Value)] /\ L \in Seq(Value)
      /\ openUp \in [Slot -> Closure \cup {None}] /\ truth \in [Closure -> Value]
      /\ cells \in [Closure -> Cell] /\ L = locals[current] /\ L' = locals'[current]
      /\ Len(L) \in Nat /\ at \in Nat /\ at \in Slot
      /\ Slot = 1 .. FrameSize * MaxFrames
      /\ None \notin Closure
  BY OnVM DEF UInv, Typed, L
<1>2. /\ [L EXCEPT ![at] = v] \in Seq(Value) /\ Len([L EXCEPT ![at] = v]) = Len(L)
      /\ \A i \in 1 .. Len(L) : [L EXCEPT ![at] = v][i] = IF i = at THEN v ELSE L[i]
  BY <1>1, ExceptSeq
<1>3. /\ locals' \in [Fiber -> Seq(Value)] /\ Len(L') = Len(L)
      /\ \A i \in 1 .. Len(L) : L'[i] = IF i = at THEN v ELSE L[i]
      /\ \A f \in Fiber \ {current} : locals'[f] = locals[f]
  <2>1. locals' = [locals EXCEPT ![current] = [L EXCEPT ![at] = v]]
    BY <1>1
  <2> QED BY <1>1, <1>2, <2>1
<1>4. \A f \in Fiber : Len(locals'[f]) = Len(locals[f])
  BY <1>1, <1>3
<1>5. truth' \in [Closure -> Value]
  BY <1>1
<1>6. Typed' /\ Layout' /\ MadeOnly' /\ Boxes'
  BY <1>3, <1>4, <1>5 DEF UInv, Typed, Layout, MadeOnly, Boxes, Made
<1>7. OpenCellsLive'
  BY <1>3 DEF UInv, OpenCellsLive
<1>8. CellsTrue'
  <2> SUFFICES ASSUME NEW c \in Closure
               PROVE  truth'[c] = IF cells[c].open THEN L'[cells[c].at] ELSE cells[c].val
    BY DEF CellsTrue
  <2>1. /\ truth[c] = IF cells[c].open THEN L[cells[c].at] ELSE cells[c].val
        /\ cells[c].open => openUp[cells[c].at] = c
        /\ openUp[at] # None => cells[openUp[at]].open /\ cells[openUp[at]].at = at
        /\ cells[c].at \in Slot
    BY <1>1 DEF UInv, CellsTrue, OpenCellsLive, Cell
  <2>2. cells[c].open => cells[c].at \in 1 .. Len(L)
    <3>1. cells[c].open => openUp[cells[c].at] # None
      BY <1>1, <2>1
    <3>2. cells[c].open => cells[c].at <= Len(L)
      BY <2>1, <3>1 DEF UInv, OpenCellsLive
    <3> QED BY <1>1, <2>1, <3>2
  <2>3. CASE openUp[at] = c
    <3>1. cells[c].open /\ cells[c].at = at /\ truth' = [truth EXCEPT ![c] = v]
      BY <1>1, <2>1, <2>3
    <3> QED BY <1>1, <1>3, <3>1
  <2>4. CASE openUp[at] # c
    <3>1. truth'[c] = truth[c] /\ (cells[c].open => cells[c].at # at)
      BY <1>1, <2>1, <2>4
    <3> QED BY <1>3, <2>1, <2>2, <3>1
  <2> QED BY <2>3, <2>4
<1>9. CopiesAgree'
  <2>1. F' = F /\ Len(F) \in Nat
    BY OnVM DEF F
  <2>2. \A i \in 1 .. at - 1 : L'[i] = L[i]
    BY <1>1, <1>3
  <2>3. ASSUME NEW j \in 1 .. Len(saved)
        PROVE  saved[j].depth < Len(F) /\ Len(saved[j].locals) <= at - 1
    <3>1. saved[j].locals \in Seq(Value) /\ saved[j].depth < Len(F)
      BY CopiesBelow DEF Copies, UInv, CopiesAgree
    <3>2. Len(saved[j].locals) \in Nat
      BY <3>1, LenProperties
    <3> QED BY <1>1, <3>1, <3>2
  <2>4. at - 1 \in Nat
    BY <1>1
  <2> QED BY <2>1, <2>2, <2>3, <2>4, CopiesKept
<1> QED BY <1>6, <1>7, <1>8, <1>9 DEF UInv

\* STORE_VAR
LEMMA StoreVarStep ==
    ASSUME UInv, NEW i \in 1 .. FrameSize, NEW v \in Value, StoreVar(i, v)
    PROVE  UInv'
<1>1. F # <<>> /\ UNCHANGED <<current, frames, openUp, cells, cellOf, saved, box, boxOf>>
  BY DEF StoreVar
<1>2. PICK at \in 1 .. Len(L) : /\ at = Top.base + i /\ at > Top.base
                                /\ Top.base \in Nat /\ box[current][at] = openUp[at]
  BY <1>1, OwnSlot
<1>3. /\ locals' = [locals EXCEPT ![current][at] = v]
      /\ truth' = IF openUp[at] = None THEN truth ELSE [truth EXCEPT ![openUp[at]] = v]
  BY <1>2 DEF StoreVar, Assign
<1>4. ASSUME NEW j \in 1 .. Len(saved) PROVE at > Len(saved[j].locals)
  <2>1. /\ Len(F) \in Nat /\ Top = F[Len(F)] /\ Len(L) \in Nat
    BY <1>1, OnVM
  <2>2. /\ Depth \in Nat /\ Depth < Len(F) /\ saved[j] \in Copies
        /\ Len(saved[j].locals) = F[saved[j].depth + 1].base
        /\ \A n \in Depth + 1 .. Len(F) : F[saved[j].depth + 1].base <= F[n].base
    BY CopiesBelow
  <2>3. Len(F) \in Depth + 1 .. Len(F)
    BY <2>1, <2>2
  <2>4. F[saved[j].depth + 1].base <= F[Len(F)].base
    BY <2>2, <2>3
  <2>5. Len(saved[j].locals) \in Nat /\ Len(saved[j].locals) <= Top.base
    BY <2>1, <2>2, <2>4, LenProperties DEF Copies
  <2>6. at \in Nat
    BY <2>1
  <2> QED BY <1>2, <2>5, <2>6
<1> QED BY <1>1, <1>3, <1>4, AssignSlot

\* STORE_UPVALUE: through an open cell into the slot, else into the cell.
LEMMA StoreUpvalueStep ==
    ASSUME UInv, NEW v \in Value, StoreUpvalue(v), ~CallbackWrites
    PROVE  UInv'
<1>1. /\ F # <<>> /\ Top.clo # None
      /\ UNCHANGED <<current, frames, openUp, cellOf, saved, boxOf>>
  BY DEF StoreUpvalue
<1>2. /\ cellOf \in [Closure -> Closure \cup {None}] /\ boxOf = cellOf
      /\ cells \in [Closure -> Cell] /\ truth \in [Closure -> Value]
      /\ None \notin Closure
  BY UpvaluesAssumption DEF UInv, Typed, Boxes
<1>3. PICK c \in Closure : c = cellOf[Top.clo]
  <2>1. Top.clo \in Made
    BY <1>1, OnVM DEF UInv, Typed, MadeOnly, F
  <2> QED BY <2>1 DEF UInv, MadeOnly, Made
<1>4. truth' = [truth EXCEPT ![c] = v]
  <2>1. Assign(boxOf[Top.clo], v)
    BY DEF StoreUpvalue
  <2>2. boxOf[Top.clo] = c
    BY <1>2, <1>3
  <2> QED BY <1>2, <2>1, <2>2 DEF Assign
<1>5. CASE cells[c].open
  <2>1. PICK at \in 1 .. Len(L) : at = cells[c].at /\ openUp[at] = c
    <3>1. openUp[cells[c].at] = c /\ cells[c].at \in Slot
      BY <1>2, <1>5 DEF UInv, OpenCellsLive, Cell
    <3>2. cells[c].at <= Len(L)
      BY <1>2, <3>1 DEF UInv, OpenCellsLive
    <3> QED BY <3>1, <3>2, OnVM
  <2>2. Padded(L, at) = L
    BY <2>1, OnVM, PaddedSame
  <2>3. locals' = [locals EXCEPT ![current] = [L EXCEPT ![at] = v]]
    BY <1>3, <1>5, <2>1, <2>2 DEF StoreUpvalue, L
  <2>4. box' = box
    <3>1. /\ current \in Fiber /\ locals \in [Fiber -> Seq(Value)]
          /\ box \in [Fiber -> Seq(Closure \cup {None})]
      BY DEF UInv, Typed
    <3>2. /\ [L EXCEPT ![at] = v] \in Seq(Value) /\ Len([L EXCEPT ![at] = v]) = Len(L)
      BY <2>1, OnVM, ExceptSeq
    <3>3. DOMAIN locals'[current] = 1 .. Len(L)
      BY <2>3, <3>1, <3>2, LenProperties
    <3>4. box' = [box EXCEPT ![current] =
                    [i \in 1 .. Len(L) |-> IF i <= Len(@) THEN @[i] ELSE None]]
      BY <1>3, <1>5, <3>3 DEF StoreUpvalue
    <3>5. Len(box[current]) = Len(L) /\ box[current] \in [1 .. Len(L) -> Closure \cup {None}]
      BY OnVM, LenProperties
    <3>6. [i \in 1 .. Len(L) |-> IF i <= Len(box[current]) THEN box[current][i] ELSE None]
            = box[current]
      BY <3>5, OnVM
    <3> QED BY <3>1, <3>4, <3>6
  <2>5. UNCHANGED cells
    BY <1>3, <1>5 DEF StoreUpvalue
  <2>6. ASSUME NEW j \in 1 .. Len(saved) PROVE at > Len(saved[j].locals)
    <3>1. saved # <<>> /\ Len(saved) \in 1 .. Len(saved) /\ saved \in Seq(Copies)
      BY CopiesBelow, EmptySeq
    <3>2. at > Len(saved[Len(saved)].locals)
      <4>1. saved[Len(saved)].locals \in Seq(Value)
        BY <3>1, CopiesBelow DEF Copies
      <4>2. Len(saved[Len(saved)].locals) \in Nat /\ at \in Nat
        BY <4>1, LenProperties, OnVM
      <4>3. ~(at <= Len(saved[Len(saved)].locals))
        BY <1>1, <1>3, <1>5, <2>1, <3>1 DEF CallbackWrites, BelowCallback
      <4> QED BY <4>2, <4>3
    <3>3. /\ Depth = saved[Len(saved)].depth /\ Depth \in Nat /\ Depth < Len(F)
          /\ Len(saved[j].locals) = F[saved[j].depth + 1].base
          /\ \A n \in Depth + 1 .. Len(F) : F[saved[j].depth + 1].base <= F[n].base
          /\ saved[j] \in Copies
      BY CopiesBelow
    <3>4. Len(saved[Len(saved)].locals) = F[Depth + 1].base
      BY <3>1, <3>3, CopiesBelow
    <3>5. Len(saved[j].locals) <= Len(saved[Len(saved)].locals)
      <4>1. Depth + 1 \in Depth + 1 .. Len(F)
        BY <3>3, OnVM
      <4> QED BY <3>3, <3>4, <4>1
    <3>6. Len(saved[j].locals) \in Nat /\ Len(saved[Len(saved)].locals) \in Nat /\ at \in Nat
      <4>1. saved[Len(saved)] \in Copies
        BY <3>1, CopiesBelow
      <4>2. saved[j].locals \in Seq(Value) /\ saved[Len(saved)].locals \in Seq(Value)
        BY <3>3, <4>1 DEF Copies
      <4> QED BY <4>2, LenProperties, OnVM
    <3> QED BY <3>2, <3>5, <3>6
  <2>7. locals' = [locals EXCEPT ![current][at] = v]
    BY <2>3 DEF L
  <2>8. truth' = IF openUp[at] = None THEN truth ELSE [truth EXCEPT ![openUp[at]] = v]
    BY <1>2, <1>4, <2>1
  <2> QED BY <1>1, <2>4, <2>5, <2>6, <2>7, <2>8, AssignSlot
<1>6. CASE ~cells[c].open
  <2>1. cells' = [cells EXCEPT ![c].val = v] /\ UNCHANGED <<locals, box>>
    BY <1>3, <1>6 DEF StoreUpvalue
  <2>2. /\ cells' \in [Closure -> Cell]
        /\ \A d \in Closure : cells'[d].open = cells[d].open /\ cells'[d].at = cells[d].at
        /\ \A d \in Closure \ {c} : cells'[d].val = cells[d].val
        /\ cells'[c].val = v
    BY <1>2, <2>1 DEF Cell
  <2>3. truth' \in [Closure -> Value]
    BY <1>2, <1>4
  <2>4. Typed' /\ Layout' /\ MadeOnly' /\ Boxes' /\ CopiesAgree'
    BY <1>1, <2>1, <2>2, <2>3
       DEF UInv, Typed, Layout, MadeOnly, Boxes, CopiesAgree, Made, L, F
  <2>5. OpenCellsLive'
    <3>1. openUp \in [Slot -> Closure \cup {None}] /\ L' = L
      BY <1>1, <2>1 DEF UInv, Typed, L
    <3> QED BY <1>1, <2>2, <3>1 DEF UInv, OpenCellsLive
  <2>6. CellsTrue'
    <3>1. L' = L
      BY <1>1, <2>1 DEF L
    <3>2. \A d \in Closure : truth[d] = IF cells[d].open THEN L[cells[d].at] ELSE cells[d].val
      BY DEF UInv, CellsTrue
    <3>3. \A d \in Closure :
            truth'[d] = IF cells'[d].open THEN L[cells'[d].at] ELSE cells'[d].val
      BY <1>2, <1>4, <1>6, <2>2, <3>2
    <3> QED BY <3>1, <3>3 DEF CellsTrue
  <2> QED BY <2>4, <2>5, <2>6 DEF UInv
<1> QED BY <1>5, <1>6

\* doCall() puts a frame on top: its locals are new, and no cell names them.
LEMMA EnterEffect ==
    ASSUME UInv, F # <<>>, NEW k \in Made, NEW v \in Value, Enter(k, v)
    PROVE  /\ UNCHANGED <<current, openUp, cells, cellOf, boxOf, truth>>
           /\ locals' \in [Fiber -> Seq(Value)] /\ frames' \in [Fiber -> Seq(Frame)]
           /\ box' \in [Fiber -> Seq(Closure \cup {None})]
           /\ Layout' /\ OpenCellsLive' /\ MadeOnly' /\ CellsTrue' /\ Boxes'
           /\ Len(F') = Len(F) + 1 /\ \A n \in 1 .. Len(F) : F'[n] = F[n]
           /\ F'[Len(F) + 1].base = Len(L) /\ \A i \in 1 .. Len(L) : L'[i] = L[i]
<1>1. /\ current \in Fiber /\ locals \in [Fiber -> Seq(Value)]
      /\ frames \in [Fiber -> Seq(Frame)] /\ box \in [Fiber -> Seq(Closure \cup {None})]
      /\ openUp \in [Slot -> Closure \cup {None}] /\ cells \in [Closure -> Cell]
  BY DEF UInv, Typed
<1>2. /\ L = locals[current] /\ F = frames[current]
      /\ UNCHANGED <<current, openUp, cells, cellOf, boxOf, truth>>
      /\ Len(L) + FrameSize <= FrameSize * MaxFrames
      /\ frames' = [frames EXCEPT ![current] = Append(F, [base |-> Len(L), clo |-> k])]
      /\ locals' = [locals EXCEPT ![current] = L \o Blank(v)]
      /\ box' = [box EXCEPT ![current] = box[current] \o NoBox]
  BY DEF Enter, L, F
<1>3. L' = L \o Blank(v) /\ F' = Append(F, [base |-> Len(L), clo |-> k])
  BY <1>1, <1>2 DEF L, F
<1>4. /\ k \in Closure /\ [base |-> Len(L), clo |-> k] \in Frame
  BY OnVM DEF Made, Frame
<1>5. /\ F' \in Seq(Frame) /\ Len(F') = Len(F) + 1
      /\ \A n \in 1 .. Len(F) : F'[n] = F[n]
      /\ F'[Len(F) + 1] = [base |-> Len(L), clo |-> k]
  BY <1>3, <1>4, OnVM, AppendProperties
<1>6. /\ L' \in Seq(Value) /\ Len(L') = Len(L) + FrameSize
      /\ \A i \in 1 .. Len(L) : L'[i] = L[i]
  <2>1. L \in Seq(Value) /\ Blank(v) \in Seq(Value) /\ Len(Blank(v)) = FrameSize
    BY OnVM, BlankFrame
  <2>2. /\ L \o Blank(v) \in Seq(Value) /\ Len(L \o Blank(v)) = Len(L) + Len(Blank(v))
        /\ \A i \in 1 .. Len(L) : (L \o Blank(v))[i] = L[i]
    BY <2>1, JoinOf, Zenon
  <2> QED BY <1>3, <2>1, <2>2
<1>7. /\ box[current] \o NoBox \in Seq(Closure \cup {None})
      /\ Len(box[current] \o NoBox) = Len(L) + FrameSize
      /\ \A i \in 1 .. Len(L) : (box[current] \o NoBox)[i] = box[current][i]
      /\ \A i \in 1 .. Len(L) + FrameSize : i > Len(L) =>
           (box[current] \o NoBox)[i] = None
  <2> DEFINE b == box[current]
  <2>1. b \in Seq(Closure \cup {None}) /\ Len(b) = Len(L)
    BY OnVM
  <2>2. /\ NoBox \in Seq(Closure \cup {None}) /\ Len(NoBox) = FrameSize
        /\ \A i \in 1 .. FrameSize : NoBox[i] = None
    BY BlankFrame
  <2> HIDE DEF b
  <2>3. /\ b \o NoBox \in Seq(Closure \cup {None}) /\ Len(b \o NoBox) = Len(b) + Len(NoBox)
        /\ \A i \in 1 .. Len(b) : (b \o NoBox)[i] = b[i]
        /\ \A i \in 1 .. Len(b) + Len(NoBox) : i > Len(b) =>
             i - Len(b) \in 1 .. Len(NoBox) /\ (b \o NoBox)[i] = NoBox[i - Len(b)]
    BY <2>1, <2>2, JoinOf, Zenon
  <2> QED BY <2>1, <2>2, <2>3 DEF b
<1>8. box'[current] = box[current] \o NoBox
  BY <1>1, <1>2
<1>9. /\ locals' \in [Fiber -> Seq(Value)] /\ frames' \in [Fiber -> Seq(Frame)]
      /\ box' \in [Fiber -> Seq(Closure \cup {None})]
      /\ \A f \in Fiber \ {current} : /\ frames'[f] = frames[f] /\ locals'[f] = locals[f]
                                      /\ box'[f] = box[f]
      /\ locals'[current] = L' /\ frames'[current] = F'
  BY <1>1, <1>2, <1>3, <1>5, <1>6, <1>7
<1>10. Layout'
  <2>1. ASSUME NEW n \in 1 .. Len(F')
        PROVE  /\ F'[n].base + FrameSize <= Len(L')
               /\ \A p \in 1 .. n - 1 : F'[p].base + FrameSize <= F'[n].base
    <3>1. /\ Len(L) \in Nat /\ Len(F) \in Nat /\ FrameSize \in Nat
          /\ \A m \in 1 .. Len(F) :
                /\ F[m].base \in Nat /\ F[m].base + FrameSize <= Len(L)
                /\ \A p \in 1 .. m - 1 : F[p].base + FrameSize <= F[m].base
      BY OnVM
    <3>2. CASE n \in 1 .. Len(F)
      <4>1. \A p \in 1 .. n - 1 : F'[p] = F[p] /\ p \in 1 .. Len(F)
        BY <1>5, <3>1, <3>2
      <4>2. F'[n] = F[n] /\ Len(L') = Len(L) + FrameSize /\ F[n].base + FrameSize \in Nat
        BY <1>5, <1>6, <3>1, <3>2
      <4>3. F[n].base + FrameSize <= Len(L')
        BY <3>1, <3>2, <4>2
      <4> QED BY <3>1, <3>2, <4>1, <4>2, <4>3
    <3>3. CASE n = Len(F) + 1
      <4>1. F'[n].base = Len(L)
        BY <1>5, <3>3
      <4>2. \A p \in 1 .. n - 1 : F'[p] = F[p] /\ p \in 1 .. Len(F)
        BY <1>5, <3>1, <3>3
      <4> QED BY <1>6, <3>1, <4>1, <4>2
    <3>4. n \in 1 .. Len(F) \/ n = Len(F) + 1
      <4>1. n \in 1 .. Len(F) + 1
        BY <1>5
      <4> QED BY <3>1, <4>1
    <3> QED BY <3>2, <3>3, <3>4
  <2>2. Len(box'[current]) = Len(L') /\ Len(L') <= FrameSize * MaxFrames
    BY <1>2, <1>6, <1>7, <1>8
  <2> QED BY <1>1, <1>9, <2>1, <2>2, LayoutOfOne
<1>11. OpenCellsLive'
  BY <1>2, <1>6, OnVM DEF UInv, OpenCellsLive
<1>12. MadeOnly'
  <2>1. \A n \in 1 .. Len(F) : F[n].clo \in Made \cup {None}
    BY <1>1, <1>2 DEF UInv, MadeOnly
  <2>2. ASSUME NEW n \in 1 .. Len(F') PROVE F'[n].clo \in Made \cup {None}
    <3>1. Len(F) \in Nat
      BY OnVM
    <3>2. n \in 1 .. Len(F) \/ n = Len(F) + 1
      BY <1>5, <3>1
    <3> QED BY <1>5, <2>1, <3>2
  <2> QED BY <1>1, <1>2, <1>9, <2>2, MadeKept
<1>13. CellsTrue'
  <2> SUFFICES ASSUME NEW c \in Closure
               PROVE  truth[c] = IF cells[c].open THEN L'[cells[c].at] ELSE cells[c].val
    BY <1>2 DEF CellsTrue
  <2>1. /\ truth[c] = IF cells[c].open THEN L[cells[c].at] ELSE cells[c].val
        /\ cells[c].open => openUp[cells[c].at] = c
        /\ cells[c].at \in Slot
    BY <1>1 DEF UInv, CellsTrue, OpenCellsLive, Cell
  <2>2. cells[c].open => cells[c].at \in 1 .. Len(L)
    <3>1. cells[c].open => openUp[cells[c].at] # None
      BY <2>1, OnVM
    <3> QED BY <2>1, <3>1, OnVM DEF UInv, OpenCellsLive
  <2> QED BY <1>6, <2>1, <2>2
<1>14. Boxes'
  <2>1. boxOf' = cellOf'
    BY <1>2 DEF UInv, Boxes
  <2>2. /\ \A f \in Fiber \ {current} : \A i \in 1 .. Len(locals[f]) : box[f][i] = None
        /\ \A i \in 1 .. Len(L) : box[current][i] = openUp[i]
    BY <1>1, <1>2 DEF UInv, Boxes
  <2>3. ASSUME NEW i \in 1 .. Len(L') PROVE box'[current][i] = openUp[i]
    <3>1. /\ i \in Slot /\ i \in 1 .. Len(L) + FrameSize /\ Len(L) \in Nat
      BY <1>2, <1>6, OnVM
    <3>2. CASE i <= Len(L)
      BY <1>7, <1>8, <2>2, <3>1, <3>2
    <3>3. CASE i > Len(L)
      <4>1. openUp[i] = None
        BY <3>1, <3>3 DEF UInv, OpenCellsLive
      <4> QED BY <1>7, <1>8, <3>1, <3>3, <4>1
    <3> QED BY <3>1, <3>2, <3>3
  <2>4. ASSUME NEW f \in Fiber, NEW i \in 1 .. Len(locals'[f])
        PROVE  box'[f][i] = IF f = current THEN openUp[i] ELSE None
    BY <1>9, <2>2, <2>3
  <2> QED BY <1>2, <2>1, <2>4 DEF Boxes
<1> QED BY <1>2, <1>5, <1>6, <1>9, <1>10, <1>11, <1>12, <1>13, <1>14

\* doCall()
LEMMA CallStep ==
    ASSUME UInv, NEW k \in Closure, NEW v \in Value, Call(k, v)
    PROVE  UInv'
<1>1. F # <<>> /\ k \in Made /\ Enter(k, v) /\ UNCHANGED saved
  BY DEF Call
<1>2. /\ UNCHANGED <<current, openUp, cells, cellOf, boxOf, truth>>
      /\ locals' \in [Fiber -> Seq(Value)] /\ frames' \in [Fiber -> Seq(Frame)]
      /\ box' \in [Fiber -> Seq(Closure \cup {None})]
      /\ Layout' /\ OpenCellsLive' /\ MadeOnly' /\ CellsTrue' /\ Boxes'
      /\ Len(F') = Len(F) + 1 /\ \A n \in 1 .. Len(F) : F'[n] = F[n]
      /\ \A i \in 1 .. Len(L) : L'[i] = L[i]
  BY <1>1, EnterEffect
<1>3. Typed'
  BY <1>1, <1>2 DEF UInv, Typed
<1>4. CopiesAgree'
  <2>1. /\ Len(F) \in Nat /\ Len(L) \in Nat /\ FrameSize \in Nat
        /\ Len(F) \in 1 .. Len(F) /\ Top = F[Len(F)]
        /\ Top.base \in Nat /\ Top.base + FrameSize <= Len(L)
    BY <1>1, OnVM
  <2>2. \A i \in 1 .. Top.base : i \in 1 .. Len(L)
    BY <2>1
  <2>3. /\ Len(F') \in Nat /\ Len(F) <= Len(F')
        /\ \A n \in 1 .. Len(F) : F'[n].base = F[n].base
        /\ \A i \in 1 .. Top.base : L'[i] = L[i]
        /\ \A s \in Slot : s <= Top.base => openUp'[s] = openUp[s]
    BY <1>2, <2>1, <2>2
  <2> QED BY <1>1, <2>3, CopiesUnderTop
<1> QED BY <1>2, <1>3, <1>4 DEF UInv

\* callFunctionSync() keeps copies of the locals and of the registry.
LEMMA SyncCallStep ==
    ASSUME UInv, NEW k \in Closure, NEW v \in Value, SyncCall(k, v)
    PROVE  UInv'
<1> DEFINE copy == [depth |-> Len(F), locals |-> L, openUp |-> openUp]
<1>1. F # <<>> /\ k \in Made /\ Enter(k, v) /\ saved' = Append(saved, copy)
  BY DEF SyncCall
<1>2. /\ UNCHANGED <<current, openUp, cells, cellOf, boxOf, truth>>
      /\ locals' \in [Fiber -> Seq(Value)] /\ frames' \in [Fiber -> Seq(Frame)]
      /\ box' \in [Fiber -> Seq(Closure \cup {None})]
      /\ Layout' /\ OpenCellsLive' /\ MadeOnly' /\ CellsTrue' /\ Boxes'
      /\ Len(F') = Len(F) + 1 /\ \A n \in 1 .. Len(F) : F'[n] = F[n]
      /\ F'[Len(F) + 1].base = Len(L)
      /\ \A i \in 1 .. Len(L) : L'[i] = L[i]
  BY <1>1, EnterEffect
<1>3. /\ saved \in Seq(Copies) /\ openUp \in [Slot -> Closure \cup {None}]
      /\ Len(F) \in Nat /\ L \in Seq(Value) /\ Len(L) \in Nat
  BY OnVM DEF UInv, Typed
<1>4. copy \in Copies
  BY <1>3 DEF Copies
<1>5. /\ saved' \in Seq(Copies) /\ Len(saved') = Len(saved) + 1 /\ Len(saved) \in Nat
      /\ \A j \in 1 .. Len(saved) : saved'[j] = saved[j]
      /\ saved'[Len(saved) + 1] = copy
  BY <1>1, <1>3, <1>4, AppendProperties, LenProperties
<1>6. Typed'
  BY <1>2, <1>5 DEF UInv, Typed
<1>7. CopiesAgree'
  <2> SUFFICES ASSUME NEW j \in 1 .. Len(saved')
               PROVE  /\ saved'[j].depth < Len(F')
                      /\ Len(saved'[j].locals) = F'[saved'[j].depth + 1].base
                      /\ \A i \in 1 .. Len(saved'[j].locals) : saved'[j].locals[i] = L'[i]
                      /\ \A s \in Slot : saved'[j].openUp[s] =
                           IF s <= Len(saved'[j].locals) THEN openUp'[s] ELSE None
                      /\ \A i \in 1 .. j - 1 : saved'[i].depth < saved'[j].depth
    BY DEF CopiesAgree
  <2>1. \A i \in 1 .. Len(saved) : saved[i].depth \in Nat /\ saved[i].depth < Len(F)
    BY CopiesBelow DEF UInv, CopiesAgree
  <2>2. CASE j \in 1 .. Len(saved)
    <3> DEFINE w == saved[j]
    <3>1. saved'[j] = w /\ \A i \in 1 .. j - 1 : saved'[i] = saved[i]
      BY <1>5, <2>2
    <3>2. /\ w.depth \in Nat /\ w.depth < Len(F) /\ w \in Copies
          /\ Len(w.locals) = F[w.depth + 1].base
          /\ \A i \in 1 .. Len(w.locals) : w.locals[i] = L[i]
          /\ \A s \in Slot : w.openUp[s] = IF s <= Len(w.locals) THEN openUp[s] ELSE None
          /\ \A i \in 1 .. j - 1 : saved[i].depth < w.depth
      BY <2>1, <2>2, CopiesBelow DEF UInv, CopiesAgree
    <3>3. F[w.depth + 1].base \in Nat /\ F[w.depth + 1].base + FrameSize <= Len(L)
          /\ FrameSize \in Nat /\ w.depth + 1 \in 1 .. Len(F)
      BY <3>2, OnVM
    <3> HIDE DEF w, copy
    <3>4. \A i \in 1 .. Len(w.locals) : i \in 1 .. Len(L)
      BY <1>3, <3>2, <3>3
    <3>5. w.depth < Len(F') /\ Len(w.locals) = F'[w.depth + 1].base
      BY <1>2, <1>3, <3>2, <3>3
    <3> QED BY <1>2, <3>1, <3>2, <3>4, <3>5
  <2>3. CASE j = Len(saved) + 1
    <3>1. saved'[j] = copy /\ copy.depth = Len(F) /\ copy.locals = L /\ copy.openUp = openUp
      BY <1>5, <2>3
    <3>2. \A i \in 1 .. j - 1 : i \in 1 .. Len(saved)
      BY <1>5, <2>3
    <3>3. \A i \in 1 .. j - 1 : saved'[i].depth < Len(F)
      BY <1>5, <2>1, <3>2
    <3>4. \A s \in Slot : openUp[s] = IF s <= Len(L) THEN openUp[s] ELSE None
      BY DEF UInv, OpenCellsLive
    <3>5. Len(F) < Len(F')
      BY <1>2, <1>3
    <3> HIDE DEF copy
    <3> QED BY <1>2, <3>1, <3>3, <3>4, <3>5
  <2> QED BY <1>5, <2>2, <2>3
<1> QED BY <1>2, <1>6, <1>7 DEF UInv

\* The frames above n go, and the copies left are of what is below them.
LEMMA DropEffect ==
    ASSUME UInv, NEW n \in 0 .. Len(F) - 1, Drop(n),
           UNCHANGED <<current, cellOf, boxOf, truth>>, saved' \in Seq(Copies),
           \A j \in 1 .. Len(saved') :
               /\ j \in 1 .. Len(saved) /\ saved'[j] = saved[j]
               /\ saved[j].depth < n /\ Len(saved[j].locals) <= F[n + 1].base
    PROVE  UInv'
<1>1. /\ current \in Fiber /\ locals \in [Fiber -> Seq(Value)]
      /\ frames \in [Fiber -> Seq(Frame)] /\ box \in [Fiber -> Seq(Closure \cup {None})]
      /\ L = locals[current] /\ F = frames[current]
      /\ L' = locals'[current] /\ F' = frames'[current]
  BY DEF UInv, Typed, L, F
<1>2. /\ n \in Nat /\ n + 1 \in 1 .. Len(F) /\ Len(F) \in Nat /\ Len(L) \in Nat
      /\ L \in Seq(Value) /\ F \in Seq(Frame) /\ FrameSize \in Nat
      /\ box[current] \in Seq(Closure \cup {None}) /\ Len(box[current]) = Len(L)
      /\ Len(L) <= FrameSize * MaxFrames /\ FrameSize * MaxFrames \in Nat
  BY OnVM
<1>3. PICK base \in 0 .. Len(L) : /\ base = F[n + 1].base
                                  /\ \A p \in 1 .. n : F[p].base + FrameSize <= base
  <2>1. /\ F[n + 1].base \in Nat /\ F[n + 1].base + FrameSize <= Len(L)
        /\ \A p \in 1 .. n + 1 - 1 : F[p].base + FrameSize <= F[n + 1].base
    BY <1>2, OnVM
  <2>2. n + 1 - 1 = n /\ F[n + 1].base \in 0 .. Len(L)
    BY <1>2, <2>1
  <2>3. \A p \in 1 .. n : F[p].base + FrameSize <= F[n + 1].base
    BY <2>1, <2>2, Zenon
  <2> QED BY <2>2, <2>3, Zenon
<1>4. /\ Close(base)
      /\ frames' = [frames EXCEPT ![current] = SubSeq(F, 1, n)]
      /\ locals' = [locals EXCEPT ![current] = SubSeq(L, 1, base)]
      /\ box' = [box EXCEPT ![current] = SubSeq(box[current], 1, base)]
  BY <1>1, <1>3 DEF Drop
<1>5. /\ SubSeq(F, 1, n) \in Seq(Frame) /\ Len(SubSeq(F, 1, n)) = n
      /\ \A i \in 1 .. n : SubSeq(F, 1, n)[i] = F[i]
  <2>1. n \in 0 .. Len(F)
    BY <1>2
  <2> QED BY <1>2, <2>1, PrefixOf
<1>6. /\ SubSeq(L, 1, base) \in Seq(Value) /\ Len(SubSeq(L, 1, base)) = base
      /\ \A i \in 1 .. base : SubSeq(L, 1, base)[i] = L[i]
  BY <1>2, PrefixOf
<1>7. /\ SubSeq(box[current], 1, base) \in Seq(Closure \cup {None})
      /\ Len(SubSeq(box[current], 1, base)) = base
      /\ \A i \in 1 .. base : SubSeq(box[current], 1, base)[i] = box[current][i]
  <2>1. base \in 0 .. Len(box[current])
    BY <1>2
  <2> QED BY <1>2, <2>1, PrefixOf
<1>8. /\ F' = SubSeq(F, 1, n) /\ L' = SubSeq(L, 1, base)
      /\ box'[current] = SubSeq(box[current], 1, base)
      /\ \A f \in Fiber \ {current} : /\ frames'[f] = frames[f] /\ locals'[f] = locals[f]
                                      /\ box'[f] = box[f]
      /\ locals' \in [Fiber -> Seq(Value)] /\ frames' \in [Fiber -> Seq(Frame)]
      /\ box' \in [Fiber -> Seq(Closure \cup {None})]
  BY <1>1, <1>4, <1>5, <1>6, <1>7
<1>9. /\ openUp' \in [Slot -> Closure \cup {None}] /\ cells' \in [Closure -> Cell]
      /\ OpenCellsLive' /\ CellsTrue' /\ Boxes'
      /\ \A c \in Closure : cells'[c].open => cells[c].open
      /\ \A s \in Slot : s <= base => openUp'[s] = openUp[s]
  <2>1. /\ base \in Nat /\ base <= Len(L) /\ Len(L') = base /\ base <= FrameSize * MaxFrames
    BY <1>2, <1>6, <1>8
  <2>2. \A i \in 1 .. base : L'[i] = L[i]
    BY <1>6, <1>8
  <2>3. \A i \in 1 .. Len(L') : box'[current][i] = IF i <= base THEN box[current][i] ELSE None
    BY <1>7, <1>8, <2>1
  <2>4. Len(L') \in Nat /\ base <= Len(L') /\ Len(L') <= FrameSize * MaxFrames
    BY <2>1
  <2>5. \A f \in Fiber \ {current} : locals'[f] = locals[f] /\ box'[f] = box[f]
    BY <1>8
  <2> QED BY <1>4, <2>1, <2>2, <2>3, <2>4, <2>5, Unwind
<1>10. Typed'
  BY <1>8, <1>9 DEF UInv, Typed
<1>11. Layout'
  <2>1. \A m \in 1 .. n : /\ F'[m] = F[m] /\ F[m].base + FrameSize <= base
                          /\ \A p \in 1 .. m - 1 : /\ F'[p] = F[p]
                                                   /\ F[p].base + FrameSize <= F[m].base
    <3> SUFFICES ASSUME NEW m \in 1 .. n
                 PROVE  /\ F'[m] = F[m] /\ F[m].base + FrameSize <= base
                        /\ \A p \in 1 .. m - 1 : /\ F'[p] = F[p]
                                                 /\ F[p].base + FrameSize <= F[m].base
      OBVIOUS
    <3>1. m \in 1 .. Len(F) /\ \A p \in 1 .. m - 1 : p \in 1 .. n
      BY <1>2
    <3>2. \A p \in 1 .. m - 1 : F[p].base + FrameSize <= F[m].base
      BY <3>1, OnVM
    <3>3. \A p \in 1 .. n : F'[p] = F[p]
      BY <1>5, <1>8
    <3> QED BY <1>3, <3>1, <3>2, <3>3
  <2>2. /\ Len(frames'[current]) = n /\ Len(locals'[current]) = base
        /\ Len(box'[current]) = base
        /\ base <= FrameSize * MaxFrames
    BY <1>1, <1>2, <1>5, <1>6, <1>7, <1>8
  <2>3. \A m \in 1 .. Len(frames'[current]) :
          /\ frames'[current][m].base + FrameSize <= Len(locals'[current])
          /\ \A p \in 1 .. m - 1 :
               frames'[current][p].base + FrameSize <= frames'[current][m].base
    BY <1>1, <2>1, <2>2
  <2> QED BY <1>1, <1>8, <2>2, <2>3, LayoutOfOne
<1>12. MadeOnly'
  <2>1. \A m \in 1 .. n : F'[m] = F[m] /\ m \in 1 .. Len(F)
    BY <1>2, <1>5, <1>8
  <2>2. \A m \in 1 .. Len(F) : F[m].clo \in Made \cup {None}
    BY <1>1 DEF UInv, MadeOnly
  <2>3. \A m \in 1 .. Len(frames'[current]) : frames'[current][m].clo \in Made \cup {None}
    BY <1>1, <1>5, <1>8, <2>1, <2>2
  <2>4. \A f \in Fiber \ {current} : frames'[f] = frames[f]
    BY <1>8
  <2> QED BY <1>1, <1>9, <2>3, <2>4, MadeKept
<1>13. CopiesAgree'
  <2>1. Len(F') = n /\ \A m \in 1 .. n : F'[m].base = F[m].base
    BY <1>5, <1>8
  <2>2. \A i \in 1 .. base : L'[i] = L[i]
    BY <1>6, <1>8
  <2>3. base \in Nat /\ n <= Len(F') /\ Len(F') \in Nat
    BY <1>2, <2>1
  <2>4. \A j \in 1 .. Len(saved') :
          /\ j \in 1 .. Len(saved) /\ saved'[j] = saved[j]
          /\ saved[j].depth < n /\ Len(saved[j].locals) <= base
    BY <1>3
  <2> QED BY <1>2, <1>9, <2>1, <2>2, <2>3, <2>4, CopiesKept
<1> QED BY <1>9, <1>10, <1>11, <1>12, <1>13 DEF UInv

\* A frame above the one callFunctionSync() waits for is above all its copies.
LEMMA AboveCopies ==
    ASSUME UInv, NEW n \in 0 .. Len(F) - 1, saved # <<>> => n > Depth
    PROVE  /\ saved \in Seq(Copies)
           /\ \A j \in 1 .. Len(saved) : /\ saved[j].depth < n
                                         /\ Len(saved[j].locals) <= F[n + 1].base
<1>1. saved \in Seq(Copies)
  BY DEF UInv, Typed
<1>2. ASSUME NEW j \in 1 .. Len(saved)
      PROVE  saved[j].depth < n /\ Len(saved[j].locals) <= F[n + 1].base
  <2>1. /\ saved # <<>> /\ saved[j].depth \in Nat /\ Depth \in Nat
        /\ saved[j].depth <= Depth
        /\ Len(saved[j].locals) = F[saved[j].depth + 1].base
        /\ \A m \in Depth + 1 .. Len(F) : F[saved[j].depth + 1].base <= F[m].base
    BY CopiesBelow, EmptySeq
  <2>2. n > Depth /\ Len(F) \in Nat
    BY <2>1, OnVM
  <2>3. n + 1 \in Depth + 1 .. Len(F)
    BY <2>1, <2>2
  <2>4. F[saved[j].depth + 1].base <= F[n + 1].base
    BY <2>1, <2>3
  <2>5. saved[j].depth < n
    BY <2>1, <2>2
  <2> QED BY <2>1, <2>4, <2>5
<1> QED BY <1>1, <1>2

\* doReturn() and handleScriptThrow()
LEMMA ReturnStep ==
    ASSUME UInv, Return
    PROVE  UInv'
<1>1. /\ F # <<>> /\ (saved = <<>> \/ Len(F) > Depth + 1) /\ Drop(Len(F) - 1)
      /\ UNCHANGED <<current, cellOf, saved, boxOf, truth>>
  BY DEF Return
<1>2. /\ Len(F) \in Nat /\ Len(F) \in 1 .. Len(F) /\ (saved # <<>> => Depth \in Nat)
  <2>1. saved # <<>> => Len(saved) \in 1 .. Len(saved)
    <3>1. saved \in Seq(Copies)
      BY DEF UInv, Typed
    <3> QED BY <3>1, EmptySeq, LenProperties
  <2> QED BY <1>1, <2>1, OnVM, CopiesBelow
<1>3. PICK n \in 0 .. Len(F) - 1 : n = Len(F) - 1
  <2>1. Len(F) - 1 \in 0 .. Len(F) - 1
    BY <1>2
  <2> QED BY <2>1, Zenon
<1>4. saved # <<>> => n > Depth
  BY <1>1, <1>2, <1>3
<1> QED BY <1>1, <1>3, <1>4, AboveCopies, DropEffect

LEMMA ThrowStep ==
    ASSUME UInv, NEW n \in 0 .. MaxFrames, Throw(n)
    PROVE  UInv'
<1>1. n \in 0 .. Len(F) - 1 /\ Drop(n) /\ (saved # <<>> => n > Depth)
  BY OnVM, UpvaluesAssumption DEF Throw
<1>2. UNCHANGED <<current, cellOf, saved, boxOf, truth>>
  BY DEF Throw
<1> QED BY <1>1, <1>2, AboveCopies, DropEffect

\* A callback of callFunctionSync() returns: the copies that come back are what
\* unwinding its frame would have left.
LEMMA SyncReturnStep ==
    ASSUME UInv, SyncReturn
    PROVE  UInv'
<1> DEFINE was == saved[Len(saved)]
           base == Len(was.locals)
<1>1. /\ saved # <<>> /\ Len(F) = Depth + 1
      /\ cells' = ClosedCells(Top.base) /\ openUp' = was.openUp
      /\ locals' = [locals EXCEPT ![current] = was.locals]
      /\ box' = [box EXCEPT ![current] = SubSeq(@, 1, base)]
      /\ frames' = [frames EXCEPT ![current] = SubSeq(@, 1, Depth)]
      /\ saved' = SubSeq(saved, 1, Len(saved) - 1)
      /\ UNCHANGED <<current, cellOf, boxOf, truth>>
  BY DEF SyncReturn
<1>2. /\ saved \in Seq(Copies) /\ Len(saved) \in Nat /\ Len(saved) \in 1 .. Len(saved)
  BY <1>1, EmptySeq, LenProperties DEF UInv, Typed
<1>3. /\ was \in Copies /\ Depth \in Nat /\ Depth = was.depth /\ base = F[Depth + 1].base
      /\ \A i \in 1 .. base : was.locals[i] = L[i]
      /\ \A s \in Slot : was.openUp[s] = IF s <= base THEN openUp[s] ELSE None
      /\ \A j \in 1 .. Len(saved) - 1 : saved[j].depth < Depth
  BY <1>2, CopiesBelow DEF UInv, CopiesAgree
<1>4. /\ was.locals \in Seq(Value) /\ was.openUp \in [Slot -> Closure \cup {None}]
      /\ base \in Nat
  BY <1>3, LenProperties DEF Copies
<1>5. /\ Len(F) \in Nat /\ Top = F[Depth + 1] /\ Top.base = base /\ base <= Len(L)
      /\ Depth \in 0 .. Len(F) - 1 /\ L \in Seq(Value) /\ Len(L) \in Nat
  <2>1. /\ Len(F) \in Nat /\ Len(F) \in 1 .. Len(F) /\ Top = F[Depth + 1]
        /\ L \in Seq(Value) /\ Len(L) \in Nat
    BY <1>1, <1>3, OnVM, EmptySeq DEF Top
  <2>2. F[Depth + 1].base + FrameSize <= Len(L) /\ FrameSize \in Nat
    BY <1>1, <2>1, OnVM
  <2> HIDE DEF base, was
  <2>3. base <= Len(L)
    BY <1>3, <1>4, <2>1, <2>2
  <2>4. Depth \in 0 .. Len(F) - 1
    BY <1>1, <1>3
  <2> QED BY <1>3, <2>1, <2>3, <2>4
<1>6. SubSeq(L, 1, base) = was.locals
  <2>1. base \in 0 .. Len(L)
    BY <1>4, <1>5
  <2>2. /\ SubSeq(L, 1, base) \in Seq(Value) /\ Len(SubSeq(L, 1, base)) = base
        /\ \A i \in 1 .. base : SubSeq(L, 1, base)[i] = L[i]
    BY <1>5, <2>1, PrefixOf
  <2> QED BY <1>3, <1>4, <2>2, SeqEqual
<1>7. OpenLeft(base) = was.openUp
  <2>1. /\ OpenLeft(base) \in [Slot -> Closure \cup {None}]
        /\ \A s \in Slot : OpenLeft(base)[s] = IF s > base THEN None ELSE openUp[s]
    BY <1>4, CloseEffect
  <2>2. \A s \in Slot : s \in Nat
    BY OnVM
  <2>3. \A s \in Slot : OpenLeft(base)[s] = was.openUp[s]
    <3> HIDE DEF base, was
    <3> QED BY <1>3, <1>4, <2>1, <2>2
  <2> QED BY <1>4, <2>1, <2>3
<1>8. Drop(Depth)
  BY <1>1, <1>3, <1>5, <1>6, <1>7 DEF Drop, Close, L
<1>9. /\ saved' \in Seq(Copies) /\ Len(saved') = Len(saved) - 1
      /\ \A j \in 1 .. Len(saved) - 1 : saved'[j] = saved[j]
  <2>1. Len(saved) - 1 \in 0 .. Len(saved)
    BY <1>2
  <2> QED BY <1>1, <1>2, <2>1, PrefixOf
<1>10. ASSUME NEW j \in 1 .. Len(saved')
       PROVE  /\ j \in 1 .. Len(saved) /\ saved'[j] = saved[j]
              /\ saved[j].depth < Depth /\ Len(saved[j].locals) <= F[Depth + 1].base
  <2>1. j \in 1 .. Len(saved) /\ j \in 1 .. Len(saved) - 1
    BY <1>2, <1>9
  <2>2. /\ Len(saved[j].locals) = F[saved[j].depth + 1].base
        /\ \A n \in Depth + 1 .. Len(F) : F[saved[j].depth + 1].base <= F[n].base
    BY <2>1, CopiesBelow
  <2>3. Depth + 1 \in Depth + 1 .. Len(F)
    BY <1>1, <1>3
  <2> QED BY <1>3, <1>9, <2>1, <2>2, <2>3
<1>11. UNCHANGED <<current, cellOf, boxOf, truth>>
  BY <1>1
<1> QED BY <1>5, <1>8, <1>9, <1>10, <1>11, DropEffect

\* doTailCall(): the locals of the frame go, those of the callee come instead.
LEMMA TailCallStep ==
    ASSUME UInv, NEW k \in Closure, NEW v \in Value, TailCall(k, v)
    PROVE  UInv'
<1>1. /\ current \in Fiber /\ locals \in [Fiber -> Seq(Value)]
      /\ frames \in [Fiber -> Seq(Frame)] /\ box \in [Fiber -> Seq(Closure \cup {None})]
      /\ L = locals[current] /\ F = frames[current]
  BY DEF UInv, Typed, L, F
<1>2. /\ F # <<>> /\ k \in Made /\ Close(Top.base)
      /\ UNCHANGED <<current, cellOf, saved, boxOf, truth>>
  BY DEF TailCall
<1>3. /\ Len(F) \in Nat /\ Len(F) \in 1 .. Len(F) /\ Top = F[Len(F)] /\ Len(L) \in Nat
      /\ L \in Seq(Value) /\ F \in Seq(Frame) /\ FrameSize \in Nat
      /\ box[current] \in Seq(Closure \cup {None}) /\ Len(box[current]) = Len(L)
      /\ Len(L) <= FrameSize * MaxFrames /\ FrameSize * MaxFrames \in Nat
      /\ \A n \in 1 .. Len(F) :
           /\ F[n] \in Frame /\ F[n].base \in Nat /\ F[n].clo \in Closure \cup {None}
           /\ F[n].base + FrameSize <= Len(L)
           /\ \A p \in 1 .. n - 1 : F[p].base + FrameSize <= F[n].base
  BY <1>2, OnVM
<1>4. PICK base \in 0 .. Len(L) : /\ base = Top.base /\ base = F[Len(F)].base
                                  /\ base + FrameSize <= Len(L)
  BY <1>3
<1>5. /\ frames' = [frames EXCEPT ![current] = [F EXCEPT ![Len(F)].clo = k]]
      /\ locals' = [locals EXCEPT ![current] = SubSeq(L, 1, base) \o Blank(v)]
      /\ box' = [box EXCEPT ![current] = SubSeq(box[current], 1, base) \o NoBox]
  BY <1>1, <1>4 DEF TailCall
<1>6. /\ SubSeq(L, 1, base) \o Blank(v) \in Seq(Value)
      /\ Len(SubSeq(L, 1, base) \o Blank(v)) = base + FrameSize
      /\ \A i \in 1 .. base : (SubSeq(L, 1, base) \o Blank(v))[i] = L[i]
  <2> DEFINE s == SubSeq(L, 1, base)
  <2>1. s \in Seq(Value) /\ Len(s) = base /\ \A i \in 1 .. base : s[i] = L[i]
    BY <1>3, PrefixOf
  <2>2. Blank(v) \in Seq(Value) /\ Len(Blank(v)) = FrameSize
    BY BlankFrame
  <2> HIDE DEF s
  <2>3. /\ s \o Blank(v) \in Seq(Value) /\ Len(s \o Blank(v)) = Len(s) + Len(Blank(v))
        /\ \A i \in 1 .. Len(s) : (s \o Blank(v))[i] = s[i]
    BY <2>1, <2>2, JoinOf, Zenon
  <2> QED BY <2>1, <2>2, <2>3 DEF s
<1>7. /\ SubSeq(box[current], 1, base) \o NoBox \in Seq(Closure \cup {None})
      /\ Len(SubSeq(box[current], 1, base) \o NoBox) = base + FrameSize
      /\ \A i \in 1 .. base + FrameSize :
           (SubSeq(box[current], 1, base) \o NoBox)[i] =
              IF i <= base THEN box[current][i] ELSE None
  <2> DEFINE s == SubSeq(box[current], 1, base)
  <2>1. /\ s \in Seq(Closure \cup {None}) /\ Len(s) = base
        /\ \A i \in 1 .. base : s[i] = box[current][i]
    <3>1. base \in 0 .. Len(box[current])
      BY <1>3
    <3> QED BY <1>3, <3>1, PrefixOf
  <2>2. /\ NoBox \in Seq(Closure \cup {None}) /\ Len(NoBox) = FrameSize
        /\ \A i \in 1 .. FrameSize : NoBox[i] = None
    BY BlankFrame
  <2> HIDE DEF s
  <2>3. /\ s \o NoBox \in Seq(Closure \cup {None}) /\ Len(s \o NoBox) = Len(s) + Len(NoBox)
        /\ \A i \in 1 .. Len(s) : (s \o NoBox)[i] = s[i]
        /\ \A i \in 1 .. Len(s) + Len(NoBox) : i > Len(s) =>
             i - Len(s) \in 1 .. Len(NoBox) /\ (s \o NoBox)[i] = NoBox[i - Len(s)]
    BY <2>1, <2>2, JoinOf, Zenon
  <2>4. ASSUME NEW i \in 1 .. base + FrameSize
        PROVE  (s \o NoBox)[i] = IF i <= base THEN box[current][i] ELSE None
    <3>1. CASE i <= base
      BY <2>1, <2>3, <3>1
    <3>2. CASE ~(i <= base)
      <4>1. base \in Nat /\ FrameSize \in Nat
        BY <1>3
      <4>2. i > base /\ i \in 1 .. Len(s) + Len(NoBox)
        BY <2>1, <2>2, <3>2, <4>1
      <4>3. i - base \in 1 .. FrameSize /\ (s \o NoBox)[i] = NoBox[i - base]
        BY <2>1, <2>2, <2>3, <4>2
      <4> QED BY <2>2, <3>2, <4>3
    <3> QED BY <3>1, <3>2
  <2> QED BY <2>1, <2>2, <2>3, <2>4 DEF s
<1>8. /\ [F EXCEPT ![Len(F)].clo = k] \in Seq(Frame)
      /\ Len([F EXCEPT ![Len(F)].clo = k]) = Len(F)
      /\ \A n \in 1 .. Len(F) :
           /\ [F EXCEPT ![Len(F)].clo = k][n].base = F[n].base
           /\ [F EXCEPT ![Len(F)].clo = k][n].clo = IF n = Len(F) THEN k ELSE F[n].clo
  <2> DEFINE e == [F[Len(F)] EXCEPT !.clo = k]
  <2>1. F[Len(F)] \in Frame
    BY <1>3
  <2>2. e \in Frame /\ e.base = F[Len(F)].base /\ e.clo = k
    BY <2>1 DEF Frame
  <2>3. [F EXCEPT ![Len(F)].clo = k] = [F EXCEPT ![Len(F)] = e]
    OBVIOUS
  <2> HIDE DEF e
  <2>4. /\ [F EXCEPT ![Len(F)] = e] \in Seq(Frame) /\ Len([F EXCEPT ![Len(F)] = e]) = Len(F)
        /\ \A n \in 1 .. Len(F) : [F EXCEPT ![Len(F)] = e][n] = IF n = Len(F) THEN e ELSE F[n]
    BY <1>3, <2>2, ExceptSeq
  <2> QED BY <2>2, <2>3, <2>4
<1>9. /\ F' = [F EXCEPT ![Len(F)].clo = k] /\ L' = SubSeq(L, 1, base) \o Blank(v)
      /\ L' = locals'[current] /\ F' = frames'[current]
      /\ box'[current] = SubSeq(box[current], 1, base) \o NoBox
      /\ \A f \in Fiber \ {current} : /\ frames'[f] = frames[f] /\ locals'[f] = locals[f]
                                      /\ box'[f] = box[f]
      /\ locals' \in [Fiber -> Seq(Value)] /\ frames' \in [Fiber -> Seq(Frame)]
      /\ box' \in [Fiber -> Seq(Closure \cup {None})]
  <2>1. /\ locals'[current] = SubSeq(L, 1, base) \o Blank(v)
        /\ frames'[current] = [F EXCEPT ![Len(F)].clo = k]
        /\ box'[current] = SubSeq(box[current], 1, base) \o NoBox
    BY <1>1, <1>5
  <2>2. F' = frames'[current] /\ L' = locals'[current]
    BY <1>2 DEF F, L
  <2>3. /\ \A f \in Fiber \ {current} : /\ frames'[f] = frames[f] /\ locals'[f] = locals[f]
                                        /\ box'[f] = box[f]
    BY <1>1, <1>5
  <2>4. locals' \in [Fiber -> Seq(Value)] /\ frames' \in [Fiber -> Seq(Frame)]
        /\ box' \in [Fiber -> Seq(Closure \cup {None})]
    BY <1>1, <1>5, <1>6, <1>7, <1>8
  <2> QED BY <2>1, <2>2, <2>3, <2>4
<1>10. /\ Len(L') = base + FrameSize /\ \A i \in 1 .. base : L'[i] = L[i]
       /\ Len(F') = Len(F) /\ \A n \in 1 .. Len(F) : F'[n].base = F[n].base
  BY <1>6, <1>8, <1>9
<1>11. /\ openUp' \in [Slot -> Closure \cup {None}] /\ cells' \in [Closure -> Cell]
       /\ OpenCellsLive' /\ CellsTrue' /\ Boxes'
       /\ \A c \in Closure : cells'[c].open => cells[c].open
       /\ \A s \in Slot : s <= base => openUp'[s] = openUp[s]
  <2>1. /\ base \in Nat /\ base <= Len(L) /\ Len(L') \in Nat /\ base <= Len(L')
        /\ Len(L') <= FrameSize * MaxFrames
    BY <1>3, <1>4, <1>10
  <2>2. \A i \in 1 .. Len(L') : box'[current][i] = IF i <= base THEN box[current][i] ELSE None
    BY <1>7, <1>9, <1>10
  <2>3. \A f \in Fiber \ {current} : locals'[f] = locals[f] /\ box'[f] = box[f]
    BY <1>9
  <2> QED BY <1>2, <1>4, <1>10, <2>1, <2>2, <2>3, Unwind
<1>12. Typed'
  BY <1>2, <1>9, <1>11 DEF UInv, Typed
<1>13. Layout'
  <2>1. ASSUME NEW n \in 1 .. Len(F)
        PROVE  /\ F'[n].base + FrameSize <= base + FrameSize
               /\ \A p \in 1 .. n - 1 : F'[p].base + FrameSize <= F'[n].base
    <3>1. /\ F'[n].base = F[n].base /\ F[n].base \in Nat
          /\ \A p \in 1 .. n - 1 : F'[p].base = F[p].base /\ F[p].base + FrameSize <= F[n].base
      BY <1>3, <1>10
    <3>2. F[n].base <= base
      <4>1. Len(F) \in Nat /\ FrameSize \in Nat /\ Len(L) \in Nat
        BY <1>3
      <4>2. n = Len(F) \/ n \in 1 .. Len(F) - 1
        BY <4>1
      <4>3. CASE n \in 1 .. Len(F) - 1
        <5>1. F[n].base + FrameSize <= F[Len(F)].base
          BY <1>3, <4>3
        <5> QED BY <1>4, <3>1, <4>1, <5>1
      <4>4. CASE n = Len(F)
        BY <1>4, <3>1, <4>1, <4>4
      <4> QED BY <4>2, <4>3, <4>4
    <3>3. base \in Nat /\ FrameSize \in Nat
      BY <1>3
    <3> QED BY <3>1, <3>2, <3>3
  <2>2. /\ Len(frames'[current]) = Len(F) /\ Len(locals'[current]) = base + FrameSize
        /\ Len(box'[current]) = base + FrameSize /\ base + FrameSize <= FrameSize * MaxFrames
    BY <1>3, <1>4, <1>7, <1>9, <1>10
  <2>3. \A n \in 1 .. Len(frames'[current]) :
          /\ frames'[current][n].base + FrameSize <= Len(locals'[current])
          /\ \A p \in 1 .. n - 1 :
               frames'[current][p].base + FrameSize <= frames'[current][n].base
    BY <1>9, <2>1, <2>2
  <2> QED BY <1>1, <1>9, <2>2, <2>3, LayoutOfOne
<1>14. MadeOnly'
  <2>1. \A n \in 1 .. Len(F) : F[n].clo \in Made \cup {None}
    BY <1>1 DEF UInv, MadeOnly
  <2>2. \A n \in 1 .. Len(F) : F'[n].clo \in Made \cup {None}
    BY <1>2, <1>8, <1>9, <2>1
  <2>3. \A n \in 1 .. Len(frames'[current]) : frames'[current][n].clo \in Made \cup {None}
    BY <1>9, <1>10, <2>2
  <2>4. \A f \in Fiber \ {current} : frames'[f] = frames[f]
    BY <1>9
  <2> QED BY <1>1, <1>2, <1>11, <2>3, <2>4, MadeKept
<1>15. CopiesAgree'
  <2>1. Len(F') \in Nat /\ Len(F) <= Len(F')
    BY <1>3, <1>10
  <2>2. /\ \A i \in 1 .. Top.base : L'[i] = L[i]
        /\ \A s \in Slot : s <= Top.base => openUp'[s] = openUp[s]
    BY <1>4, <1>10, <1>11
  <2> QED BY <1>2, <1>10, <2>1, <2>2, CopiesUnderTop
<1> QED BY <1>11, <1>12, <1>13, <1>14, <1>15 DEF UInv

\* When executions take turns with no cell open, no slot stands for a captured
\* variable.
LEMMA QuietSwitch ==
    ASSUME UInv, NEW f \in Fiber, MaySwitch(f), \A s \in Slot : openUp[s] = None
    PROVE  /\ \A s \in Slot : openUp[s] = None
           /\ \A c \in Closure : ~cells[c].open /\ truth[c] = cells[c].val
           /\ \A g \in Fiber : \A i \in 1 .. Len(locals[g]) : box[g][i] = None
           /\ f # current /\ saved = <<>>
<1>1. \A s \in Slot : openUp[s] = None
  OBVIOUS
<1>2. \A c \in Closure : cells[c].at \in Slot
  BY DEF UInv, Typed, Cell
<1>3. \A c \in Closure : ~cells[c].open
  BY <1>1, <1>2, OnVM DEF UInv, OpenCellsLive
<1>4. \A c \in Closure : truth[c] = cells[c].val
  BY <1>3 DEF UInv, CellsTrue
<1>5. \A g \in Fiber : \A i \in 1 .. Len(locals[g]) : box[g][i] = None
  <2> SUFFICES ASSUME NEW g \in Fiber, NEW i \in 1 .. Len(locals[g]) PROVE box[g][i] = None
    OBVIOUS
  <2>1. g = current => i \in Slot
    BY OnVM DEF L
  <2> QED BY <1>1, <2>1 DEF UInv, Boxes
<1> QED BY <1>1, <1>3, <1>4, <1>5 DEF MaySwitch

\* saveFiberState() and loadFiberState()
LEMMA ResumeStep ==
    ASSUME UInv, NEW f \in Fiber, Resume(f), ~OpenSwitch
    PROVE  UInv'
<1>1. /\ MaySwitch(f) /\ current' = f
      /\ UNCHANGED <<locals, frames, openUp, cells, cellOf, saved, box, boxOf, truth>>
  BY DEF Resume
<1>2. /\ \A s \in Slot : openUp[s] = None
      /\ \A c \in Closure : ~cells[c].open /\ truth[c] = cells[c].val
      /\ \A g \in Fiber : \A i \in 1 .. Len(locals[g]) : box[g][i] = None
      /\ saved = <<>>
  BY <1>1, QuietSwitch DEF MaySwitch, OpenSwitch
<1>3. Typed' /\ Layout' /\ MadeOnly'
  BY <1>1 DEF UInv, Typed, Layout, MadeOnly, Made
<1>4. OpenCellsLive' /\ CellsTrue'
  BY <1>1, <1>2 DEF OpenCellsLive, CellsTrue
<1>5. Boxes'
  <2>1. \A i \in 1 .. Len(locals[f]) : i \in Slot
    <3>1. /\ Len(locals[f]) <= FrameSize * MaxFrames /\ Len(locals[f]) \in Nat
      BY LenProperties DEF UInv, Typed, Layout
    <3> QED BY <3>1, OnVM
  <2>2. boxOf = cellOf
    BY DEF UInv, Boxes
  <2> QED BY <1>1, <1>2, <2>1, <2>2 DEF Boxes
<1>6. CopiesAgree'
  BY <1>1, <1>2 DEF CopiesAgree
<1> QED BY <1>3, <1>4, <1>5, <1>6 DEF UInv

\* startGoroutineCall()
LEMMA StartStep ==
    ASSUME UInv, NEW f \in Fiber, NEW k \in Closure, NEW v \in Value,
           Start(f, k, v), ~OpenSwitch
    PROVE  UInv'
<1>1. /\ MaySwitch(f) /\ k \in Made /\ current' = f
      /\ frames' = [frames EXCEPT ![f] = <<[base |-> 0, clo |-> k]>>]
      /\ locals' = [locals EXCEPT ![f] = Blank(v)]
      /\ box' = [box EXCEPT ![f] = NoBox]
      /\ UNCHANGED <<openUp, cells, cellOf, saved, boxOf, truth>>
  BY DEF Start
<1>2. /\ \A s \in Slot : openUp[s] = None
      /\ \A c \in Closure : ~cells[c].open /\ truth[c] = cells[c].val
      /\ \A g \in Fiber : \A i \in 1 .. Len(locals[g]) : box[g][i] = None
      /\ saved = <<>>
  BY <1>1, QuietSwitch DEF MaySwitch, OpenSwitch
<1>3. /\ locals \in [Fiber -> Seq(Value)] /\ frames \in [Fiber -> Seq(Frame)]
      /\ box \in [Fiber -> Seq(Closure \cup {None})] /\ boxOf = cellOf
  BY DEF UInv, Typed, Boxes
<1>4. /\ Blank(v) \in Seq(Value) /\ Len(Blank(v)) = FrameSize
      /\ NoBox \in Seq(Closure \cup {None}) /\ Len(NoBox) = FrameSize
      /\ \A i \in 1 .. FrameSize : NoBox[i] = None
  BY BlankFrame
<1> DEFINE fr == [base |-> 0, clo |-> k]
<1>5. fr \in Frame /\ fr.base = 0 /\ fr.clo = k
  BY DEF Frame
<1>6. <<fr>> \in Seq(Frame) /\ Len(<<fr>>) = 1 /\ <<fr>>[1] = fr
  <2> HIDE DEF fr
  <2> QED BY <1>5
<1>7. /\ frames'[f] = <<fr>> /\ locals'[f] = Blank(v) /\ box'[f] = NoBox
      /\ \A g \in Fiber \ {f} : /\ frames'[g] = frames[g] /\ locals'[g] = locals[g]
                                /\ box'[g] = box[g]
      /\ locals' \in [Fiber -> Seq(Value)] /\ frames' \in [Fiber -> Seq(Frame)]
      /\ box' \in [Fiber -> Seq(Closure \cup {None})]
  <2> HIDE DEF fr
  <2>1. frames' = [frames EXCEPT ![f] = <<fr>>]
    BY <1>1 DEF fr
  <2> QED BY <1>1, <1>3, <1>4, <1>6, <2>1
<1> HIDE DEF fr
<1>8. Typed'
  BY <1>1, <1>7 DEF UInv, Typed
<1>9. /\ FrameSize \in Nat /\ FrameSize <= FrameSize * MaxFrames
  <2>1. FrameSize \in Nat \ {0} /\ MaxFrames \in Nat \ {0}
    BY UpvaluesAssumption
  <2> QED BY <2>1, SMT
<1>10. Layout'
  <2>1. \A n \in 1 .. Len(frames'[f]) : n = 1 /\ frames'[f][n] = fr
    BY <1>6, <1>7
  <2>2. \A n \in 1 .. Len(frames'[f]) :
           /\ frames'[f][n].base + FrameSize <= Len(locals'[f])
           /\ \A p \in 1 .. n - 1 : frames'[f][p].base + FrameSize <= frames'[f][n].base
    BY <1>4, <1>5, <1>7, <1>9, <2>1
  <2>3. Len(box'[f]) = Len(locals'[f]) /\ Len(locals'[f]) <= FrameSize * MaxFrames
    BY <1>4, <1>7, <1>9
  <2> QED BY <1>7, <2>2, <2>3, LayoutOfOne
<1>11. MadeOnly'
  <2>1. \A n \in 1 .. Len(frames'[f]) : frames'[f][n].clo \in Made \cup {None}
    BY <1>1, <1>5, <1>6, <1>7
  <2>2. \A g \in Fiber \ {f} : frames'[g] = frames[g]
    BY <1>7
  <2> QED BY <1>1, <2>1, <2>2, MadeKept
<1>12. OpenCellsLive' /\ CellsTrue'
  BY <1>1, <1>2 DEF OpenCellsLive, CellsTrue
<1>13. Boxes'
  <2>1. ASSUME NEW g \in Fiber, NEW i \in 1 .. Len(locals'[g])
        PROVE  box'[g][i] = None /\ (g = f => openUp[i] = None)
    <3>1. CASE g = f
      <4>1. i \in 1 .. FrameSize /\ i \in Slot
        BY <1>4, <1>7, <1>9, <3>1, OnVM
      <4> QED BY <1>2, <1>4, <1>7, <3>1, <4>1
    <3>2. CASE g # f
      BY <1>2, <1>7, <3>2
    <3> QED BY <3>1, <3>2
  <2> QED BY <1>1, <1>3, <2>1 DEF Boxes
<1>14. CopiesAgree'
  BY <1>1, <1>2 DEF CopiesAgree
<1> QED BY <1>8, <1>10, <1>11, <1>12, <1>13, <1>14 DEF UInv

-----------------------------------------------------------------------------
(* The theorems.                                                            *)

LEMMA InitInvariant ==
    Init => UInv
<1> SUFFICES ASSUME Init PROVE UInv
  OBVIOUS
<1>1. /\ Main \in Fiber /\ None \notin Closure /\ Null \in Value
      /\ FrameSize \in Nat \ {0} /\ MaxFrames \in Nat \ {0}
  BY UpvaluesAssumption
<1>2. FrameSize <= FrameSize * MaxFrames /\ 1 <= FrameSize * MaxFrames
      /\ FrameSize * MaxFrames \in Nat
  BY <1>1, SMT
<1>3. /\ Blank(Null) \in Seq(Value) /\ Len(Blank(Null)) = FrameSize
      /\ NoBox \in Seq(Closure \cup {None}) /\ Len(NoBox) = FrameSize
      /\ \A i \in 1 .. FrameSize : NoBox[i] = None
  BY <1>1, BlankFrame
<1> DEFINE fr == [base |-> 0, clo |-> None]
<1>4. fr \in Frame /\ fr.base = 0 /\ fr.clo = None
  BY DEF Frame
<1>5. <<fr>> \in Seq(Frame) /\ Len(<<fr>>) = 1 /\ <<fr>>[1] = fr
  <2> HIDE DEF fr
  <2> QED BY <1>4
<1>6. frames = [f \in Fiber |-> IF f = Main THEN <<fr>> ELSE <<>>]
  BY DEF Init
<1> HIDE DEF fr
<1>7. /\ current = Main
      /\ locals = [f \in Fiber |-> IF f = Main THEN Blank(Null) ELSE <<>>]
      /\ box = [f \in Fiber |-> IF f = Main THEN NoBox ELSE <<>>]
      /\ openUp = [s \in Slot |-> None]
      /\ cells = [c \in Closure |-> [open |-> FALSE, at |-> 1, val |-> Null]]
      /\ cellOf = [k \in Closure |-> None] /\ boxOf = [k \in Closure |-> None]
      /\ truth = [k \in Closure |-> Null] /\ saved = <<>>
  BY DEF Init
<1>8. Typed
  <2>1. [open |-> FALSE, at |-> 1, val |-> Null] \in Cell
    BY <1>1, <1>2 DEF Cell, Slot
  <2>2. cells \in [Closure -> Cell]
    BY <1>7, <2>1
  <2>3. /\ locals \in [Fiber -> Seq(Value)] /\ box \in [Fiber -> Seq(Closure \cup {None})]
        /\ frames \in [Fiber -> Seq(Frame)] /\ saved \in Seq(Copies)
    BY <1>3, <1>5, <1>6, <1>7
  <2> QED BY <1>1, <1>7, <2>2, <2>3 DEF Typed
<1>9. Layout
  <2>1. \A f \in Fiber \ {Main} : Len(box[f]) = 0 /\ Len(locals[f]) = 0 /\ Len(frames[f]) = 0
    BY <1>6, <1>7
  <2>2. /\ Len(box[Main]) = FrameSize /\ Len(locals[Main]) = FrameSize
        /\ Len(frames[Main]) = 1 /\ frames[Main][1].base = 0
    BY <1>1, <1>3, <1>4, <1>5, <1>6, <1>7
  <2> SUFFICES ASSUME NEW f \in Fiber
               PROVE  /\ Len(box[f]) = Len(locals[f])
                      /\ Len(locals[f]) <= FrameSize * MaxFrames
                      /\ \A n \in 1 .. Len(frames[f]) :
                           /\ frames[f][n].base + FrameSize <= Len(locals[f])
                           /\ \A p \in 1 .. n - 1 :
                                frames[f][p].base + FrameSize <= frames[f][n].base
    BY DEF Layout
  <2>3. CASE f = Main
    <3>1. ASSUME NEW n \in 1 .. Len(frames[f]) PROVE n = 1
      <4>1. Len(frames[f]) = 1
        BY <2>2, <2>3, Zenon
      <4> QED BY <4>1
    <3>2. \A n \in 1 .. Len(frames[f]) : /\ frames[f][n].base + FrameSize <= Len(locals[f])
                                         /\ n - 1 = 0
      BY <1>1, <2>2, <2>3, <3>1
    <3> QED BY <1>2, <2>2, <2>3, <3>2
  <2>4. CASE f # Main
    BY <1>2, <2>1, <2>4
  <2> QED BY <2>3, <2>4
<1>10. MadeOnly
  <2>1. Made = {}
    BY <1>7 DEF Made
  <2>2. \A f \in Fiber : \A n \in 1 .. Len(frames[f]) : frames[f][n].clo = None
    <3> SUFFICES ASSUME NEW f \in Fiber, NEW n \in 1 .. Len(frames[f])
                 PROVE  frames[f][n].clo = None
      OBVIOUS
    <3>1. CASE f = Main
      BY <1>4, <1>5, <1>6, <3>1
    <3>2. CASE f # Main
      BY <1>6, <3>2
    <3> QED BY <3>1, <3>2
  <2> QED BY <1>7, <2>1, <2>2 DEF MadeOnly
<1>11. OpenCellsLive /\ CellsTrue
  BY <1>7 DEF OpenCellsLive, CellsTrue
<1>12. Boxes
  <2>1. ASSUME NEW f \in Fiber, NEW i \in 1 .. Len(locals[f])
        PROVE  box[f][i] = None /\ (f = current => openUp[i] = None)
    <3>1. CASE f = Main
      <4>1. i \in 1 .. FrameSize /\ i \in Slot
        BY <1>1, <1>2, <1>3, <1>7, <3>1 DEF Slot
      <4> QED BY <1>3, <1>7, <3>1, <4>1
    <3>2. CASE f # Main
      BY <1>7, <3>2
    <3> QED BY <3>1, <3>2
  <2> QED BY <1>7, <2>1 DEF Boxes
<1>13. CopiesAgree
  BY <1>7 DEF CopiesAgree
<1> QED BY <1>8, <1>9, <1>10, <1>11, <1>12, <1>13 DEF UInv

LEMMA NextInvariant ==
    ASSUME UInv, [Next]_vars, ~OpenSwitch, ~CallbackWrites
    PROVE  UInv'
<1>1. ASSUME NEW k \in Closure, NEW i \in 1 .. FrameSize, Capture(k, i) PROVE UInv'
  BY <1>1, CaptureStep
<1>2. ASSUME NEW k \in Closure, CaptureUpvalue(k) PROVE UInv'
  BY <1>2, CaptureUpvalueStep
<1>3. ASSUME NEW i \in 1 .. FrameSize, NEW v \in Value, StoreVar(i, v) PROVE UInv'
  BY <1>3, StoreVarStep
<1>4. ASSUME NEW v \in Value, StoreUpvalue(v) PROVE UInv'
  BY <1>4, StoreUpvalueStep
<1>5. ASSUME NEW k \in Closure, NEW v \in Value,
             Call(k, v) \/ TailCall(k, v) \/ SyncCall(k, v)
      PROVE  UInv'
  BY <1>5, CallStep, TailCallStep, SyncCallStep
<1>6. CASE Return \/ SyncReturn
  BY <1>6, ReturnStep, SyncReturnStep
<1>7. ASSUME NEW n \in 0 .. MaxFrames, Throw(n) PROVE UInv'
  BY <1>7, ThrowStep
<1>8. ASSUME NEW f \in Fiber, Resume(f) PROVE UInv'
  BY <1>8, ResumeStep
<1>9. ASSUME NEW f \in Fiber, NEW k \in Closure, NEW v \in Value, Start(f, k, v) PROVE UInv'
  BY <1>9, StartStep
<1>10. CASE UNCHANGED vars
  BY <1>10 DEF vars, UInv, Typed, Layout, OpenCellsLive, MadeOnly, CellsTrue, Boxes,
               CopiesAgree, Made, L, F
<1> QED BY <1>1, <1>2, <1>3, <1>4, <1>5, <1>6, <1>7, <1>8, <1>9, <1>10 DEF Next

\* closeFrameUpvalues() misses no open cell, a function reads in its local what a
\* closure last assigned to it, and a closure reads the last value of its variable,
\* while the frame of the variable lives and after it has gone.
LEMMA SoundUnderInvariant ==
    UInv => OpenCellsLive /\ LocalsSeeClosures /\ ClosuresSeeVariables
<1>1. UInv => OpenCellsLive
  BY DEF UInv
<1>2. ASSUME UInv PROVE LocalsSeeClosures
  <2> SUFFICES ASSUME NEW f \in Fiber, NEW i \in DOMAIN locals[f], box[f][i] # None
               PROVE  locals[f][i] = truth[box[f][i]]
    BY DEF LocalsSeeClosures
  <2>1. i \in 1 .. Len(locals[f])
    BY <1>2, LenProperties DEF UInv, Typed
  <2>2. f = current /\ box[f][i] = openUp[i] /\ openUp[i] # None /\ locals[f] = L
    BY <1>2, <2>1 DEF UInv, Boxes, L
  <2>3. i \in Slot
    BY <1>2, <2>1, <2>2, OnVM
  <2>4. openUp[i] \in Closure /\ cells[openUp[i]].open /\ cells[openUp[i]].at = i
    BY <1>2, <2>2, <2>3 DEF UInv, Typed, OpenCellsLive
  <2>5. truth[openUp[i]] = L[i]
    BY <1>2, <2>4 DEF UInv, CellsTrue
  <2> QED BY <2>2, <2>5
<1>3. ASSUME UInv PROVE ClosuresSeeVariables
  <2> SUFFICES ASSUME NEW k \in Made PROVE Read(k) = truth[boxOf[k]]
    BY DEF ClosuresSeeVariables
  <2>1. PICK c \in Closure : c = cellOf[k] /\ c = boxOf[k]
    BY <1>3 DEF UInv, MadeOnly, Boxes, Made
  <2>2. truth[c] = IF cells[c].open THEN L[cells[c].at] ELSE cells[c].val
    BY <1>3 DEF UInv, CellsTrue
  <2>3. cells[c].open => cells[c].at <= Len(L)
    <3>1. cells[c].at \in Slot
      BY <1>3 DEF UInv, Typed, Cell
    <3> QED BY <1>3, <3>1, OnVM DEF UInv, OpenCellsLive
  <2> QED BY <2>1, <2>2, <2>3 DEF Read
<1> QED BY <1>1, <1>2, <1>3

\* The agreement of functions and closures holds from the start, and the first step
\* after which it can fail is a switch with a cell open or an assignment of a callback
\* below its callFunctionSync(): no capture, store, call, tail call, return, throw over
\* several frames or nested synchronous call breaks it, and no other switch.
THEOREM OnlyTwoStepsBreak ==
  Spec => /\ UInv
          /\ [](UInv => OpenCellsLive /\ LocalsSeeClosures /\ ClosuresSeeVariables)
          /\ [][UInv /\ ~UInv' => OpenSwitch \/ CallbackWrites]_vars
<1>1. ASSUME [Next]_vars
      PROVE  [UInv /\ ~UInv' => OpenSwitch \/ CallbackWrites]_vars
  BY <1>1, NextInvariant
<1> QED BY <1>1, InitInvariant, SoundUnderInvariant, PTL DEF Spec
=============================================================================
