--------------------------- MODULE FileDataProofs ---------------------------
(***************************************************************************)
(* Theorems about the blocks of the files and the bytes in them, for every *)
(* disk, every set of files and files of every size.                       *)
(*                                                                         *)
(* Types.  An entry has the shape its loops rely on (Shape): its extents   *)
(* start in the data area and hold a block, those behind them are empty.   *)
(*                                                                         *)
(* Blocks (KeepsBlocks).  Until an extent is merged or a bit torn off, the *)
(* extents of all files are disjoint and marked.                           *)
(*                                                                         *)
(* Counter (CountsBlocks).  Until the first mistake the counter is the     *)
(* number of data blocks whose bit is clear.                               *)
(*                                                                         *)
(* Bytes (StoresFiles).  While the disk is intact an entry has just the    *)
(* blocks that its size needs, in order (Form).  ContentsNow is the        *)
(* refinement mapping without the walk of readFileData (ReadBackIs, by     *)
(* induction over the extents); one lemma per operation says what it makes *)
(* of it: CreateStored, AppendStored, WriteStored, DeleteStored.           *)
(***************************************************************************)
EXTENDS FileData, SequenceTheorems, SetInduction

(***************************************************************************)
(* The shape every entry keeps: each extent in use starts in the data area *)
(* and is not empty, and those behind them are empty.                      *)
(***************************************************************************)
Extents == [startBlock : Int, length : Int]
AnyEntry == [fileSize : Nat, numExtents : 0 .. MaxExtents + 1,
             extents : [0 .. MaxExtents -> Extents]]

InData(x) == x \in Extents /\ x.startBlock >= DataStart /\ x.length >= 1

Shape(e) ==
    /\ e \in AnyEntry
    /\ \A i \in 0 .. e.numExtents - 1 : InData(e.extents[i])
    /\ \A i \in e.numExtents .. MaxExtents : e.extents[i] = NoExtent

EntriesShaped ==
    /\ files \in [Files -> AnyEntry]
    /\ \A f \in Files : Shape(files[f])

\* A new extent starts at one of the allocated blocks.
LEMMA MergedExtentStart ==
    ASSUME NEW n \in Int, NEW S \in Allocation(n), NEW x \in MergedExtents(S)
    PROVE  /\ InData(x)
           /\ x.startBlock \in S
           /\ x.startBlock \in DataBlocks
           /\ x.startBlock \notin FATTABLE
<1>1. S \subseteq DataBlocks \ FATTABLE /\ Cardinality(S) = n /\ n > 0
  BY DEF Allocation, FreeData
<1>2. x.startBlock \in S /\ x.length \in Int /\ x.length >= 1
  BY <1>1, BlockStoreAssumption DEF MergedExtents, LowestOf
<1>3. x = [startBlock |-> x.startBlock, length |-> x.length]
  BY DEF MergedExtents
<1>4. QED
  BY <1>1, <1>2, <1>3, BlockStoreAssumption DEF InData, Extents, DataBlocks

\* An entry whose isDirectory and parentIndex were not overwritten has room
\* for an extent in its array, or exactly in the memory behind it.
LEMMA IntactHasRoom ==
    ASSUME NEW e, Shape(e), FieldsIntact(e)
    PROVE  e.numExtents \in 0 .. MaxExtents
<1>1. e.numExtents \in 0 .. MaxExtents + 1
  BY DEF Shape, AnyEntry
<1>2. ASSUME e.numExtents = MaxExtents + 1 PROVE FALSE
  <2>1. e.extents[MaxExtents].startBlock >= DataStart
    BY <1>2, BlockStoreAssumption DEF Shape, InData
  <2>2. e.extents[MaxExtents].startBlock = -1
    BY DEF FieldsIntact, NoExtent
  <2>3. QED
    BY <2>1, <2>2, BlockStoreAssumption
<1>3. QED
  BY <1>1, <1>2, BlockStoreAssumption

\* Storing one more extent of the data area keeps the shape.
LEMMA WithExtentShape ==
    ASSUME NEW e, Shape(e), e.numExtents \in 0 .. MaxExtents,
           NEW x, InData(x)
    PROVE  Shape(WithExtent(e, x))
<1> DEFINE w == WithExtent(e, x)
<1>0. x \in Extents /\ e.numExtents \in 0 .. MaxExtents
  BY DEF InData
<1>1. /\ w.numExtents = e.numExtents + 1
      /\ w.fileSize = e.fileSize
      /\ w.extents = [e.extents EXCEPT ![e.numExtents] = x]
      /\ w \in AnyEntry
  <2>1. e \in AnyEntry /\ MaxExtents \in Nat
    BY BlockStoreAssumption DEF Shape
  <2> DEFINE y == [e.extents EXCEPT ![e.numExtents] = x]
  <2>2. y \in [0 .. MaxExtents -> Extents] /\ e.numExtents + 1 \in 0 .. MaxExtents + 1
    BY <1>0, <2>1 DEF AnyEntry
  <2>3. w = [e EXCEPT !.extents = y, !.numExtents = e.numExtents + 1]
    BY DEF WithExtent
  <2> HIDE DEF w, y
  <2>4. /\ w \in AnyEntry /\ w.extents = y
        /\ w.numExtents = e.numExtents + 1 /\ w.fileSize = e.fileSize
    BY <2>1, <2>2, <2>3 DEF AnyEntry
  <2>5. QED
    BY <2>4 DEF y
<1>2. ASSUME NEW i \in 0 .. w.numExtents - 1
      PROVE  InData(w.extents[i])
  <2>1. CASE i = e.numExtents
    BY <2>1, <1>1, BlockStoreAssumption DEF Shape, AnyEntry
  <2>2. CASE i # e.numExtents
    BY <2>2, <1>1, BlockStoreAssumption DEF Shape, AnyEntry
  <2>3. QED
    BY <2>1, <2>2
<1>3. QED
  BY <1>1, <1>2 DEF Shape

\* The size of a file plays no part in its shape.
LEMMA ResizeShape ==
    ASSUME NEW e, Shape(e), NEW size \in Nat
    PROVE  Shape([e EXCEPT !.fileSize = size])
BY DEF Shape, AnyEntry

\* writeFileData ends with some mistakes, or none.
Writes(f, e, size, taken) ==
    \E mistakes \in SUBSET Flaws : FinishWrite(f, e, size, taken, mistakes)

LEMMA Mistakes ==
    ASSUME NEW happens, NEW flaw \in Flaws
    PROVE  If(happens, flaw) \in SUBSET Flaws
BY DEF If

LEMMA WritesFlaws ==
    ASSUME NEW f, NEW e, NEW size, NEW taken, Writes(f, e, size, taken),
           flaws \subseteq Flaws
    PROVE  flaws' \subseteq Flaws
BY DEF Writes, FinishWrite, Blame, If, Flaws

\* Every append and overwrite ends so.
LEMMA WritesSomething ==
    ASSUME NEW f, NEW size, AppendTo(f, size) \/ WriteTo(f, size)
    PROVE  \E e, n, taken : Writes(f, e, n, taken)
<1>1. CASE AppendTo(f, size)
  BY <1>1, Mistakes DEF AppendTo, Writes, Flaws
<1>2. CASE Overwrite(f, size)
  BY <1>2 DEF Overwrite, Writes
<1>3. CASE Grow(f, size)
  BY <1>3, Mistakes DEF Grow, Writes, Flaws
<1>4. CASE Shrink(f, size)
  BY <1>4, Mistakes DEF Shrink, Writes, Flaws
<1>5. QED
  BY <1>1, <1>2, <1>3, <1>4 DEF WriteTo

FlawsOK == flaws \subseteq Flaws

LEMMA FlawsTyped ==
    ASSUME FlawsOK, [Next]_spaceVars
    PROVE  FlawsOK'
<1>1. ASSUME NEW f \in Files, NEW size \in CreateSizes, Create(f, size)
      PROVE  FlawsOK'
  BY <1>1 DEF Create, Blame, If, Flaws, FlawsOK
<1>2. QED
  BY <1>1, WritesSomething, WritesFlaws DEF Next, Delete, spaceVars, FlawsOK

\* However writeFileData ends, it stores an entry of that shape.
LEMMA FinishWriteShape ==
    ASSUME EntriesShaped, NEW f \in Files, NEW e, Shape(e),
           NEW size \in Nat, NEW taken, Writes(f, e, size, taken)
    PROVE  EntriesShaped'
<1> DEFINE s == [e EXCEPT !.fileSize = size]
<1>1. Shape(s) /\ s \in AnyEntry /\ e \in AnyEntry
  BY ResizeShape DEF Shape
<1>2. files' = [files EXCEPT ![f] = s] \/ files' = [files EXCEPT ![f] = e]
  BY DEF Writes, FinishWrite
<1>3. QED
  BY <1>1, <1>2 DEF EntriesShaped

LEMMA NoFileShape == Shape(NoFile)
BY BlockStoreAssumption DEF NoFile, NoExtent, Shape, AnyEntry, Extents

LEMMA CeilBlocksInt == \A n \in Int : CeilBlocks(n) \in Int
BY BlockStoreAssumption DEF CeilBlocks

LEMMA CreateShape ==
    ASSUME EntriesShaped, NEW f \in Files, NEW size \in CreateSizes, Create(f, size)
    PROVE  EntriesShaped'
<1>1. size \in Nat
  BY BlockStoreAssumption
<1>2. PICK S \in Allocation(CeilBlocks(size)) : \E x \in MergedExtents(S) :
          files' = [files EXCEPT ![f] =
                       [WithExtent(NoFile, x) EXCEPT !.fileSize = size]]
  BY DEF Create
<1>3. PICK x \in MergedExtents(S) :
          files' = [files EXCEPT ![f] =
                       [WithExtent(NoFile, x) EXCEPT !.fileSize = size]]
  BY <1>2
<1>4. InData(x)
  BY <1>1, CeilBlocksInt, MergedExtentStart
<1>5. Shape(WithExtent(NoFile, x))
  <2>1. NoFile.numExtents \in 0 .. MaxExtents
    BY BlockStoreAssumption DEF NoFile
  <2>2. QED
    BY <1>4, <2>1, NoFileShape, WithExtentShape
<1>6. Shape([WithExtent(NoFile, x) EXCEPT !.fileSize = size])
  BY <1>1, <1>5, ResizeShape
<1>7. QED
  BY <1>3, <1>6 DEF EntriesShaped, Shape

\* An accessible file has its extents in the array, at least one.
LEMMA AccessibleEntry ==
    ASSUME EntriesShaped, NEW f \in Files, Accessible(f)
    PROVE  /\ Shape(files[f])
           /\ files[f].numExtents \in 1 .. MaxExtents
           /\ files[f].fileSize \in Nat
<1>1. Shape(files[f]) /\ FieldsIntact(files[f])
  BY DEF EntriesShaped, Accessible
<1>2. files[f].numExtents \in 0 .. MaxExtents
  BY <1>1, IntactHasRoom
<1>3. QED
  BY <1>1, <1>2, BlockStoreAssumption DEF Accessible, Exists, Shape, AnyEntry

LEMMA AppendShape ==
    ASSUME EntriesShaped, NEW f \in Files, NEW size \in ContentSizes, AppendTo(f, size)
    PROVE  EntriesShaped'
<1> DEFINE e == files[f]
           required == CeilBlocks(size - TailRoom(e))
<1>1. size \in Nat
  BY BlockStoreAssumption
<1>2. Shape(e) /\ e.numExtents \in 1 .. MaxExtents /\ e.fileSize \in Nat
  BY AccessibleEntry DEF AppendTo
<1>3. e.fileSize + size \in Nat /\ required \in Int
  BY <1>1, <1>2, CeilBlocksInt, BlockStoreAssumption DEF TailRoom
<1>4. CASE Writes(f, e, e.fileSize + size, required)
  BY <1>2, <1>3, <1>4, FinishWriteShape
<1>5. ASSUME NEW S \in Allocation(required), NEW x \in MergedExtents(S),
             Writes(f, WithExtent(e, x), e.fileSize + size, required)
      PROVE  EntriesShaped'
  <2>1. InData(x)
    BY <1>3, MergedExtentStart
  <2>2. Shape(WithExtent(e, x))
    BY <1>2, <2>1, WithExtentShape, BlockStoreAssumption
  <2>3. QED
    BY <1>3, <1>5, <2>2, FinishWriteShape
<1>6. QED
  BY <1>4, <1>5, Mistakes DEF AppendTo, Writes, Flaws

\* One more block at the end of its last extent keeps the shape of an entry.
LEMMA LongerShape ==
    ASSUME NEW e, Shape(e), e.numExtents \in 1 .. MaxExtents
    PROVE  LET longer == [e EXCEPT !.extents[e.numExtents - 1].length = @ + 1]
           IN  Shape(longer) /\ longer.numExtents = e.numExtents
<1> DEFINE k == e.numExtents - 1
           longer == [e EXCEPT !.extents[e.numExtents - 1].length = @ + 1]
<1>1. /\ k \in 0 .. MaxExtents /\ k \in 0 .. e.numExtents - 1
      /\ e.extents \in [0 .. MaxExtents -> Extents]
      /\ InData(e.extents[k])
      /\ longer = [e EXCEPT !.extents =
             [e.extents EXCEPT ![k] = [e.extents[k] EXCEPT !.length = @ + 1]]]
  BY BlockStoreAssumption DEF Shape, AnyEntry
<1>2. InData([e.extents[k] EXCEPT !.length = @ + 1])
  BY <1>1 DEF Extents, InData
<1> DEFINE x == [e.extents[k] EXCEPT !.length = @ + 1]
<1>3. /\ longer.extents = [e.extents EXCEPT ![k] = x]
      /\ longer.numExtents = e.numExtents
      /\ longer.fileSize = e.fileSize
      /\ x \in Extents
  BY <1>1, <1>2 DEF Shape, AnyEntry, InData
<1>4. longer \in AnyEntry
  BY <1>1, <1>2 DEF Shape, AnyEntry, InData
<1> HIDE DEF x, longer
<1>5. \A i \in 0 .. longer.numExtents - 1 : InData(longer.extents[i])
  BY <1>1, <1>2, <1>3, BlockStoreAssumption DEF Shape, x
<1>6. Shape(longer)
  BY <1>3, <1>4, <1>5 DEF Shape
<1>7. QED
  BY <1>3, <1>6 DEF longer

LEMMA GrowShape ==
    ASSUME EntriesShaped, NEW f \in Files, NEW size \in ContentSizes, Grow(f, size)
    PROVE  EntriesShaped'
<1> DEFINE e == files[f]
           extra == Required(size) - Allocated(e)
           longer == [e EXCEPT !.extents[e.numExtents - 1].length = @ + 1]
<1>1. size \in Nat
  BY BlockStoreAssumption
<1>2. Shape(e) /\ e.numExtents \in 1 .. MaxExtents /\ e.fileSize \in Nat
  BY AccessibleEntry DEF Grow
<1>3. extra \in Int
  BY <1>1, <1>2, CeilBlocksInt DEF Required, Allocated
<1>4. Shape(longer) /\ longer.numExtents = e.numExtents
  BY <1>2, LongerShape
<1> HIDE DEF longer
<1>5. ASSUME NEW e1 \in {e, longer}
      PROVE  Shape(e1) /\ e1.numExtents \in 0 .. MaxExtents
  BY <1>2, <1>4, <1>5, BlockStoreAssumption
<1>6. ASSUME NEW S \in Allocation(extra), NEW e1 \in {e, longer},
             \/ Writes(f, e1, size, extra)
             \/ \E x \in MergedExtents(S) :
                    Writes(f, WithExtent(e1, x), size, extra)
      PROVE  EntriesShaped'
  <2>1. CASE Writes(f, e1, size, extra)
    BY <1>1, <1>5, <2>1, FinishWriteShape
  <2>2. ASSUME NEW x \in MergedExtents(S), Writes(f, WithExtent(e1, x), size, extra)
        PROVE  EntriesShaped'
    <3>1. InData(x)
      BY <1>3, MergedExtentStart
    <3>2. Shape(WithExtent(e1, x))
      BY <1>5, <3>1, WithExtentShape
    <3>3. QED
      BY <1>1, <2>2, <3>2, FinishWriteShape
  <2>3. QED
    BY <1>6, <2>1, <2>2
<1>7. QED
  BY <1>6, Mistakes DEF Grow, longer, Writes, Flaws

\* Counting L blocks at a time until a blocks are counted overshoots by less
\* than L.
LEMMA RoundedUp ==
    ASSUME NEW a \in Int, NEW L \in Nat \ {0}
    PROVE  LET rounds == (a + L - 1) \div L
           IN  /\ rounds * L - a \in Int
               /\ rounds * L - a >= 0 /\ rounds * L - a <= L - 1
<1>1. \A n \in Int : n \div L \in Int /\ (n \div L) * L <= n /\ n < (n \div L) * L + L
  OBVIOUS
<1>2. QED
  BY <1>1

LEMMA ShrinkShape ==
    ASSUME EntriesShaped, NEW f \in Files, NEW size \in ContentSizes, Shrink(f, size)
    PROVE  EntriesShaped'
<1> DEFINE e == files[f]
           first == e.extents[0]
           required == Required(size)
           rounds == (required + first.length - 1) \div first.length
           surplus == rounds * first.length - required
           short == [first EXCEPT !.length = @ - surplus]
<1>1. size \in Nat
  BY BlockStoreAssumption
<1>2. Shape(e) /\ e.numExtents \in 1 .. MaxExtents
  BY AccessibleEntry DEF Shrink
<1>3. InData(first)
  BY <1>2, BlockStoreAssumption DEF Shape
<1>4. first.length \in Nat \ {0} /\ required \in Int
  BY <1>1, <1>3, CeilBlocksInt DEF InData, Extents, Required
<1>5. surplus \in Int /\ surplus <= first.length - 1
  BY <1>4, RoundedUp
<1> HIDE DEF surplus
<1>6. InData(short)
  BY <1>3, <1>5 DEF InData, Extents
<1> HIDE DEF short
<1>7. Shape(Shortened(e, short))
  <2> DEFINE s == Shortened(e, short)
  <2> DEFINE y == [i \in 0 .. MaxExtents |-> IF i = 0 THEN short ELSE NoExtent]
  <2>1. y \in [0 .. MaxExtents -> Extents] /\ 1 \in 0 .. MaxExtents + 1
    BY <1>6, BlockStoreAssumption DEF NoExtent, Extents, InData
  <2>2. s = [e EXCEPT !.numExtents = 1, !.extents = y] /\ e \in AnyEntry
    BY <1>2 DEF Shortened, Shape
  <2> HIDE DEF s, y
  <2>3. s \in AnyEntry /\ s.extents = y /\ s.numExtents = 1
    BY <2>1, <2>2 DEF AnyEntry
  <2>4. \A i \in 0 .. s.numExtents - 1 : InData(s.extents[i])
    BY <1>6, <2>3, BlockStoreAssumption DEF y
  <2>5. \A i \in s.numExtents .. MaxExtents : s.extents[i] = NoExtent
    BY <2>3, BlockStoreAssumption DEF y
  <2>6. Shape(s)
    BY <2>3, <2>4, <2>5 DEF Shape
  <2>7. QED
    BY <2>6 DEF s
<1>8. Writes(f, Shortened(e, short), size, 0)
  BY Mistakes DEF Shrink, short, surplus, Writes, Flaws
<1>9. QED
  BY <1>1, <1>7, <1>8, FinishWriteShape

LEMMA StepShape ==
    ASSUME EntriesShaped, [Next]_spaceVars
    PROVE  EntriesShaped'
<1>1. CASE UNCHANGED spaceVars
  BY <1>1 DEF spaceVars, EntriesShaped, Shape
<1>2. ASSUME NEW f \in Files, NEW size \in CreateSizes, Create(f, size)
      PROVE  EntriesShaped'
  BY <1>2, CreateShape
<1>3. ASSUME NEW f \in Files, NEW size \in ContentSizes, AppendTo(f, size)
      PROVE  EntriesShaped'
  BY <1>3, AppendShape
<1>4. ASSUME NEW f \in Files, NEW size \in ContentSizes, Overwrite(f, size)
      PROVE  EntriesShaped'
  <2>1. size \in Nat /\ Shape(files[f]) /\ Writes(f, files[f], size, 0)
    BY <1>4, AccessibleEntry, BlockStoreAssumption DEF Overwrite, Writes
  <2>2. QED
    BY <2>1, FinishWriteShape
<1>5. ASSUME NEW f \in Files, NEW size \in ContentSizes, Grow(f, size)
      PROVE  EntriesShaped'
  BY <1>5, GrowShape
<1>6. ASSUME NEW f \in Files, NEW size \in ContentSizes, Shrink(f, size)
      PROVE  EntriesShaped'
  BY <1>6, ShrinkShape
<1>7. ASSUME NEW f \in Files, Delete(f)
      PROVE  EntriesShaped'
  BY <1>7, NoFileShape DEF Delete, EntriesShaped, Shape
<1>8. QED
  BY <1>1, <1>2, <1>3, <1>4, <1>5, <1>6, <1>7 DEF Next, WriteTo

LEMMA InitShape == Init => EntriesShaped
BY NoFileShape DEF Init, EntriesShaped, Shape

\* No block of a file lies before the data area: a run starts in the data
\* area and goes up.
LEMMA ShapeSafe == EntriesShaped => MetadataNeverCovered
<1> SUFFICES ASSUME EntriesShaped, NEW f \in Files, NEW b \in BlocksOf(files[f])
             PROVE  b >= DataStart
  BY DEF MetadataNeverCovered
<1>1. PICK i \in 0 .. files[f].numExtents - 1 : b \in Run(files[f].extents[i])
  BY DEF BlocksOf
<1>2. InData(files[f].extents[i])
  BY DEF EntriesShaped, Shape
<1>3. QED
  BY <1>1, <1>2, BlockStoreAssumption DEF Run, InData, Extents

\* Whatever is created, written and deleted, on any disk, and whatever the
\* allocation loops read behind their vector: no file ever covers a block of
\* the superblock, the bitmap, the B+ tree or the directory table.
THEOREM MetadataSafe == Spec => []MetadataNeverCovered
<1>1. Spec => []EntriesShaped
  BY InitShape, StepShape, PTL DEF Spec
<1>2. QED
  BY <1>1, ShapeSafe, PTL

-----------------------------------------------------------------------------
(***************************************************************************)
(* The types.  An entry with no extent is the empty one, and what deletion *)
(* gives back to the counter is a number.                                  *)
(***************************************************************************)
SumStep(e, s, n) == IF n = 0 THEN 0 ELSE s[n - 1] + e.extents[n - 1].length
IsSum(s, e) == s = [n \in 0 .. MaxExtents |-> SumStep(e, s, n)]

LEMMA SumStepSame ==
    ASSUME NEW e, NEW g, NEW h, NEW n, n # 0 => g[n - 1] = h[n - 1]
    PROVE  SumStep(e, g, n) = SumStep(e, h, n)
BY DEF SumStep

LEMMA SumExists ==
    ASSUME NEW e
    PROVE  \E s : IsSum(s, e) /\ LengthSum(e) = s[MaxExtents]
<1> DEFINE P == {m \in Nat : \E s : s = [n \in 0 .. m |-> SumStep(e, s, n)]}
<1>1. 0 \in P
  <2> DEFINE s == [n \in 0 .. 0 |-> 0]
  <2>1. s = [n \in 0 .. 0 |-> SumStep(e, s, n)]
    BY DEF SumStep
  <2>2. QED
    BY <2>1
<1>2. ASSUME NEW m \in Nat, m \in P PROVE m + 1 \in P
  <2>1. PICK g : g = [n \in 0 .. m |-> SumStep(e, g, n)]
    BY <1>2
  <2> DEFINE h == [n \in 0 .. m + 1 |-> SumStep(e, g, n)]
  <2>2. \A n \in 0 .. m : h[n] = g[n]
    BY <2>1
  <2>3. h = [n \in 0 .. m + 1 |-> SumStep(e, g, n)]
    OBVIOUS
  <2> HIDE DEF h
  <2>4. ASSUME NEW n \in 0 .. m + 1 PROVE SumStep(e, g, n) = SumStep(e, h, n)
    <3>1. n # 0 => g[n - 1] = h[n - 1]
      BY <2>2
    <3>2. QED
      BY <3>1, SumStepSame
  <2>5. h = [n \in 0 .. m + 1 |-> SumStep(e, h, n)]
    BY <2>3, <2>4
  <2>6. QED
    BY <2>5
<1> HIDE DEF P
<1>3. MaxExtents \in P
  BY <1>1, <1>2, NatInd, BlockStoreAssumption
<1>4. \E s : s = [n \in 0 .. MaxExtents |-> SumStep(e, s, n)]
  BY <1>3 DEF P
<1>5. QED
  BY <1>4 DEF IsSum, LengthSum, SumStep

LEMMA SumInt ==
    ASSUME NEW e \in AnyEntry
    PROVE  LengthSum(e) \in Int
<1>1. PICK s : IsSum(s, e) /\ LengthSum(e) = s[MaxExtents]
  BY SumExists
<1> DEFINE P == {m \in Nat : m <= MaxExtents => s[m] \in Int}
<1>2. 0 \in P
  BY <1>1, BlockStoreAssumption DEF IsSum, SumStep
<1>3. ASSUME NEW m \in Nat, m \in P PROVE m + 1 \in P
  <2>1. SUFFICES ASSUME m + 1 <= MaxExtents PROVE s[m + 1] \in Int
    OBVIOUS
  <2>2. m + 1 \in 0 .. MaxExtents /\ m \in 0 .. MaxExtents /\ (m + 1) - 1 = m /\ m + 1 # 0
    BY <2>1, BlockStoreAssumption
  <2>3. s[m + 1] = s[m] + e.extents[m].length
    BY <1>1, <2>2 DEF IsSum, SumStep
  <2>4. e.extents[m].length \in Int
    BY <2>2 DEF AnyEntry, Extents
  <2>5. QED
    BY <1>3, <2>2, <2>3, <2>4
<1> HIDE DEF P
<1>4. MaxExtents \in P
  BY <1>2, <1>3, NatInd, BlockStoreAssumption
<1>5. QED
  BY <1>1, <1>4, BlockStoreAssumption DEF P

\* An entry with no extents is the empty one
Blank == \A f \in Files : files[f].numExtents = 0 => files[f] = NoFile
TypeInv ==
    /\ EntriesShaped
    /\ FATTABLE \subseteq Blocks
    /\ freeBlocks \in Int
    /\ Blank

LEMMA StoreBlank ==
    ASSUME EntriesShaped, Blank, NEW f \in Files, NEW e, e.numExtents # 0,
           files' = [files EXCEPT ![f] = e]
    PROVE  Blank'
BY DEF EntriesShaped, Blank

LEMMA AllocationInBlocks ==
    ASSUME NEW n, NEW S \in Allocation(n)
    PROVE  S \subseteq Blocks
BY BlockStoreAssumption DEF Allocation, FreeData, DataBlocks, Blocks

LEMMA FinishType ==
    ASSUME EntriesShaped, Blank, freeBlocks \in Int, NEW f \in Files, NEW e, Shape(e), e.numExtents # 0,
           NEW size, NEW taken \in Int, Writes(f, e, size, taken)
    PROVE  freeBlocks' \in Int /\ Blank'
<1>1. files \in [Files -> AnyEntry] /\ e \in AnyEntry
  BY DEF EntriesShaped, Shape
<1>2. freeBlocks' \in Int
  BY DEF Writes, FinishWrite
<1>3. [e EXCEPT !.fileSize = size].numExtents = e.numExtents
  BY <1>1 DEF AnyEntry
<1>4. Blank'
  <2> DEFINE s == [e EXCEPT !.fileSize = size]
  <2>1. files' = [files EXCEPT ![f] = s] \/ files' = [files EXCEPT ![f] = e]
    BY DEF Writes, FinishWrite
  <2> HIDE DEF s
  <2>2. s.numExtents # 0
    BY <1>3 DEF s
  <2>3. \A g \in Files : g # f => files'[g] = files[g]
    BY <2>1, <1>1
  <2>4. files'[f].numExtents # 0
    BY <2>1, <2>2, <1>1
  <2>5. QED
    BY <2>3, <2>4 DEF Blank
<1>5. QED
  BY <1>2, <1>4

LEMMA WithExtentCounts ==
    ASSUME NEW e, Shape(e), NEW x
    PROVE  WithExtent(e, x).numExtents = e.numExtents + 1
BY DEF WithExtent, Shape, AnyEntry

LEMMA CreateType ==
    ASSUME TypeInv, NEW f \in Files, NEW size \in CreateSizes, Create(f, size)
    PROVE  TypeInv'
<1>1. EntriesShaped'
  BY CreateShape DEF TypeInv
<1>2. PICK S \in Allocation(CeilBlocks(size)) :
         /\ FATTABLE' = FATTABLE \cup S
         /\ freeBlocks' = freeBlocks - CeilBlocks(size)
         /\ \E x \in MergedExtents(S) :
               files' = [files EXCEPT ![f] = [WithExtent(NoFile, x) EXCEPT !.fileSize = size]]
  BY DEF Create
<1>3. PICK x : files' = [files EXCEPT ![f] = [WithExtent(NoFile, x) EXCEPT !.fileSize = size]]
  BY <1>2
<1>4. FATTABLE' \subseteq Blocks
  BY <1>2, AllocationInBlocks DEF TypeInv
<1>5. freeBlocks' \in Int
  BY <1>2, CeilBlocksInt, BlockStoreAssumption DEF TypeInv
<1> DEFINE w == WithExtent(NoFile, x)
           s == [w EXCEPT !.fileSize = size]
<1>6. s.numExtents # 0 /\ EntriesShaped /\ Blank
  BY DEF WithExtent, NoFile, TypeInv
<1>7. files' = [files EXCEPT ![f] = s]
  BY <1>3
<1> HIDE DEF s
<1>8. Blank'
  BY <1>6, <1>7, StoreBlank
<1>9. QED
  BY <1>1, <1>4, <1>5, <1>8 DEF TypeInv

LEMMA AppendType ==
    ASSUME TypeInv, NEW f \in Files, NEW size \in ContentSizes, AppendTo(f, size)
    PROVE  TypeInv'
<1> DEFINE e == files[f]
           required == CeilBlocks(size - TailRoom(e))
<1>1. EntriesShaped'
  BY AppendShape DEF TypeInv
<1>2. Shape(e) /\ e.numExtents \in 1 .. MaxExtents /\ e.fileSize \in Nat
  BY AccessibleEntry DEF AppendTo, TypeInv
<1>3. required \in Int
  BY <1>2, CeilBlocksInt, BlockStoreAssumption DEF TailRoom
<1> HIDE DEF required
<1>4. /\ FATTABLE' \subseteq Blocks
      /\ \E e1 : Shape(e1) /\ e1.numExtents # 0 /\ Writes(f, e1, e.fileSize + size, required)
  <2>1. CASE UNCHANGED FATTABLE /\ Writes(f, e, e.fileSize + size, required)
    BY <1>2, <2>1 DEF TypeInv
  <2>2. ASSUME NEW S \in Allocation(required), FATTABLE' = FATTABLE \cup S, NEW x \in MergedExtents(S),
               Writes(f, WithExtent(e, x), e.fileSize + size, required)
        PROVE  /\ FATTABLE' \subseteq Blocks
               /\ \E e1 : Shape(e1) /\ e1.numExtents # 0 /\ Writes(f, e1, e.fileSize + size, required)
    <3>1. FATTABLE' \subseteq Blocks
      BY <2>2, AllocationInBlocks DEF TypeInv
    <3>2. InData(x)
      BY <1>3, MergedExtentStart
    <3>3. Shape(WithExtent(e, x)) /\ WithExtent(e, x).numExtents # 0
      BY <1>2, <3>2, WithExtentShape, WithExtentCounts, BlockStoreAssumption
    <3>4. QED
      BY <2>2, <3>1, <3>3
  <2>3. QED
    BY <2>1, <2>2, Mistakes DEF AppendTo, required, Writes, Flaws
<1>5. freeBlocks' \in Int /\ Blank'
  BY <1>3, <1>4, FinishType DEF TypeInv
<1>6. QED
  BY <1>1, <1>4, <1>5 DEF TypeInv

LEMMA GrowType ==
    ASSUME TypeInv, NEW f \in Files, NEW size \in ContentSizes, Grow(f, size)
    PROVE  TypeInv'
<1> DEFINE e == files[f]
           extra == Required(size) - Allocated(e)
           longer == [e EXCEPT !.extents[e.numExtents - 1].length = @ + 1]
<1>1. EntriesShaped'
  BY GrowShape DEF TypeInv
<1>2. Shape(e) /\ e.numExtents \in 1 .. MaxExtents /\ e.fileSize \in Nat
  BY AccessibleEntry DEF Grow, TypeInv
<1>3. extra \in Int
  BY <1>2, CeilBlocksInt, BlockStoreAssumption DEF Required, Allocated
<1>4. Shape(longer) /\ longer.numExtents = e.numExtents
  BY <1>2, LongerShape
<1> HIDE DEF longer
<1>5. ASSUME NEW S \in Allocation(extra), NEW e1 \in {e, longer}, FATTABLE' = FATTABLE \cup S,
             \/ Writes(f, e1, size, extra)
             \/ \E x \in MergedExtents(S) : Writes(f, WithExtent(e1, x), size, extra)
      PROVE  /\ FATTABLE' \subseteq Blocks
             /\ \E e2 : Shape(e2) /\ e2.numExtents # 0 /\ Writes(f, e2, size, extra)
  <2>1. FATTABLE' \subseteq Blocks
    BY <1>5, AllocationInBlocks DEF TypeInv
  <2>2. Shape(e1) /\ e1.numExtents \in 1 .. MaxExtents
    BY <1>2, <1>4
  <2>3. ASSUME NEW x \in MergedExtents(S)
        PROVE  Shape(WithExtent(e1, x)) /\ WithExtent(e1, x).numExtents # 0
    <3>1. InData(x)
      BY <1>3, MergedExtentStart
    <3>2. QED
      BY <2>2, <3>1, WithExtentShape, WithExtentCounts, BlockStoreAssumption
  <2>4. QED
    BY <1>5, <2>1, <2>2, <2>3
<1>6. /\ FATTABLE' \subseteq Blocks
      /\ \E e2 : Shape(e2) /\ e2.numExtents # 0 /\ Writes(f, e2, size, extra)
  BY <1>5, Mistakes DEF Grow, longer, Writes, Flaws
<1>7. freeBlocks' \in Int /\ Blank'
  BY <1>3, <1>6, FinishType DEF TypeInv
<1>8. QED
  BY <1>1, <1>6, <1>7 DEF TypeInv

LEMMA ShrinkType ==
    ASSUME TypeInv, NEW f \in Files, NEW size \in ContentSizes, Shrink(f, size)
    PROVE  TypeInv'
<1>1. EntriesShaped'
  BY ShrinkShape DEF TypeInv
<1>2. PICK short : Writes(f, Shortened(files[f], short), size, 0)
                   /\ \E freed : FATTABLE' = FATTABLE \ freed
  BY Mistakes DEF Shrink, Writes, Flaws
<1>3. freeBlocks' \in Int /\ FATTABLE' \subseteq Blocks
  BY <1>2 DEF TypeInv, Writes, FinishWrite
<1> DEFINE s == Shortened(files[f], short)
           t == [s EXCEPT !.fileSize = size]
<1>4. files[f] \in AnyEntry
  BY DEF TypeInv, EntriesShaped
<1>5. s.numExtents # 0 /\ t.numExtents # 0
  BY <1>4 DEF Shortened, AnyEntry
<1>6. files' = [files EXCEPT ![f] = s] \/ files' = [files EXCEPT ![f] = t]
  BY <1>2 DEF Writes, FinishWrite
<1> HIDE DEF s, t
<1>7. Blank'
  BY <1>5, <1>6, StoreBlank DEF TypeInv
<1>8. QED
  BY <1>1, <1>3, <1>7 DEF TypeInv

LEMMA StepType ==
    ASSUME TypeInv, [Next]_spaceVars
    PROVE  TypeInv'
<1>1. CASE UNCHANGED spaceVars
  BY <1>1 DEF spaceVars, TypeInv, EntriesShaped, Shape, Blank
<1>2. ASSUME NEW f \in Files, NEW size \in ContentSizes, Overwrite(f, size)
      PROVE  TypeInv'
  <2>1. Shape(files[f]) /\ files[f].numExtents \in 1 .. MaxExtents
    BY <1>2, AccessibleEntry DEF Overwrite, TypeInv
  <2>2. Writes(f, files[f], size, 0) /\ UNCHANGED FATTABLE /\ EntriesShaped'
    BY <1>2, <2>1, FinishWriteShape, BlockStoreAssumption DEF Overwrite, TypeInv, Writes
  <2>3. QED
    BY <2>1, <2>2, FinishType DEF TypeInv
<1>3. ASSUME NEW f \in Files, Delete(f) PROVE TypeInv'
  <2>1. EntriesShaped'
    BY <1>3, NoFileShape DEF Delete, TypeInv, EntriesShaped, Shape
  <2>2. LengthSum(files[f]) \in Int
    BY SumInt DEF TypeInv, EntriesShaped
  <2>3. Blank'
    BY <1>3 DEF Delete, TypeInv, Blank, EntriesShaped
  <2>4. FATTABLE' \subseteq Blocks /\ freeBlocks' \in Int
    BY <1>3, <2>2 DEF Delete, TypeInv
  <2>5. QED
    BY <2>1, <2>3, <2>4 DEF TypeInv
<1>4. QED
  BY <1>1, <1>2, <1>3, CreateType, AppendType, GrowType, ShrinkType DEF Next, WriteTo

LEMMA InitType == Init => TypeInv
<1> SUFFICES ASSUME Init PROVE TypeInv
  OBVIOUS
<1>1. FATTABLE \subseteq Blocks /\ freeBlocks \in Int
  BY BlockStoreAssumption DEF Init, Blocks
<1>2. Blank
  BY DEF Init, Blank
<1>3. QED
  BY <1>1, <1>2, InitShape DEF TypeInv

LEMMA TypeInvType == TypeInv /\ FlawsOK => TypeOK
<1> SUFFICES ASSUME TypeInv, FlawsOK, NEW f \in Files PROVE files[f] \in Entry \cup {NoFile}
  BY DEF TypeInv, TypeOK, EntriesShaped, FlawsOK
<1>1. files[f] \in AnyEntry
  BY DEF TypeInv, EntriesShaped
<1>2. files[f].numExtents # 0 => files[f] \in Entry
  BY <1>1, BlockStoreAssumption DEF AnyEntry, Entry, Extents
<1>3. QED
  BY <1>2 DEF TypeInv, Blank

\* Whatever is created, written and deleted, on any disk: the bitmap, the
\* counter and the entries keep their types.
THEOREM SpaceTypes == Spec => []TypeOK
<1>1. Init => FlawsOK
  BY DEF Init, FlawsOK
<1>2. Spec => []FlawsOK
  BY <1>1, FlawsTyped, PTL DEF Spec
<1>3. Spec => []TypeInv
  BY InitType, StepType, PTL DEF Spec
<1>4. QED
  BY <1>2, <1>3, TypeInvType, PTL

-----------------------------------------------------------------------------
(***************************************************************************)
(* No block is in two extents, and those of the files are marked.  Every   *)
(* operation replaces one entry by one whose blocks are its own or were    *)
(* free (Stored); what the operations have to show is that, from the runs  *)
(* of the extents and as long as the history names no extent merged with   *)
(* blocks it was not given and no bit torn off a block that is kept.       *)
(***************************************************************************)
Clean == flaws \cap {"merged", "torn"} = {}

Apart(e) ==
    \A i, j \in 0 .. e.numExtents - 1 :
        i # j => Run(e.extents[i]) \cap Run(e.extents[j]) = {}

LEMMA DisjointFiles ==
    ASSUME Disjoint
    PROVE  /\ \A f \in Files : Apart(files[f])
           /\ \A f, g \in Files : f # g => BlocksOf(files[f]) \cap BlocksOf(files[g]) = {}
<1>1. \A f \in Files : Apart(files[f])
  BY DEF Disjoint, Apart
<1>2. ASSUME NEW f \in Files, NEW g \in Files, f # g,
             NEW b \in BlocksOf(files[f]) \cap BlocksOf(files[g])
      PROVE  FALSE
  <2>1. PICK i \in 0 .. files[f].numExtents - 1 : b \in Run(files[f].extents[i])
    BY <1>2 DEF BlocksOf
  <2>2. PICK j \in 0 .. files[g].numExtents - 1 : b \in Run(files[g].extents[j])
    BY <1>2 DEF BlocksOf
  <2>3. Run(files[f].extents[i]) \cap Run(files[g].extents[j]) = {}
    BY <1>2 DEF Disjoint
  <2>4. QED
    BY <2>1, <2>2, <2>3
<1>3. QED
  BY <1>1, <1>2

\* The entry of f is replaced by g, whose blocks f had or were free.
LEMMA Stored ==
    ASSUME files \in [Files -> AnyEntry], Disjoint, Marked,
           NEW f \in Files, NEW g, Apart(g),
           files' = [files EXCEPT ![f] = g],
           BlocksOf(g) \subseteq BlocksOf(files[f]) \cup FreeData,
           BlocksOf(g) \subseteq FATTABLE',
           FATTABLE \subseteq FATTABLE' \cup BlocksOf(files[f])
    PROVE  Disjoint' /\ Marked'
<1>1. \A h \in Files : files'[h] = IF h = f THEN g ELSE files[h]
  OBVIOUS
<1>2. \A h \in Files : Apart(files'[h])
  BY <1>1, DisjointFiles
<1>3. \A h \in Files : h # f => BlocksOf(files[h]) \cap BlocksOf(g) = {}
  <2>1. \A h \in Files : h # f => BlocksOf(files[h]) \cap BlocksOf(files[f]) = {}
    BY DisjointFiles
  <2>2. \A h \in Files : BlocksOf(files[h]) \cap FreeData = {}
    BY DEF Marked, FreeData
  <2>3. QED
    BY <2>1, <2>2
<1>4. \A h, k \in Files : h # k => BlocksOf(files'[h]) \cap BlocksOf(files'[k]) = {}
  BY <1>1, <1>3, DisjointFiles
<1>5. Disjoint'
  <2>1. ASSUME NEW h \in Files, NEW k \in Files,
               NEW i \in 0 .. files'[h].numExtents - 1,
               NEW j \in 0 .. files'[k].numExtents - 1, h # k \/ i # j
        PROVE  Run(files'[h].extents[i]) \cap Run(files'[k].extents[j]) = {}
    <3>1. CASE h = k
      BY <2>1, <3>1, <1>2 DEF Apart
    <3>2. CASE h # k
      <4>1. /\ Run(files'[h].extents[i]) \subseteq BlocksOf(files'[h])
            /\ Run(files'[k].extents[j]) \subseteq BlocksOf(files'[k])
        BY DEF BlocksOf
      <4>2. QED
        BY <3>2, <4>1, <1>4
    <3>3. QED
      BY <3>1, <3>2
  <2>2. QED
    BY <2>1 DEF Disjoint
<1>6. ASSUME NEW h \in Files PROVE BlocksOf(files'[h]) \subseteq FATTABLE'
  <2>1. CASE h = f
    BY <1>1, <2>1
  <2>2. CASE h # f
    <3>1. BlocksOf(files[h]) \subseteq FATTABLE
      BY DEF Marked
    <3>2. BlocksOf(files[h]) \cap BlocksOf(files[f]) = {}
      BY <2>2, DisjointFiles
    <3>3. QED
      BY <1>1, <2>2, <3>1, <3>2
  <2>3. QED
    BY <2>1, <2>2
<1>7. QED
  BY <1>5, <1>6 DEF Marked

\* The size of a file plays no part in its blocks.
LEMMA ResizeBlocks ==
    ASSUME NEW e \in AnyEntry, NEW size
    PROVE  LET s == [e EXCEPT !.fileSize = size]
           IN  /\ s.numExtents = e.numExtents
               /\ s.extents = e.extents
               /\ BlocksOf(s) = BlocksOf(e)
               /\ Apart(e) => Apart(s)
<1> DEFINE s == [e EXCEPT !.fileSize = size]
<1>1. s.numExtents = e.numExtents /\ s.extents = e.extents
  BY DEF AnyEntry
<1> HIDE DEF s
<1>2. BlocksOf(s) = BlocksOf(e) /\ (Apart(e) => Apart(s))
  BY <1>1 DEF BlocksOf, Apart
<1>3. QED
  BY <1>1, <1>2 DEF s

LEMMA FinishStored ==
    ASSUME files \in [Files -> AnyEntry], Disjoint, Marked,
           NEW f \in Files, NEW e, Shape(e), Apart(e),
           NEW size, NEW taken, Writes(f, e, size, taken),
           BlocksOf(e) \subseteq BlocksOf(files[f]) \cup FreeData,
           BlocksOf(e) \subseteq FATTABLE',
           FATTABLE \subseteq FATTABLE' \cup BlocksOf(files[f])
    PROVE  Disjoint' /\ Marked'
<1> DEFINE s == [e EXCEPT !.fileSize = size]
<1>1. Apart(s) /\ BlocksOf(s) = BlocksOf(e)
  BY ResizeBlocks DEF Shape
<1>2. files' = [files EXCEPT ![f] = s] \/ files' = [files EXCEPT ![f] = e]
  BY DEF Writes, FinishWrite
<1> HIDE DEF s
<1>3. CASE files' = [files EXCEPT ![f] = s]
  BY <1>1, <1>3, Stored
<1>4. CASE files' = [files EXCEPT ![f] = e]
  BY <1>4, Stored
<1>5. QED
  BY <1>2, <1>3, <1>4

\* A new extent brings its run.
LEMMA WithExtentBlocks ==
    ASSUME NEW e, Shape(e), e.numExtents \in 0 .. MaxExtents, NEW x, InData(x)
    PROVE  /\ BlocksOf(WithExtent(e, x)) = BlocksOf(e) \cup Run(x)
           /\ Apart(e) /\ Run(x) \cap BlocksOf(e) = {} => Apart(WithExtent(e, x))
<1> DEFINE w == WithExtent(e, x)
<1>1. /\ w.numExtents = e.numExtents + 1
      /\ \A i \in 0 .. e.numExtents - 1 : w.extents[i] = e.extents[i]
      /\ w.extents[e.numExtents] = x
      /\ e.numExtents \in Nat
  BY BlockStoreAssumption DEF WithExtent, Shape, AnyEntry
<1> HIDE DEF w
<1>2. BlocksOf(w) = BlocksOf(e) \cup Run(x)
  <2>1. 0 .. w.numExtents - 1 = (0 .. e.numExtents - 1) \cup {e.numExtents}
    BY <1>1
  <2>2. QED
    BY <1>1, <2>1 DEF BlocksOf
<1>3. ASSUME Apart(e), Run(x) \cap BlocksOf(e) = {} PROVE Apart(w)
  <2>1. \A i \in 0 .. e.numExtents - 1 : Run(e.extents[i]) \cap Run(x) = {}
    BY <1>3 DEF BlocksOf
  <2>2. ASSUME NEW i \in 0 .. w.numExtents - 1, NEW j \in 0 .. w.numExtents - 1, i # j
        PROVE  Run(w.extents[i]) \cap Run(w.extents[j]) = {}
    <3>1. CASE i # e.numExtents /\ j # e.numExtents
      <4>1. i \in 0 .. e.numExtents - 1 /\ j \in 0 .. e.numExtents - 1
        BY <1>1, <3>1
      <4>2. QED
        BY <1>1, <1>3, <2>2, <4>1 DEF Apart
    <3>2. CASE i = e.numExtents
      <4>1. j \in 0 .. e.numExtents - 1
        BY <1>1, <2>2, <3>2
      <4>2. QED
        BY <1>1, <3>2, <2>1, <4>1
    <3>3. CASE j = e.numExtents
      <4>1. i \in 0 .. e.numExtents - 1
        BY <1>1, <2>2, <3>3
      <4>2. QED
        BY <1>1, <3>3, <2>1, <4>1
    <3>4. QED
      BY <3>1, <3>2, <3>3
  <2>3. QED
    BY <2>2 DEF Apart
<1>4. QED
  BY <1>2, <1>3 DEF w

\* What happens to the flaws of an operation.
LEMMA FinishBlames ==
    ASSUME NEW f, NEW e, NEW size, NEW taken, NEW mistakes,
           FinishWrite(f, e, size, taken, mistakes)
    PROVE  mistakes \subseteq flaws'
BY DEF FinishWrite, Blame

LEMMA IfSo ==
    ASSUME NEW happens \in BOOLEAN, NEW flaw, flaw \notin If(happens, flaw)
    PROVE  ~happens
BY DEF If

LEMMA CreateKeeps ==
    ASSUME TypeInv, Disjoint, Marked, Clean',
           NEW f \in Files, NEW size \in CreateSizes, Create(f, size)
    PROVE  Disjoint' /\ Marked'
<1>1. PICK S \in Allocation(CeilBlocks(size)) :
         /\ FATTABLE' = FATTABLE \cup S
         /\ \E x \in MergedExtents(S) :
               /\ files' = [files EXCEPT ![f] = [WithExtent(NoFile, x) EXCEPT !.fileSize = size]]
               /\ Blame(If(Run(x) # S, "merged"))
  BY DEF Create
<1>2. PICK x \in MergedExtents(S) :
         /\ files' = [files EXCEPT ![f] = [WithExtent(NoFile, x) EXCEPT !.fileSize = size]]
         /\ Blame(If(Run(x) # S, "merged"))
  BY <1>1
<1>3. Run(x) = S
  BY <1>2 DEF Clean, Blame, If
<1>4. S \subseteq FreeData /\ InData(x)
  <2>1. size \in Int
    BY BlockStoreAssumption
  <2>2. QED
    BY <2>1, CeilBlocksInt, MergedExtentStart DEF Allocation
<1>5. files \in [Files -> AnyEntry] /\ files[f] = NoFile
  BY DEF Create, CreateAllowed, Exists, TypeInv, EntriesShaped, AnyEntry, Blank
<1>6. BlocksOf(NoFile) = {} /\ Apart(NoFile) /\ NoFile.numExtents \in 0 .. MaxExtents
  BY BlockStoreAssumption DEF BlocksOf, Apart, NoFile
<1> DEFINE w == WithExtent(NoFile, x)
           s == [w EXCEPT !.fileSize = size]
<1>7. BlocksOf(w) = S /\ Apart(w) /\ w \in AnyEntry
  <2>1. BlocksOf(w) = BlocksOf(NoFile) \cup Run(x) /\ Apart(w)
    BY <1>4, <1>6, NoFileShape, WithExtentBlocks
  <2>2. Shape(w)
    BY <1>4, <1>6, NoFileShape, WithExtentShape
  <2>3. QED
    BY <1>3, <1>6, <2>1, <2>2 DEF Shape
<1> HIDE DEF w
<1>8. BlocksOf(s) = S /\ Apart(s)
  BY <1>7, ResizeBlocks
<1>9. files' = [files EXCEPT ![f] = s]
  BY <1>2 DEF w
<1> HIDE DEF s
<1>10. QED
  BY <1>1, <1>4, <1>5, <1>6, <1>8, <1>9, Stored

\* An extent of newly allocated blocks at the end of an entry.
LEMMA ExtendKeeps ==
    ASSUME TypeInv, Disjoint, Marked,
           NEW f \in Files, files[f].numExtents \in 1 .. MaxExtents,
           NEW S, S \subseteq FreeData, NEW x, InData(x), Run(x) = S,
           FATTABLE' = FATTABLE \cup S,
           NEW size, NEW taken, Writes(f, WithExtent(files[f], x), size, taken)
    PROVE  Disjoint' /\ Marked'
<1> DEFINE e == files[f]
           w == WithExtent(e, x)
<1>1. /\ files \in [Files -> AnyEntry] /\ Shape(e) /\ Apart(e)
      /\ e.numExtents \in 0 .. MaxExtents
  BY DisjointFiles, BlockStoreAssumption DEF TypeInv, EntriesShaped
<1>2. Shape(w)
  BY <1>1, WithExtentShape
<1>3. S \cap BlocksOf(e) = {} /\ BlocksOf(e) \subseteq FATTABLE
  BY DEF Marked, FreeData
<1>4. BlocksOf(w) = BlocksOf(e) \cup S /\ Apart(w)
  BY <1>1, <1>3, WithExtentBlocks
<1> HIDE DEF w
<1>5. Writes(f, w, size, taken)
  BY DEF w
<1>6. /\ BlocksOf(w) \subseteq BlocksOf(e) \cup FreeData
      /\ BlocksOf(w) \subseteq FATTABLE'
      /\ FATTABLE \subseteq FATTABLE' \cup BlocksOf(e)
  BY <1>3, <1>4
<1>7. QED
  BY <1>1, <1>2, <1>4, <1>5, <1>6, FinishStored

\* An entry whose extents stay.
LEMMA SameKeeps ==
    ASSUME TypeInv, Disjoint, Marked, NEW f \in Files, UNCHANGED FATTABLE,
           NEW size, NEW taken, Writes(f, files[f], size, taken)
    PROVE  Disjoint' /\ Marked'
<1>1. files \in [Files -> AnyEntry] /\ Shape(files[f]) /\ Apart(files[f])
  BY DisjointFiles DEF TypeInv, EntriesShaped
<1>2. BlocksOf(files[f]) \subseteq FATTABLE'
  BY DEF Marked
<1>3. QED
  BY <1>1, <1>2, FinishStored

LEMMA AppendKeeps ==
    ASSUME TypeInv, Disjoint, Marked, Clean',
           NEW f \in Files, NEW size \in ContentSizes, AppendTo(f, size)
    PROVE  Disjoint' /\ Marked'
<1> DEFINE e == files[f]
           required == CeilBlocks(size - TailRoom(e))
<1>1. e.numExtents \in 1 .. MaxExtents /\ e.fileSize \in Nat
  BY AccessibleEntry DEF AppendTo, TypeInv
<1>2. required \in Int
  BY <1>1, CeilBlocksInt, BlockStoreAssumption DEF TailRoom
<1>3. CASE UNCHANGED FATTABLE /\ Writes(f, e, e.fileSize + size, required)
  BY <1>3, SameKeeps
<1>4. ASSUME NEW S \in Allocation(required), FATTABLE' = FATTABLE \cup S,
             NEW x \in MergedExtents(S),
             FinishWrite(f, WithExtent(e, x), e.fileSize + size, required,
                         If(Run(x) # S, "merged"))
      PROVE  Disjoint' /\ Marked'
  <2>1. Run(x) = S
    BY <1>4, FinishBlames DEF Clean, If
  <2>2. S \subseteq FreeData /\ InData(x)
    BY <1>2, MergedExtentStart DEF Allocation
  <2>3. Writes(f, WithExtent(e, x), e.fileSize + size, required)
    BY <1>4, Mistakes DEF Writes, Flaws
  <2>4. QED
    BY <1>1, <1>4, <2>1, <2>2, <2>3, ExtendKeeps
<1>5. QED
  BY <1>3, <1>4, Mistakes DEF AppendTo, Writes, Flaws

LEMMA ShrinkKeeps ==
    ASSUME TypeInv, Disjoint, Marked, Clean',
           NEW f \in Files, NEW size \in ContentSizes, Shrink(f, size)
    PROVE  Disjoint' /\ Marked'
<1> DEFINE e == files[f]
           first == e.extents[0]
           required == Required(size)
           rounds == (required + first.length - 1) \div first.length
           surplus == rounds * first.length - required
           short == [first EXCEPT !.length = @ - surplus]
           w == Shortened(e, short)
<1>1. e.numExtents \in 1 .. MaxExtents /\ Shape(e) /\ files \in [Files -> AnyEntry]
  BY AccessibleEntry DEF Shrink, TypeInv, EntriesShaped
<1>2. InData(first) /\ Run(first) \subseteq BlocksOf(e)
  BY <1>1, BlockStoreAssumption DEF Shape, BlocksOf
<1>3. PICK freed :
         /\ FATTABLE' = FATTABLE \ freed
         /\ FinishWrite(f, w, size, 0,
                        If(~(freed \subseteq BlocksOf(e) \ Run(short)), "torn")
                          \cup If(freed # {}, "cut"))
  BY DEF Shrink
<1>4. freed \subseteq BlocksOf(e) \ Run(short)
  BY <1>3, FinishBlames DEF Clean, If
<1>5. first.length \in Nat \ {0} /\ required \in Int
  BY <1>2, CeilBlocksInt, BlockStoreAssumption DEF InData, Extents, Required
<1>6. surplus \in Int /\ surplus >= 0 /\ surplus <= first.length - 1
  BY <1>5, RoundedUp
<1> HIDE DEF surplus
<1>7. /\ InData(short)
      /\ Run(short) \subseteq Run(first)
  BY <1>2, <1>6 DEF InData, Extents, Run
<1> HIDE DEF short
<1>8. w.numExtents = 1 /\ w.extents[0] = short /\ Shape(w)
  <2> DEFINE y == [i \in 0 .. MaxExtents |-> IF i = 0 THEN short ELSE NoExtent]
  <2>1. /\ y \in [0 .. MaxExtents -> Extents] /\ 1 \in 0 .. MaxExtents + 1
        /\ y[0] = short /\ \A i \in 1 .. MaxExtents : y[i] = NoExtent
    BY <1>7, BlockStoreAssumption DEF NoExtent, Extents, InData
  <2>2. w = [e EXCEPT !.numExtents = 1, !.extents = y] /\ e \in AnyEntry
    BY <1>1 DEF Shortened, Shape
  <2> HIDE DEF w, y
  <2>3. w \in AnyEntry /\ w.extents = y /\ w.numExtents = 1
    BY <2>1, <2>2 DEF AnyEntry
  <2>4. /\ \A i \in 0 .. w.numExtents - 1 : InData(w.extents[i])
        /\ \A i \in w.numExtents .. MaxExtents : w.extents[i] = NoExtent
    BY <1>7, <2>1, <2>3, BlockStoreAssumption
  <2>5. QED
    BY <2>1, <2>3, <2>4 DEF Shape
<1>9. BlocksOf(w) = Run(short) /\ Apart(w)
  BY <1>8 DEF BlocksOf, Apart
<1>10. Writes(f, w, size, 0)
  BY <1>3, Mistakes DEF Writes, Flaws
<1>11. BlocksOf(e) \subseteq FATTABLE
  BY DEF Marked
<1>12. /\ BlocksOf(w) \subseteq BlocksOf(e) \cup FreeData
       /\ BlocksOf(w) \subseteq FATTABLE'
       /\ FATTABLE \subseteq FATTABLE' \cup BlocksOf(e)
  BY <1>2, <1>3, <1>4, <1>7, <1>9, <1>11
<1> HIDE DEF w
<1>13. QED
  BY <1>1, <1>8, <1>9, <1>10, <1>12, FinishStored

\* Growing by a block behind the last one lengthens the last run by it.
LEMMA LongerBlocks ==
    ASSUME NEW e, Shape(e), e.numExtents \in 1 .. MaxExtents, Apart(e)
    PROVE  LET longer == [e EXCEPT !.extents[e.numExtents - 1].length = @ + 1]
               next == LastBlock(e.extents[e.numExtents - 1]) + 1
           IN  /\ BlocksOf(longer) = BlocksOf(e) \cup {next}
               /\ next \notin BlocksOf(e) => Apart(longer)
<1> DEFINE k == e.numExtents - 1
           x == e.extents[k]
           y == [x EXCEPT !.length = @ + 1]
           longer == [e EXCEPT !.extents[e.numExtents - 1].length = @ + 1]
           next == LastBlock(x) + 1
<1>1. /\ k \in 0 .. MaxExtents /\ k \in 0 .. e.numExtents - 1
      /\ e.extents \in [0 .. MaxExtents -> Extents]
      /\ InData(x) /\ x \in Extents
      /\ e \in AnyEntry
  BY BlockStoreAssumption DEF Shape, AnyEntry
<1>2. longer.extents = [e.extents EXCEPT ![k] = y] /\ longer.numExtents = e.numExtents
  BY <1>1 DEF AnyEntry
<1>3. Run(y) = Run(x) \cup {next}
  <2>1. y.startBlock = x.startBlock /\ y.length = x.length + 1
    BY <1>1 DEF Extents
  <2>2. x.startBlock \in Int /\ x.length \in Int /\ x.length >= 1
    BY <1>1 DEF InData, Extents
  <2>3. \A a, n \in Int : n >= 1 => a .. a + (n + 1) - 1 = (a .. a + n - 1) \cup {a + n - 1 + 1}
    OBVIOUS
  <2>4. QED
    BY <2>1, <2>2, <2>3 DEF Run, LastBlock
<1> HIDE DEF y, longer, next
<1>4. \A i \in 0 .. e.numExtents - 1 : longer.extents[i] = IF i = k THEN y ELSE e.extents[i]
  <2>1. 0 .. e.numExtents - 1 \subseteq 0 .. MaxExtents
    BY BlockStoreAssumption
  <2>2. QED
    BY <1>1, <1>2, <2>1
<1>5. BlocksOf(longer) = BlocksOf(e) \cup {next}
  <2>1. BlocksOf(longer) \subseteq BlocksOf(e) \cup {next}
    BY <1>2, <1>3, <1>4 DEF BlocksOf
  <2>2. next \in BlocksOf(longer)
    BY <1>1, <1>2, <1>3, <1>4 DEF BlocksOf
  <2>3. BlocksOf(e) \subseteq BlocksOf(longer)
    BY <1>2, <1>3, <1>4 DEF BlocksOf
  <2>4. QED
    BY <2>1, <2>2, <2>3
<1>6. ASSUME next \notin BlocksOf(e) PROVE Apart(longer)
  <2>1. \A i \in 0 .. e.numExtents - 1 : next \notin Run(e.extents[i])
    BY <1>6 DEF BlocksOf
  <2>2. ASSUME NEW i \in 0 .. e.numExtents - 1, i # k
        PROVE  Run(longer.extents[i]) \cap Run(longer.extents[k]) = {}
    <3>1. Run(e.extents[i]) \cap Run(x) = {}
      BY <1>1, <2>2 DEF Apart
    <3>2. longer.extents[i] = e.extents[i] /\ longer.extents[k] = y
      BY <1>1, <1>4, <2>2
    <3>3. QED
      BY <1>3, <2>1, <3>1, <3>2
  <2>3. ASSUME NEW i \in 0 .. e.numExtents - 1, NEW j \in 0 .. e.numExtents - 1,
               i # j, i # k, j # k
        PROVE  Run(longer.extents[i]) \cap Run(longer.extents[j]) = {}
    BY <1>4, <2>3 DEF Apart
  <2>4. QED
    BY <1>2, <2>2, <2>3 DEF Apart
<1>7. QED
  BY <1>5, <1>6 DEF longer, next

LEMMA GrowKeeps ==
    ASSUME TypeInv, Disjoint, Marked, Clean',
           NEW f \in Files, NEW size \in ContentSizes, Grow(f, size)
    PROVE  Disjoint' /\ Marked'
<1> DEFINE e == files[f]
           extra == Required(size) - Allocated(e)
           last == e.extents[e.numExtents - 1]
           longer == [e EXCEPT !.extents[e.numExtents - 1].length = @ + 1]
           next == LastBlock(last) + 1
<1>1. /\ e.numExtents \in 1 .. MaxExtents /\ Shape(e) /\ e.fileSize \in Nat
      /\ files \in [Files -> AnyEntry] /\ Apart(e)
  BY AccessibleEntry, DisjointFiles DEF Grow, TypeInv, EntriesShaped
<1>2. extra \in Int
  BY <1>1, CeilBlocksInt, BlockStoreAssumption DEF Required, Allocated
<1> HIDE DEF extra
<1>3. PICK S \in Allocation(extra) :
         /\ FATTABLE' = FATTABLE \cup S
         /\ LET adjacent == next \in LowestOf(S)
                e1 == IF adjacent THEN longer ELSE e
            IN  IF adjacent /\ Cardinality(S) = 1
                THEN FinishWrite(f, e1, size, extra, {})
                ELSE \E x \in MergedExtents(S) :
                       FinishWrite(f, WithExtent(e1, x), size, extra,
                                   If(adjacent \/ Run(x) # S, "merged"))
  BY DEF Grow, extra
<1> HIDE DEF longer, next
<1>4. S \subseteq FreeData
  BY DEF Allocation
<1>5. CASE next \in LowestOf(S) /\ Cardinality(S) = 1
  <2>1. next \in S
    BY <1>5 DEF LowestOf
  <2>2. Writes(f, longer, size, extra)
    BY <1>3, <1>5 DEF Writes
  <2>3. Shape(longer)
    BY <1>1, LongerShape DEF longer
  <2>4. BlocksOf(e) \subseteq FATTABLE /\ next \in FreeData /\ next \notin BlocksOf(e)
    BY <1>4, <2>1 DEF Marked, FreeData
  <2>5. BlocksOf(longer) = BlocksOf(e) \cup {next} /\ Apart(longer)
    BY <1>1, <2>4, LongerBlocks DEF longer, next
  <2>6. /\ BlocksOf(longer) \subseteq BlocksOf(e) \cup FreeData
        /\ BlocksOf(longer) \subseteq FATTABLE'
        /\ FATTABLE \subseteq FATTABLE' \cup BlocksOf(e)
    BY <1>3, <2>1, <2>4, <2>5
  <2>7. QED
    BY <1>1, <2>2, <2>3, <2>5, <2>6, FinishStored
<1>6. CASE ~(next \in LowestOf(S) /\ Cardinality(S) = 1)
  <2>1. PICK x \in MergedExtents(S) :
           FinishWrite(f, WithExtent(IF next \in LowestOf(S) THEN longer ELSE e, x),
                       size, extra, If(next \in LowestOf(S) \/ Run(x) # S, "merged"))
    BY <1>3, <1>6
  <2>2. next \notin LowestOf(S) /\ Run(x) = S
    BY <2>1, FinishBlames DEF Clean, If
  <2>3. Writes(f, WithExtent(e, x), size, extra)
    BY <2>1, <2>2, Mistakes DEF Writes, Flaws
  <2>4. InData(x)
    BY <1>2, MergedExtentStart
  <2>5. QED
    BY <1>1, <1>3, <1>4, <2>2, <2>3, <2>4, ExtendKeeps
<1>7. QED
  BY <1>5, <1>6

\* Deletion clears bits of extents of the file: the memory behind them is empty.
LEMMA ArrayBlocks ==
    ASSUME NEW e, Shape(e), e.numExtents \in 0 .. MaxExtents
    PROVE  ArrayBlocksOf(e) = BlocksOf(e)
<1>1. ASSUME NEW i \in 0 .. MaxExtents - 1, i \notin 0 .. e.numExtents - 1
      PROVE  Run(e.extents[i]) = {}
  <2>1. i \in e.numExtents .. MaxExtents
    BY <1>1, BlockStoreAssumption
  <2>2. e.extents[i] = NoExtent
    BY <2>1 DEF Shape
  <2>3. QED
    BY <2>2 DEF Run, NoExtent
<1>2. 0 .. e.numExtents - 1 \subseteq 0 .. MaxExtents - 1
  BY BlockStoreAssumption
<1>3. ArrayBlocksOf(e) \subseteq BlocksOf(e)
  BY <1>1 DEF ArrayBlocksOf, BlocksOf
<1>4. BlocksOf(e) \subseteq ArrayBlocksOf(e)
  BY <1>2 DEF ArrayBlocksOf, BlocksOf
<1>5. QED
  BY <1>3, <1>4

LEMMA DeleteKeeps ==
    ASSUME TypeInv, Disjoint, Marked, NEW f \in Files, Delete(f)
    PROVE  Disjoint' /\ Marked'
<1>1. files \in [Files -> AnyEntry]
  BY DEF TypeInv, EntriesShaped
<1>2. ArrayBlocksOf(files[f]) = BlocksOf(files[f])
  BY AccessibleEntry, ArrayBlocks, BlockStoreAssumption DEF Delete, TypeInv
<1>3. BlocksOf(NoFile) = {} /\ Apart(NoFile)
  BY DEF BlocksOf, Apart, NoFile
<1>4. /\ files' = [files EXCEPT ![f] = NoFile]
      /\ FATTABLE \subseteq FATTABLE' \cup BlocksOf(files[f])
  BY <1>2 DEF Delete
<1>5. QED
  BY <1>1, <1>3, <1>4, Stored

\* Mistakes are remembered.
LEMMA StaysClean ==
    ASSUME [Next]_spaceVars
    PROVE  flaws \subseteq flaws'
<1>1. ASSUME NEW f, NEW e, NEW size, NEW taken, Writes(f, e, size, taken)
      PROVE  flaws \subseteq flaws'
  BY <1>1 DEF Writes, FinishWrite, Blame
<1>2. ASSUME NEW f \in Files, NEW size \in CreateSizes, Create(f, size)
      PROVE  flaws \subseteq flaws'
  BY <1>2 DEF Create, Blame
<1>3. ASSUME NEW f \in Files, NEW size, AppendTo(f, size) \/ WriteTo(f, size)
      PROVE  flaws \subseteq flaws'
  BY <1>1, <1>3, WritesSomething
<1>4. QED
  BY <1>2, <1>3 DEF Next, Delete, spaceVars

KeepsBlocks == TypeInv /\ (Clean => Disjoint /\ Marked)

LEMMA StepKeeps ==
    ASSUME KeepsBlocks, [Next]_spaceVars
    PROVE  KeepsBlocks'
<1>1. TypeInv'
  BY StepType DEF KeepsBlocks
<1> SUFFICES ASSUME Clean' PROVE Disjoint' /\ Marked'
  BY <1>1 DEF KeepsBlocks
<1>2. TypeInv /\ Disjoint /\ Marked
  BY StaysClean DEF KeepsBlocks, Clean
<1>3. CASE UNCHANGED spaceVars
  BY <1>2, <1>3 DEF spaceVars, Disjoint, Marked
<1>4. ASSUME NEW f \in Files, NEW size \in ContentSizes, Overwrite(f, size)
      PROVE  Disjoint' /\ Marked'
  <2>1. Writes(f, files[f], size, 0) /\ UNCHANGED FATTABLE
    BY <1>4 DEF Overwrite, Writes
  <2>2. QED
    BY <1>2, <2>1, SameKeeps
<1>5. QED
  BY <1>2, <1>3, <1>4, CreateKeeps, AppendKeeps, GrowKeeps, ShrinkKeeps, DeleteKeeps
     DEF Next, WriteTo

LEMMA InitKeeps == Init => KeepsBlocks
<1> SUFFICES ASSUME Init PROVE KeepsBlocks
  OBVIOUS
<1>1. TypeInv
  BY InitType
<1>2. \A f \in Files : files[f] = NoFile
  BY DEF Init
<1>3. Disjoint /\ Marked
  BY <1>2 DEF Disjoint, Marked, NoFile, BlocksOf
<1>4. QED
  BY <1>1, <1>3 DEF KeepsBlocks

\* Whatever is created, appended, overwritten and deleted, with texts and files
\* of any size, on any disk: until an extent was merged or a bit torn off, no
\* block is in two files or twice in one.
THEOREM BlocksExclusive == Spec => []NoSharedBlocks
<1>1. KeepsBlocks => NoSharedBlocks
  BY DEF KeepsBlocks, NoSharedBlocks, Clean
<1>2. QED
  BY <1>1, InitKeeps, StepKeeps, PTL DEF Spec

\* Until then every block of a file is marked, so that none is given away.
THEOREM BlocksMarked == Spec => []FileBlocksMarked
<1>1. KeepsBlocks => FileBlocksMarked
  BY DEF KeepsBlocks, FileBlocksMarked, Clean
<1>2. QED
  BY <1>1, InitKeeps, StepKeeps, PTL DEF Spec

-----------------------------------------------------------------------------
(***************************************************************************)
(* The counter.  As long as no mistake has been made, superblock.freeBlocks *)
(* is the number of data blocks whose bit is clear: the numbers that the   *)
(* commands reckon from sizes are those of the bits they set and clear.    *)
(***************************************************************************)
LEMMA DataFinite == IsFiniteSet(DataBlocks) /\ IsFiniteSet(FreeData)
<1>1. DataStart \in Int /\ TotalBlocks - 1 \in Int
  BY BlockStoreAssumption
<1>2. IsFiniteSet(DataBlocks)
  BY <1>1, FS_Interval DEF DataBlocks
<1>3. QED
  BY <1>2, FS_Subset DEF FreeData

\* Marking blocks that were free takes their number from that of free blocks.
LEMMA TakeBlocks ==
    ASSUME NEW S, S \subseteq FreeData, FATTABLE' = FATTABLE \cup S
    PROVE  /\ Cardinality(FreeData') = Cardinality(FreeData) - Cardinality(S)
           /\ Cardinality(S) \in Nat
<1>1. FreeData' = FreeData \ S /\ FreeData \cap S = S
  BY DEF FreeData, DataBlocks
<1>2. IsFiniteSet(S) /\ Cardinality(FreeData \ S) = Cardinality(FreeData) - Cardinality(S)
  BY <1>1, DataFinite, FS_Difference, FS_Subset
<1>3. QED
  BY <1>1, <1>2, FS_CardinalityType

\* Clearing bits that were set adds them to the number of free blocks.
LEMMA GiveBack ==
    ASSUME NEW B, B \subseteq FATTABLE \cap DataBlocks, FATTABLE' = FATTABLE \ B
    PROVE  Cardinality(FreeData') = Cardinality(FreeData) + Cardinality(B)
<1>1. FreeData' = FreeData \cup B /\ FreeData \cap B = {}
  BY DEF FreeData, DataBlocks
<1>2. IsFiniteSet(B)
  BY DataFinite, FS_Subset
<1>3. Cardinality(FreeData) \in Nat /\ Cardinality(B) \in Nat
  BY <1>2, DataFinite, FS_CardinalityType
<1>4. Cardinality(FreeData \cap B) = 0
  BY <1>1, FS_EmptySet
<1>5. Cardinality(FreeData \cup B) = Cardinality(FreeData) + Cardinality(B) - Cardinality(FreeData \cap B)
  BY <1>2, DataFinite, FS_Union
<1>6. QED
  BY <1>1, <1>3, <1>4, <1>5

LEMMA KeepFree ==
    ASSUME UNCHANGED FATTABLE
    PROVE  Cardinality(FreeData') = Cardinality(FreeData)
BY DEF FreeData, DataBlocks

LEMMA RunSize ==
    ASSUME NEW x, InData(x)
    PROVE  IsFiniteSet(Run(x)) /\ Cardinality(Run(x)) = x.length
<1>1. x.startBlock \in Int /\ x.length \in Int /\ x.length >= 1
  BY DEF InData, Extents
<1>2. LastBlock(x) \in Int /\ LastBlock(x) - x.startBlock + 1 = x.length
  BY <1>1 DEF LastBlock
<1>3. Run(x) = x.startBlock .. LastBlock(x) /\ x.startBlock <= LastBlock(x)
  BY <1>1 DEF Run, LastBlock
<1>4. QED
  BY <1>1, <1>2, <1>3, FS_Interval

\* What deletion gives back to the counter is the number of blocks it frees.
LEMMA SumIsBlocks ==
    ASSUME NEW e, Shape(e), Apart(e), e.numExtents \in 0 .. MaxExtents
    PROVE  LengthSum(e) = Cardinality(ArrayBlocksOf(e))
<1>1. PICK s : IsSum(s, e) /\ LengthSum(e) = s[MaxExtents]
  BY SumExists
<1> DEFINE B(m) == UNION {Run(e.extents[i]) : i \in 0 .. m - 1}
           P == {m \in Nat : m <= MaxExtents =>
                                 IsFiniteSet(B(m)) /\ s[m] = Cardinality(B(m))}
<1>2. 0 \in P
  <2>1. B(0) = {}
    OBVIOUS
  <2>2. s[0] = 0
    BY <1>1, BlockStoreAssumption DEF IsSum, SumStep
  <2>3. QED
    BY <2>1, <2>2, FS_EmptySet
<1>3. ASSUME NEW m \in Nat, m \in P PROVE m + 1 \in P
  <2>1. SUFFICES ASSUME m + 1 <= MaxExtents
                 PROVE  IsFiniteSet(B(m + 1)) /\ s[m + 1] = Cardinality(B(m + 1))
    OBVIOUS
  <2>2. m + 1 \in 0 .. MaxExtents /\ m \in 0 .. MaxExtents /\ (m + 1) - 1 = m /\ m + 1 # 0
    BY <2>1, BlockStoreAssumption
  <2>3. s[m + 1] = s[m] + e.extents[m].length
    BY <1>1, <2>2 DEF IsSum, SumStep
  <2>4. IsFiniteSet(B(m)) /\ s[m] = Cardinality(B(m)) /\ Cardinality(B(m)) \in Nat
    <3>1. IsFiniteSet(B(m)) /\ s[m] = Cardinality(B(m))
      BY <1>3, <2>2
    <3> HIDE DEF B
    <3>2. QED
      BY <3>1, FS_CardinalityType
  <2>5. B(m + 1) = B(m) \cup Run(e.extents[m])
    <3>1. \A i \in 0 .. (m + 1) - 1 : i = m \/ i \in 0 .. m - 1
      OBVIOUS
    <3>2. m \in 0 .. (m + 1) - 1 /\ \A i \in 0 .. m - 1 : i \in 0 .. (m + 1) - 1
      OBVIOUS
    <3>3. QED
      BY <3>1, <3>2
  <2>6. CASE m \in 0 .. e.numExtents - 1
    <3>1. InData(e.extents[m])
      BY <2>6 DEF Shape
    <3>2. /\ IsFiniteSet(Run(e.extents[m]))
          /\ Cardinality(Run(e.extents[m])) = e.extents[m].length
          /\ e.extents[m].length \in Nat
      BY <3>1, RunSize DEF InData, Extents
    <3>3. ASSUME NEW i \in 0 .. m - 1
          PROVE  Run(e.extents[i]) \cap Run(e.extents[m]) = {}
      <4>1. i \in 0 .. e.numExtents - 1 /\ i # m
        BY <2>6
      <4>2. QED
        BY <4>1, <2>6 DEF Apart
    <3>4. B(m) \cap Run(e.extents[m]) = {}
      BY <3>3
    <3> DEFINE R == Run(e.extents[m])
    <3> HIDE DEF B, R
    <3>5. IsFiniteSet(B(m) \cup R) /\ Cardinality(B(m) \cup R) = Cardinality(B(m)) + Cardinality(R) - Cardinality(B(m) \cap R)
      BY <2>4, <3>2, FS_Union DEF R
    <3>6. Cardinality(B(m) \cap R) = 0
      BY <3>4, FS_EmptySet DEF R
    <3>7. Cardinality(B(m) \cup R) = s[m + 1]
      BY <2>3, <2>4, <3>2, <3>5, <3>6 DEF R
    <3>8. QED
      BY <2>5, <3>5, <3>7 DEF R
  <2>7. CASE m \in e.numExtents .. MaxExtents
    <3>1. e.extents[m] = NoExtent
      BY <2>7 DEF Shape
    <3>2. Run(e.extents[m]) = {} /\ e.extents[m].length = 0
      BY <3>1 DEF NoExtent, Run
    <3>3. B(m + 1) = B(m)
      BY <2>5, <3>2
    <3> HIDE DEF B
    <3>4. QED
      BY <2>3, <2>4, <3>2, <3>3
  <2>8. QED
    BY <2>2, <2>6, <2>7
<1> HIDE DEF P
<1>4. MaxExtents \in P
  BY <1>2, <1>3, NatInd, BlockStoreAssumption
<1>5. QED
  BY <1>1, <1>4, BlockStoreAssumption DEF P, ArrayBlocksOf

\* Without a mistake writeFileData takes from the counter what it reckoned.
LEMMA FinishCounts ==
    ASSUME NEW f, NEW e, NEW size, NEW taken \in Nat, NEW mistakes,
           FinishWrite(f, e, size, taken, mistakes), flaws' = {}, freeBlocks \in Int
    PROVE  freeBlocks' = freeBlocks - taken
<1>1. CASE freeBlocks' = freeBlocks - taken
  BY <1>1
<1>2. CASE UNCHANGED freeBlocks /\ Blame(mistakes \cup If(taken > 0, "uncounted"))
  <2>1. ~(taken > 0)
    BY <1>2 DEF Blame, If
  <2>2. QED
    BY <1>2, <2>1
<1>3. CASE Blame(mistakes \cup {"overrun"})
  BY <1>3 DEF Blame
<1>4. QED
  BY <1>1, <1>2, <1>3 DEF FinishWrite

CountsBlocks == KeepsBlocks /\ FreeCountExact

\* The blocks an operation takes and those it reckoned are as many.
LEMMA TakesCounted ==
    ASSUME CountsBlocks, flaws = {}, flaws' = {},
           NEW n \in Int, NEW S \in Allocation(n), FATTABLE' = FATTABLE \cup S,
           NEW f, NEW e, NEW size, NEW mistakes, FinishWrite(f, e, size, n, mistakes)
    PROVE  freeBlocks' = Cardinality(FreeData')
<1>1. S \subseteq FreeData /\ Cardinality(S) = n /\ n > 0
  BY DEF Allocation
<1>2. freeBlocks \in Int /\ freeBlocks = Cardinality(FreeData)
  BY DEF CountsBlocks, KeepsBlocks, TypeInv, FreeCountExact
<1>3. freeBlocks' = freeBlocks - n
  BY <1>1, <1>2, FinishCounts
<1>4. QED
  BY <1>1, <1>2, <1>3, TakeBlocks

LEMMA SameCounted ==
    ASSUME CountsBlocks, flaws = {}, flaws' = {}, UNCHANGED FATTABLE,
           NEW f, NEW e, NEW size, NEW mistakes, FinishWrite(f, e, size, 0, mistakes)
    PROVE  freeBlocks' = Cardinality(FreeData')
<1>1. freeBlocks \in Int /\ freeBlocks = Cardinality(FreeData)
  BY DEF CountsBlocks, KeepsBlocks, TypeInv, FreeCountExact
<1>2. freeBlocks' = freeBlocks - 0
  BY <1>1, FinishCounts
<1>3. QED
  BY <1>1, <1>2, KeepFree

LEMMA TailRange ==
    ASSUME NEW e, e.fileSize \in Nat
    PROVE  TailRoom(e) \in 0 .. BlockSize - 1
<1>1. \A n \in Int : n % BlockSize \in 0 .. BlockSize - 1
  BY BlockStoreAssumption
<1>2. BlockSize - (e.fileSize % BlockSize) \in Int
  BY <1>1, BlockStoreAssumption
<1>3. QED
  BY <1>1, <1>2 DEF TailRoom

LEMMA NoBlocks ==
    ASSUME NEW n \in Int, 0 - BlockSize < n, n <= 0
    PROVE  CeilBlocks(n) = 0
<1>1. n + BlockSize - 1 \in 0 .. BlockSize - 1 /\ BlockSize \in Nat \ {0}
  BY BlockStoreAssumption
<1>2. \A a \in 0 .. BlockSize - 1 : a \div BlockSize = 0
  BY <1>1
<1>3. QED
  BY <1>1, <1>2 DEF CeilBlocks

LEMMA AppendCounted ==
    ASSUME CountsBlocks, flaws = {}, flaws' = {},
           NEW f \in Files, NEW size \in ContentSizes, AppendTo(f, size)
    PROVE  freeBlocks' = Cardinality(FreeData')
<1> DEFINE e == files[f]
           required == CeilBlocks(size - TailRoom(e))
<1>1. TailRoom(e) \in 0 .. BlockSize - 1 /\ size \in Nat \ {0}
  BY AccessibleEntry, TailRange, BlockStoreAssumption
     DEF AppendTo, CountsBlocks, KeepsBlocks, TypeInv
<1>2. required \in Int
  BY <1>1, CeilBlocksInt
<1>3. ASSUME size <= TailRoom(e), UNCHANGED FATTABLE,
             FinishWrite(f, e, e.fileSize + size, required, {})
      PROVE  freeBlocks' = Cardinality(FreeData')
  <2>1. required = 0
    BY <1>1, <1>3, NoBlocks, BlockStoreAssumption
  <2>2. QED
    BY <1>3, <2>1, SameCounted
<1>4. ASSUME NEW S \in Allocation(required), FATTABLE' = FATTABLE \cup S,
             NEW x, NEW mistakes,
             FinishWrite(f, WithExtent(e, x), e.fileSize + size, required, mistakes)
      PROVE  freeBlocks' = Cardinality(FreeData')
  BY <1>2, <1>4, TakesCounted
<1>5. ~FinishWrite(f, e, e.fileSize + size, required, {"short"})
  BY FinishBlames
<1>6. QED
  BY <1>3, <1>4, <1>5 DEF AppendTo

LEMMA GrowCounted ==
    ASSUME CountsBlocks, flaws = {}, flaws' = {},
           NEW f \in Files, NEW size \in ContentSizes, Grow(f, size)
    PROVE  freeBlocks' = Cardinality(FreeData')
<1> DEFINE extra == Required(size) - Allocated(files[f])
<1>1. extra \in Int
  BY AccessibleEntry, CeilBlocksInt, BlockStoreAssumption
     DEF Grow, CountsBlocks, KeepsBlocks, TypeInv, Required, Allocated
<1> HIDE DEF extra
<1>2. \E S \in Allocation(extra) : \E e, mistakes :
         FATTABLE' = FATTABLE \cup S /\ FinishWrite(f, e, size, extra, mistakes)
  BY DEF Grow, extra
<1>3. QED
  BY <1>1, <1>2, TakesCounted

LEMMA ShrinkCounted ==
    ASSUME CountsBlocks, flaws = {}, flaws' = {},
           NEW f \in Files, NEW size \in ContentSizes, Shrink(f, size)
    PROVE  freeBlocks' = Cardinality(FreeData')
<1>1. PICK freed, e, more :
         /\ FATTABLE' = FATTABLE \ freed
         /\ FinishWrite(f, e, size, 0, more \cup If(freed # {}, "cut"))
  BY DEF Shrink
<1>2. freed = {}
  BY <1>1, FinishBlames DEF If
<1>3. QED
  BY <1>1, <1>2, SameCounted

LEMMA DeleteCounted ==
    ASSUME CountsBlocks, flaws = {}, NEW f \in Files, Delete(f)
    PROVE  freeBlocks' = Cardinality(FreeData')
<1>1. TypeInv /\ Disjoint /\ Marked /\ freeBlocks = Cardinality(FreeData)
  BY DEF CountsBlocks, KeepsBlocks, FreeCountExact, Clean
<1>2. Shape(files[f]) /\ Apart(files[f]) /\ files[f].numExtents \in 0 .. MaxExtents
  BY <1>1, AccessibleEntry, DisjointFiles, BlockStoreAssumption DEF Delete, TypeInv
<1>3. ArrayBlocksOf(files[f]) = BlocksOf(files[f])
  BY <1>2, ArrayBlocks
<1>4. BlocksOf(files[f]) \subseteq FATTABLE \cap DataBlocks
  <2>1. BlocksOf(files[f]) \subseteq FATTABLE /\ FATTABLE \subseteq Blocks
    BY <1>1 DEF Marked, TypeInv
  <2>2. \A b \in BlocksOf(files[f]) : b >= DataStart
    BY <1>1, ShapeSafe DEF TypeInv, MetadataNeverCovered
  <2>3. \A b \in Blocks : b >= DataStart => b \in DataBlocks
    BY BlockStoreAssumption DEF Blocks, DataBlocks
  <2>4. QED
    BY <2>1, <2>2, <2>3
<1>5. Cardinality(FreeData') = Cardinality(FreeData) + Cardinality(ArrayBlocksOf(files[f]))
  BY <1>3, <1>4, GiveBack DEF Delete
<1>6. freeBlocks' = freeBlocks + LengthSum(files[f])
  BY DEF Delete
<1>7. QED
  BY <1>1, <1>2, <1>5, <1>6, SumIsBlocks

LEMMA CreateCounted ==
    ASSUME CountsBlocks, flaws = {}, NEW f \in Files, NEW size, Create(f, size)
    PROVE  freeBlocks' = Cardinality(FreeData')
<1>1. PICK S \in Allocation(CeilBlocks(size)) :
         FATTABLE' = FATTABLE \cup S /\ freeBlocks' = freeBlocks - CeilBlocks(size)
  BY DEF Create
<1>2. S \subseteq FreeData /\ Cardinality(S) = CeilBlocks(size)
  BY DEF Allocation
<1>3. QED
  BY <1>1, <1>2, TakeBlocks DEF CountsBlocks, FreeCountExact

LEMMA StepCounted ==
    ASSUME CountsBlocks, [Next]_spaceVars
    PROVE  CountsBlocks'
<1>1. KeepsBlocks'
  BY StepKeeps DEF CountsBlocks
<1> SUFFICES ASSUME flaws' = {} PROVE freeBlocks' = Cardinality(FreeData')
  BY <1>1 DEF CountsBlocks, FreeCountExact
<1>2. flaws = {}
  BY StaysClean
<1>3. CASE UNCHANGED spaceVars
  <2>1. UNCHANGED <<FATTABLE, freeBlocks>> /\ freeBlocks = Cardinality(FreeData)
    BY <1>2, <1>3 DEF spaceVars, CountsBlocks, FreeCountExact
  <2>2. QED
    BY <2>1, KeepFree
<1>4. ASSUME NEW f \in Files, NEW size \in ContentSizes, Overwrite(f, size)
      PROVE  freeBlocks' = Cardinality(FreeData')
  BY <1>2, <1>4, SameCounted DEF Overwrite
<1>5. QED
  BY <1>2, <1>3, <1>4, CreateCounted, AppendCounted, GrowCounted, ShrinkCounted, DeleteCounted
     DEF Next, WriteTo

LEMMA InitCounted == Init => CountsBlocks
<1> SUFFICES ASSUME Init PROVE CountsBlocks
  OBVIOUS
<1>1. FreeData = DataStart .. TotalBlocks - 1 /\ freeBlocks = TotalBlocks - DataStart
  BY BlockStoreAssumption DEF Init, FreeData, DataBlocks
<1>2. Cardinality(DataStart .. TotalBlocks - 1) = TotalBlocks - DataStart
  <2>1. DataStart \in Int /\ TotalBlocks - 1 \in Int /\ DataStart <= TotalBlocks - 1
    BY BlockStoreAssumption
  <2>2. Cardinality(DataStart .. TotalBlocks - 1) = (TotalBlocks - 1) - DataStart + 1
    BY <2>1, FS_Interval
  <2>3. QED
    BY <2>2, BlockStoreAssumption
<1>3. QED
  BY <1>1, <1>2, InitKeeps DEF CountsBlocks, FreeCountExact

\* Whatever is created, appended, overwritten and deleted, until the first
\* mistake: the free counter is the number of data blocks whose bit is clear.
THEOREM FreeCounted == Spec => []FreeCountExact
<1>1. CountsBlocks => FreeCountExact
  BY DEF CountsBlocks
<1>2. QED
  BY <1>1, InitCounted, StepCounted, PTL DEF Spec

-----------------------------------------------------------------------------
(***************************************************************************)
(* The bytes.  A text is shorter than a block, so the first extent of a    *)
(* file is as long as the create that made it asked for, or one block once *)
(* the file was overwritten, and every later extent is one block that an   *)
(* append took.  While the disk is intact these blocks, in this order, are *)
(* just enough for the size of the file.                                   *)
(***************************************************************************)
BlockCount(e) == e.extents[0].length + e.numExtents - 1

BlockAt(e, q) ==
    IF q < e.extents[0].length THEN e.extents[0].startBlock + q
    ELSE e.extents[q - e.extents[0].length + 1].startBlock

\* n blocks hold size bytes and n - 1 do not.
Holds(n, size) == (n - 1) * BlockSize < size /\ size <= n * BlockSize

Form(e) ==
    /\ Shape(e) /\ FieldsIntact(e)
    /\ e.numExtents \in 1 .. MaxExtents
    /\ \A k \in 1 .. e.numExtents - 1 : e.extents[k].length = 1
    /\ Holds(BlockCount(e), e.fileSize)

StoresFiles ==
    /\ KeepsBlocks
    /\ Intact => \A f \in Files : Exists(f) => Form(files[f])

LEMMA IntactClean == Intact => Clean
BY DEF Intact, Clean

LEMMA StaysIntact ==
    ASSUME [Next]_spaceVars, Intact'
    PROVE  Intact /\ Clean'
BY StaysClean DEF Intact, Clean

\* Below m blocks lie the sizes less than m times the size of a block.
LEMMA FewerBlocks ==
    ASSUME NEW B \in Nat \ {0}, NEW m \in Int, NEW n \in Int, m * B < n * B
    PROVE  m < n
<1>1. ASSUME n <= m PROVE FALSE
  <2>1. PICK d \in Nat : m = n + d
    BY <1>1
  <2>2. m * B = n * B + d * B /\ d * B >= 0
    BY <2>1
  <2>3. n * B \in Int /\ d * B \in Int
    BY <2>1
  <2>4. QED
    BY <2>2, <2>3
<1>2. QED
  BY <1>1

\* The number of blocks that hold a size is the rounded quotient.
LEMMA CeilHolds ==
    ASSUME NEW size \in Int
    PROVE  Holds(CeilBlocks(size), size)
<1> DEFINE B == BlockSize
           c == (size + B - 1) \div B
<1>1. B \in Nat \ {0}
  BY BlockStoreAssumption
<1> HIDE DEF B
<1>2. c \in Int /\ c * B <= size + B - 1 /\ size + B - 1 < c * B + B
  <2>1. \A a \in Int : a \div B \in Int /\ (a \div B) * B <= a /\ a < (a \div B) * B + B
    BY <1>1
  <2>2. size + B - 1 \in Int
    BY <1>1
  <2>3. QED
    BY <2>1, <2>2
<1> HIDE DEF c
<1>3. c * B \in Int /\ (c - 1) * B = c * B - B
  BY <1>1, <1>2
<1>4. (c - 1) * B < size /\ size <= c * B
  BY <1>1, <1>2, <1>3
<1>5. QED
  BY <1>4 DEF Holds, CeilBlocks, c, B

LEMMA HoldsOnce ==
    ASSUME NEW m \in Int, NEW n \in Int, NEW size \in Int, Holds(m, size), Holds(n, size)
    PROVE  m = n
<1>1. BlockSize \in Nat \ {0}
  BY BlockStoreAssumption
<1>2. /\ m * BlockSize \in Int /\ n * BlockSize \in Int
      /\ (m - 1) * BlockSize \in Int /\ (n - 1) * BlockSize \in Int
  BY <1>1
<1>3. (m - 1) * BlockSize < n * BlockSize /\ (n - 1) * BlockSize < m * BlockSize
  BY <1>2 DEF Holds
<1>4. m - 1 < n /\ n - 1 < m
  BY <1>1, <1>3, FewerBlocks
<1>5. QED
  BY <1>4

LEMMA OneHolds ==
    ASSUME NEW size \in 1 .. BlockSize
    PROVE  Holds(1, size) /\ CeilBlocks(size) = 1
<1>1. BlockSize \in Nat \ {0}
  BY BlockStoreAssumption
<1>2. (1 - 1) * BlockSize = 0 /\ 1 * BlockSize = BlockSize
  BY <1>1
<1>3. Holds(1, size)
  BY <1>1, <1>2 DEF Holds
<1>4. QED
  BY <1>3, CeilHolds, CeilBlocksInt, HoldsOnce

\* The number of blocks of a file, from its extents and from its size.
LEMMA FormCount ==
    ASSUME NEW e, Form(e)
    PROVE  /\ e.fileSize \in Nat /\ e.extents[0] \in Extents
           /\ e.extents[0].length \in Nat \ {0}
           /\ e.numExtents \in Nat \ {0}
           /\ BlockCount(e) \in Nat \ {0}
           /\ CeilBlocks(e.fileSize) = BlockCount(e)
<1>1. e.fileSize \in Nat /\ e.numExtents \in 1 .. MaxExtents /\ InData(e.extents[0])
  BY BlockStoreAssumption DEF Form, Shape, AnyEntry
<1>2. e.extents[0] \in Extents /\ e.extents[0].length \in Nat \ {0}
  BY <1>1 DEF InData, Extents
<1>3. BlockCount(e) \in Nat \ {0} /\ e.numExtents \in Nat \ {0}
  <2>1. e.numExtents \in Nat \ {0}
    BY <1>1, BlockStoreAssumption
  <2>2. \A a, b \in Nat \ {0} : a + b - 1 \in Nat \ {0}
    OBVIOUS
  <2>3. QED
    BY <1>2, <2>1, <2>2 DEF BlockCount
<1>4. CeilBlocks(e.fileSize) = BlockCount(e)
  BY <1>1, <1>3, CeilHolds, CeilBlocksInt, HoldsOnce DEF Form
<1>5. QED
  BY <1>1, <1>2, <1>3, <1>4

\* The room behind the last byte of a file.
LEMMA TailIs ==
    ASSUME NEW n \in Nat \ {0}, NEW e, e.fileSize \in Nat, Holds(n, e.fileSize)
    PROVE  TailRoom(e) = n * BlockSize - e.fileSize
<1> DEFINE q == n - 1
           r == e.fileSize - q * BlockSize
<1>1. q \in Nat /\ n = q + 1 /\ n \in Int /\ BlockSize \in Nat \ {0}
  BY BlockStoreAssumption
<1>2. n * BlockSize = q * BlockSize + BlockSize /\ q * BlockSize \in Nat
  BY <1>1
<1>3. r \in 1 .. BlockSize /\ e.fileSize = q * BlockSize + r
  BY <1>1, <1>2 DEF Holds
<1> HIDE DEF r
<1>4. CASE r = BlockSize
  <2>1. e.fileSize = n * BlockSize + 0
    BY <1>2, <1>3, <1>4
  <2>2. e.fileSize % BlockSize = 0
    <3>1. 0 \in 0 .. BlockSize - 1
      BY <1>1
    <3>2. QED
      BY <1>1, <2>1, <3>1
  <2>3. (BlockSize - 0) % BlockSize = 0
    BY <1>1
  <2>4. TailRoom(e) = 0
    BY <1>1, <2>2, <2>3 DEF TailRoom
  <2>5. QED
    BY <1>1, <2>1, <2>4
<1>5. CASE r < BlockSize
  <2>1. e.fileSize % BlockSize = r
    <3>1. r \in 0 .. BlockSize - 1
      BY <1>1, <1>3, <1>5
    <3> HIDE DEF q
    <3>2. QED
      BY <1>1, <1>3, <3>1
  <2> DEFINE t == BlockSize - r
  <2>2. t \in 0 .. BlockSize - 1
    BY <1>1, <1>3, <1>5
  <2>3. t % BlockSize = t
    BY <1>1, <2>2
  <2>4. TailRoom(e) = t
    BY <2>1, <2>3 DEF TailRoom
  <2>5. t = n * BlockSize - e.fileSize
    BY <1>1, <1>2, <1>3
  <2>6. QED
    BY <2>4, <2>5
<1>6. QED
  BY <1>1, <1>3, <1>4, <1>5

\* A terminal's text, where it overwrites and where it is appended.
LEMMA TextSize ==
    ASSUME NEW size \in ContentSizes
    PROVE  size \in 1 .. BlockSize - 1 /\ CeilBlocks(size) = 1
<1>1. size \in 1 .. BlockSize - 1
  BY TerminalTexts
<1>2. QED
  BY <1>1, OneHolds, BlockStoreAssumption

LEMMA AppendRequires ==
    ASSUME NEW e, e.fileSize \in Nat, NEW size \in ContentSizes, size > TailRoom(e)
    PROVE  CeilBlocks(size - TailRoom(e)) = 1
<1>1. TailRoom(e) \in 0 .. BlockSize - 1 /\ size \in 1 .. BlockSize - 1
  BY TailRange, TextSize
<1>2. size - TailRoom(e) \in 1 .. BlockSize
  BY <1>1, BlockStoreAssumption
<1>3. QED
  BY <1>2, OneHolds

\* How many blocks an extent has that is what was allocated for it.
LEMMA ExtentLength ==
    ASSUME NEW n \in Int, NEW S \in Allocation(n), NEW x \in MergedExtents(S), Run(x) = S
    PROVE  InData(x) /\ x.length = n
<1>1. InData(x)
  BY MergedExtentStart
<1>2. Cardinality(S) = n
  BY DEF Allocation
<1>3. QED
  BY <1>1, <1>2, RunSize

\* An intact write stores its entry, and the entry is intact.
LEMMA FinishStores ==
    ASSUME files \in [Files -> AnyEntry], Intact',
           NEW f \in Files, NEW e, NEW size, NEW taken, NEW mistakes,
           FinishWrite(f, e, size, taken, mistakes)
    PROVE  /\ FieldsIntact(e) /\ mistakes \cap {"merged", "torn", "short", "overrun"} = {}
           /\ files' = [files EXCEPT ![f] = [e EXCEPT !.fileSize = size]]
<1>1. FieldsIntact(e)
  <2>1. SUFFICES ASSUME ~FieldsIntact(e) PROVE FALSE
    OBVIOUS
  <2>2. Blame(mistakes \cup {"overrun"})
    BY <2>1 DEF FinishWrite
  <2>3. QED
    BY <2>2 DEF Blame, Intact
<1>2. mistakes \cap {"merged", "torn", "short", "overrun"} = {}
  BY FinishBlames DEF Intact
<1>3. QED
  BY <1>1, <1>2 DEF FinishWrite

\* createFile makes one extent of the blocks it was given.
LEMMA CreateForms ==
    ASSUME StoresFiles, Intact', NEW f \in Files, NEW size \in CreateSizes, Create(f, size)
    PROVE  \E S \in Allocation(CeilBlocks(size)) : \E s :
               /\ FATTABLE' = FATTABLE \cup S
               /\ files' = [files EXCEPT ![f] = s]
               /\ Form(s) /\ s.fileSize = size /\ s.numExtents = 1 /\ Run(s.extents[0]) = S
<1>1. PICK S \in Allocation(CeilBlocks(size)) :
         /\ FATTABLE' = FATTABLE \cup S
         /\ \E x \in MergedExtents(S) :
               /\ files' = [files EXCEPT ![f] = [WithExtent(NoFile, x) EXCEPT !.fileSize = size]]
               /\ Blame(If(Run(x) # S, "merged"))
  BY DEF Create
<1>2. PICK x \in MergedExtents(S) :
         /\ files' = [files EXCEPT ![f] = [WithExtent(NoFile, x) EXCEPT !.fileSize = size]]
         /\ Blame(If(Run(x) # S, "merged"))
  BY <1>1
<1>3. Run(x) = S
  BY <1>2 DEF Intact, Blame, If
<1>4. size \in Nat \ {0} /\ CeilBlocks(size) \in Int
  BY CeilBlocksInt, BlockStoreAssumption
<1>5. InData(x) /\ x.length = CeilBlocks(size)
  BY <1>3, <1>4, ExtentLength
<1> DEFINE w == WithExtent(NoFile, x)
           s == [w EXCEPT !.fileSize = size]
<1>6. Shape(w) /\ w.numExtents = 1 /\ w.extents = [NoFile.extents EXCEPT ![0] = x] /\ w \in AnyEntry
  <2>1. NoFile.numExtents = 0 /\ 0 \in 0 .. MaxExtents
    BY BlockStoreAssumption DEF NoFile
  <2>2. Shape(w)
    BY <1>5, <2>1, NoFileShape, WithExtentShape
  <2>3. w.numExtents = 1 /\ w.extents = [NoFile.extents EXCEPT ![0] = x]
    BY DEF WithExtent, NoFile
  <2>4. QED
    BY <2>2, <2>3 DEF Shape
<1> HIDE DEF w
<1>7. Shape(s) /\ s.numExtents = 1 /\ s.extents = w.extents /\ s.fileSize = size
  BY <1>4, <1>6, ResizeShape DEF AnyEntry
<1> HIDE DEF s
<1>8. w.extents[0] = x /\ w.extents[MaxExtents] = NoExtent
  BY <1>6, BlockStoreAssumption DEF NoFile
<1>9. s.extents[0] = x /\ FieldsIntact(s)
  BY <1>7, <1>8 DEF FieldsIntact
<1>10. BlockCount(s) = CeilBlocks(size)
  BY <1>4, <1>5, <1>7, <1>9 DEF BlockCount
<1>11. Form(s)
  BY <1>4, <1>7, <1>9, <1>10, CeilHolds, BlockStoreAssumption DEF Form
<1>12. files' = [files EXCEPT ![f] = s]
  BY <1>2 DEF s, w
<1>13. QED
  BY <1>1, <1>3, <1>7, <1>9, <1>11, <1>12

\* The entry of an accessible file.
LEMMA FileForm ==
    ASSUME StoresFiles, Intact, NEW f \in Files, Accessible(f)
    PROVE  /\ Form(files[f]) /\ files[f] \in AnyEntry /\ files[f].fileSize \in Nat
           /\ files \in [Files -> AnyEntry]
BY FormCount DEF StoresFiles, KeepsBlocks, TypeInv, EntriesShaped, Accessible

\* Where the text fits into the last block, writeFileData keeps the extents.
LEMMA AppendInto ==
    ASSUME NEW e, Form(e), NEW size \in Nat, size <= TailRoom(e)
    PROVE  LET s == [e EXCEPT !.fileSize = e.fileSize + size]
           IN  /\ Form(s) /\ s.fileSize = e.fileSize + size
               /\ s.extents = e.extents /\ s.numExtents = e.numExtents
<1> DEFINE total == e.fileSize + size
           s == [e EXCEPT !.fileSize = e.fileSize + size]
           n == BlockCount(e)
<1>1. e.fileSize \in Nat /\ n \in Nat \ {0} /\ Holds(n, e.fileSize) /\ BlockSize \in Nat \ {0}
  BY FormCount, BlockStoreAssumption DEF Form
<1>2. TailRoom(e) = n * BlockSize - e.fileSize
  BY <1>1, TailIs
<1> HIDE DEF n
<1>3. Holds(n, total)
  <2>1. n * BlockSize \in Int /\ (n - 1) * BlockSize \in Int
    BY <1>1
  <2>2. QED
    BY <1>1, <1>2, <2>1 DEF Holds
<1>4. Shape(s) /\ s.fileSize = total /\ s.extents = e.extents /\ s.numExtents = e.numExtents
  <2>1. e \in AnyEntry /\ total \in Nat /\ Shape(e)
    BY <1>1 DEF Form, Shape
  <2>2. QED
    BY <2>1, ResizeShape DEF AnyEntry
<1> HIDE DEF s, total
<1>5. BlockCount(s) = n
  BY <1>4 DEF BlockCount, n
<1>6. Form(s)
  BY <1>3, <1>4, <1>5 DEF Form, FieldsIntact
<1>7. QED
  BY <1>4, <1>6 DEF s, total

\* Otherwise it adds an extent of one block.
LEMMA AppendOnto ==
    ASSUME NEW e, Form(e), NEW size \in 1 .. BlockSize - 1, size > TailRoom(e),
           NEW x, InData(x), x.length = 1, FieldsIntact(WithExtent(e, x))
    PROVE  LET s == [WithExtent(e, x) EXCEPT !.fileSize = e.fileSize + size]
           IN  /\ Form(s) /\ s.fileSize = e.fileSize + size
               /\ s.numExtents = e.numExtents + 1
               /\ s.extents[e.numExtents] = x
               /\ \A k \in 0 .. e.numExtents - 1 : s.extents[k] = e.extents[k]
<1> DEFINE total == e.fileSize + size
           w == WithExtent(e, x)
           s == [w EXCEPT !.fileSize = total]
           n == BlockCount(e)
<1>1. /\ e.fileSize \in Nat /\ n \in Nat \ {0} /\ Holds(n, e.fileSize)
      /\ BlockSize \in Nat \ {0} /\ e.numExtents \in 1 .. MaxExtents /\ Shape(e)
  BY FormCount, BlockStoreAssumption DEF Form
<1>2. TailRoom(e) = n * BlockSize - e.fileSize
  BY <1>1, TailIs
<1>3. Shape(w)
  BY <1>1, WithExtentShape, BlockStoreAssumption
<1>4. /\ w.numExtents = e.numExtents + 1
      /\ w.extents[e.numExtents] = x
      /\ \A k \in 0 .. e.numExtents - 1 : w.extents[k] = e.extents[k]
  <2>1. w.numExtents = e.numExtents + 1 /\ w.extents = [e.extents EXCEPT ![e.numExtents] = x]
    BY <1>1 DEF WithExtent, Shape, AnyEntry
  <2>2. e.extents \in [0 .. MaxExtents -> Extents] /\ 0 .. e.numExtents - 1 \subseteq 0 .. MaxExtents
    BY <1>1, BlockStoreAssumption DEF Shape, AnyEntry
  <2> HIDE DEF w
  <2>3. e.numExtents \in 0 .. MaxExtents /\ e.numExtents \notin 0 .. e.numExtents - 1
    BY <1>1, BlockStoreAssumption
  <2>4. QED
    BY <2>1, <2>2, <2>3
<1>5. w.numExtents \in 1 .. MaxExtents
  <2>1. w.numExtents \in 0 .. MaxExtents
    BY <1>3, IntactHasRoom
  <2>2. QED
    BY <1>1, <1>4, <2>1, BlockStoreAssumption
<1> HIDE DEF w, n
<1>6. Holds(n + 1, total)
  <2>1. n * BlockSize \in Int /\ (n + 1) * BlockSize = n * BlockSize + BlockSize /\ (n + 1) - 1 = n
    BY <1>1
  <2>2. size > n * BlockSize - e.fileSize /\ size \in Int /\ size < BlockSize
    BY <1>1, <1>2
  <2>3. n * BlockSize < total /\ total <= n * BlockSize + BlockSize
    BY <1>1, <2>1, <2>2 DEF Holds
  <2>4. QED
    BY <2>1, <2>3 DEF Holds
<1>7. Shape(s) /\ s.fileSize = total /\ s.extents = w.extents /\ s.numExtents = w.numExtents
  <2>1. w \in AnyEntry /\ total \in Nat
    BY <1>1, <1>3 DEF Shape
  <2>2. QED
    BY <1>3, <2>1, ResizeShape DEF AnyEntry
<1> HIDE DEF s, total
<1>8. BlockCount(s) = n + 1
  <2>1. s.extents[0] = e.extents[0] /\ s.numExtents = e.numExtents + 1
    BY <1>1, <1>4, <1>7
  <2>2. e.extents[0].length \in Nat /\ e.numExtents \in Nat
    BY FormCount
  <2>3. QED
    BY <2>1, <2>2 DEF BlockCount, n
<1>9. \A k \in 1 .. s.numExtents - 1 : s.extents[k].length = 1
  <2>1. ASSUME NEW k \in 1 .. s.numExtents - 1 PROVE s.extents[k].length = 1
    <3>1. CASE k = e.numExtents
      BY <1>4, <1>7, <3>1
    <3>2. CASE k # e.numExtents
      <4>1. k \in 1 .. e.numExtents - 1 /\ k \in 0 .. e.numExtents - 1
        BY <1>1, <1>4, <1>7, <2>1, <3>2
      <4>2. QED
        BY <1>4, <1>7, <4>1 DEF Form
    <3>3. QED
      BY <3>1, <3>2
  <2>2. QED
    BY <2>1
<1>10. FieldsIntact(s)
  BY <1>7 DEF FieldsIntact, w
<1>11. Form(s)
  BY <1>5, <1>6, <1>7, <1>8, <1>9, <1>10 DEF Form
<1>12. QED
  BY <1>4, <1>7, <1>11 DEF s, total, w

\* What an intact append makes of the entry and the bitmap.
AppendStores(f, size, s) ==
    LET e == files[f]
    IN  /\ files' = [files EXCEPT ![f] = s]
        /\ Form(s) /\ s.fileSize = e.fileSize + size
        /\ \A k \in 0 .. e.numExtents - 1 : s.extents[k] = e.extents[k]
        /\ \/ size <= TailRoom(e) /\ UNCHANGED FATTABLE /\ s.numExtents = e.numExtents
           \/ /\ size > TailRoom(e) /\ s.numExtents = e.numExtents + 1
              /\ s.extents[e.numExtents].length = 1
              /\ \E S \in Allocation(1) :
                     /\ FATTABLE' = FATTABLE \cup S
                     /\ Run(s.extents[e.numExtents]) = S

LEMMA AppendForms ==
    ASSUME StoresFiles, Intact, Intact',
           NEW f \in Files, NEW size \in ContentSizes, AppendTo(f, size)
    PROVE  \E s : AppendStores(f, size, s)
<1> DEFINE e == files[f]
           required == CeilBlocks(size - TailRoom(e))
           total == e.fileSize + size
<1>1. Form(e) /\ e \in AnyEntry /\ e.fileSize \in Nat /\ files \in [Files -> AnyEntry]
  BY FileForm DEF AppendTo
<1>2. size \in 1 .. BlockSize - 1 /\ size \in Nat
  BY TextSize
<1>3. ASSUME size <= TailRoom(e), UNCHANGED FATTABLE, FinishWrite(f, e, total, required, {})
      PROVE  \E s : AppendStores(f, size, s)
  <2> DEFINE s == [e EXCEPT !.fileSize = e.fileSize + size]
  <2>1. files' = [files EXCEPT ![f] = s]
    BY <1>1, <1>3, FinishStores
  <2>2. Form(s) /\ s.fileSize = total /\ s.extents = e.extents /\ s.numExtents = e.numExtents
    BY <1>1, <1>2, <1>3, AppendInto
  <2> HIDE DEF s
  <2>3. AppendStores(f, size, s)
    BY <1>3, <2>1, <2>2 DEF AppendStores
  <2>4. QED
    BY <2>3
<1>4. ASSUME size > TailRoom(e), NEW S \in Allocation(required), FATTABLE' = FATTABLE \cup S,
             NEW x \in MergedExtents(S),
             FinishWrite(f, WithExtent(e, x), total, required, If(Run(x) # S, "merged"))
      PROVE  \E s : AppendStores(f, size, s)
  <2>1. required = 1
    BY <1>1, <1>4, AppendRequires
  <2>2. FieldsIntact(WithExtent(e, x)) /\ Run(x) = S
        /\ files' = [files EXCEPT ![f] = [WithExtent(e, x) EXCEPT !.fileSize = total]]
    BY <1>1, <1>4, FinishStores DEF If
  <2>3. InData(x) /\ x.length = 1 /\ S \in Allocation(1)
    BY <1>4, <2>1, <2>2, ExtentLength
  <2> DEFINE s == [WithExtent(e, x) EXCEPT !.fileSize = e.fileSize + size]
  <2>4. /\ Form(s) /\ s.fileSize = total /\ s.numExtents = e.numExtents + 1
        /\ s.extents[e.numExtents] = x
        /\ \A k \in 0 .. e.numExtents - 1 : s.extents[k] = e.extents[k]
    BY <1>1, <1>2, <1>4, <2>2, <2>3, AppendOnto
  <2>5. files' = [files EXCEPT ![f] = s]
    BY <2>2
  <2> HIDE DEF s
  <2>6. AppendStores(f, size, s)
    BY <1>4, <2>2, <2>3, <2>4, <2>5 DEF AppendStores
  <2>7. QED
    BY <2>6
<1>5. ~FinishWrite(f, e, total, required, {"short"})
  BY <1>1, FinishStores
<1> HIDE DEF required
<1>6. \/ size <= TailRoom(e) /\ UNCHANGED FATTABLE /\ FinishWrite(f, e, total, required, {})
      \/ size > TailRoom(e) /\ \E S \in Allocation(required) :
             /\ FATTABLE' = FATTABLE \cup S
             /\ \E x \in MergedExtents(S) :
                    FinishWrite(f, WithExtent(e, x), total, required, If(Run(x) # S, "merged"))
  BY <1>5 DEF AppendTo, required
<1>7. QED
  BY <1>3, <1>4, <1>6

\* What an intact overwrite makes of them: one extent of one block, the first
\* block the file had, and no bit is set.
WriteStores(f, size, s) ==
    /\ files' = [files EXCEPT ![f] = s]
    /\ Form(s) /\ s.fileSize = size /\ s.numExtents = 1
    /\ s.extents[0].startBlock = files[f].extents[0].startBlock
    /\ s.extents[0].length = 1
    /\ FATTABLE' \subseteq FATTABLE

LEMMA OverwriteForms ==
    ASSUME StoresFiles, Intact, Intact',
           NEW f \in Files, NEW size \in ContentSizes, Overwrite(f, size)
    PROVE  \E s : WriteStores(f, size, s)
<1> DEFINE e == files[f]
           s == [e EXCEPT !.fileSize = size]
<1>1. Form(e) /\ e \in AnyEntry /\ files \in [Files -> AnyEntry]
  BY FileForm DEF Overwrite
<1>2. size \in 1 .. BlockSize - 1 /\ size \in Nat /\ Holds(1, size) /\ CeilBlocks(size) = 1
  BY TextSize, OneHolds, BlockStoreAssumption
<1>3. files' = [files EXCEPT ![f] = s]
  BY <1>1, FinishStores DEF Overwrite
<1>4. BlockCount(e) = 1
  BY <1>1, <1>2, FormCount DEF Overwrite, Required, Allocated
<1>5. e.numExtents = 1 /\ e.extents[0].length = 1
  <2>1. e.numExtents \in Nat \ {0} /\ e.extents[0].length \in Nat \ {0}
    BY <1>1, FormCount
  <2>2. QED
    BY <1>4, <2>1 DEF BlockCount
<1>6. Shape(s) /\ s.fileSize = size /\ s.extents = e.extents /\ s.numExtents = e.numExtents
  BY <1>1, <1>2, ResizeShape DEF Form, AnyEntry
<1> HIDE DEF s
<1>7. Form(s)
  <2>1. BlockCount(s) = 1
    BY <1>4, <1>6 DEF BlockCount
  <2>2. QED
    BY <1>1, <1>2, <1>6, <2>1 DEF Form, FieldsIntact
<1>8. WriteStores(f, size, s)
  BY <1>3, <1>5, <1>6, <1>7 DEF WriteStores, Overwrite
<1>9. QED
  BY <1>8

LEMMA ShrinkForms ==
    ASSUME StoresFiles, Intact, Intact',
           NEW f \in Files, NEW size \in ContentSizes, Shrink(f, size)
    PROVE  \E s : WriteStores(f, size, s)
<1> DEFINE e == files[f]
           first == e.extents[0]
           L == first.length
           required == Required(size)
           rounds == (required + L - 1) \div L
           surplus == rounds * L - required
           short == [first EXCEPT !.length = @ - surplus]
           w == Shortened(e, short)
           s == [w EXCEPT !.fileSize = size]
<1>1. Form(e) /\ e \in AnyEntry /\ files \in [Files -> AnyEntry]
  BY FileForm DEF Shrink
<1>2. size \in 1 .. BlockSize - 1 /\ size \in Nat /\ Holds(1, size) /\ CeilBlocks(size) = 1
  BY TextSize, OneHolds, BlockStoreAssumption
<1>3. PICK freed, mistakes :
         /\ FATTABLE' = FATTABLE \ freed
         /\ FinishWrite(f, w, size, 0, mistakes)
  BY DEF Shrink
<1>4. files' = [files EXCEPT ![f] = s] /\ FieldsIntact(w)
  BY <1>1, <1>3, FinishStores
<1>5. required = 1 /\ L \in Nat \ {0} /\ first \in Extents
  BY <1>1, <1>2, FormCount DEF Required
<1>6. surplus = L - 1
  <2>1. \A l \in Nat \ {0} : (1 + l - 1) \div l = 1
    OBVIOUS
  <2> HIDE DEF L, required
  <2>2. rounds = 1
    BY <1>5, <2>1
  <2>3. QED
    BY <1>5, <2>2
<1> HIDE DEF surplus
<1>7. short.length = 1 /\ short.startBlock = first.startBlock /\ short \in Extents
  BY <1>5, <1>6 DEF Extents
<1>8. InData(short)
  <2>1. InData(first)
    BY <1>1, BlockStoreAssumption DEF Form, Shape
  <2>2. QED
    BY <1>7, <2>1 DEF InData
<1> HIDE DEF short
<1>9. w.numExtents = 1 /\ w.extents[0] = short /\ Shape(w)
  <2> DEFINE y == [i \in 0 .. MaxExtents |-> IF i = 0 THEN short ELSE NoExtent]
  <2>1. /\ y \in [0 .. MaxExtents -> Extents] /\ 1 \in 0 .. MaxExtents + 1
        /\ y[0] = short /\ \A i \in 1 .. MaxExtents : y[i] = NoExtent
    BY <1>7, BlockStoreAssumption DEF NoExtent, Extents
  <2>2. w = [e EXCEPT !.numExtents = 1, !.extents = y]
    BY DEF Shortened
  <2> HIDE DEF w, y
  <2>3. w \in AnyEntry /\ w.extents = y /\ w.numExtents = 1
    BY <1>1, <2>1, <2>2 DEF AnyEntry
  <2>4. /\ \A i \in 0 .. w.numExtents - 1 : InData(w.extents[i])
        /\ \A i \in w.numExtents .. MaxExtents : w.extents[i] = NoExtent
    BY <1>8, <2>1, <2>3, BlockStoreAssumption
  <2>5. QED
    BY <2>1, <2>3, <2>4 DEF Shape
<1> HIDE DEF w
<1>10. Shape(s) /\ s.fileSize = size /\ s.extents = w.extents /\ s.numExtents = w.numExtents
  BY <1>2, <1>9, ResizeShape DEF Shape, AnyEntry
<1> HIDE DEF s
<1>11. Form(s)
  <2>1. BlockCount(s) = 1
    BY <1>7, <1>9, <1>10 DEF BlockCount
  <2>2. 1 \in 1 .. MaxExtents
    BY BlockStoreAssumption
  <2>3. QED
    BY <1>2, <1>4, <1>9, <1>10, <2>1, <2>2 DEF Form, FieldsIntact
<1>12. WriteStores(f, size, s)
  BY <1>3, <1>4, <1>7, <1>9, <1>10, <1>11 DEF WriteStores
<1>13. QED
  BY <1>12

LEMMA WriteForms ==
    ASSUME StoresFiles, Intact, Intact',
           NEW f \in Files, NEW size \in ContentSizes, WriteTo(f, size)
    PROVE  \E s : WriteStores(f, size, s)
<1>1. ASSUME Grow(f, size) PROVE FALSE
  <2>1. Form(files[f])
    BY <1>1, FileForm DEF Grow
  <2>2. Required(size) = 1 /\ Allocated(files[f]) \in Nat \ {0}
    BY <2>1, TextSize, FormCount DEF Required, Allocated
  <2>3. Required(size) - Allocated(files[f]) > 0
    BY <1>1 DEF Grow
  <2>4. QED
    BY <2>2, <2>3
<1>2. QED
  BY <1>1, OverwriteForms, ShrinkForms DEF WriteTo

LEMMA StoreForm ==
    ASSUME StoresFiles, Intact, NEW f \in Files, NEW s, Form(s),
           files' = [files EXCEPT ![f] = s]
    PROVE  \A g \in Files : Exists(g)' => Form(files'[g])
<1>1. \A g \in Files : files'[g] = IF g = f THEN s ELSE files[g]
  BY DEF StoresFiles, KeepsBlocks, TypeInv, EntriesShaped
<1>2. \A g \in Files : files[g].numExtents > 0 => Form(files[g])
  BY DEF StoresFiles, Exists
<1>3. QED
  BY <1>1, <1>2 DEF Exists

LEMMA StepForms ==
    ASSUME StoresFiles, [Next]_spaceVars
    PROVE  StoresFiles'
<1>1. KeepsBlocks'
  BY StepKeeps DEF StoresFiles
<1> SUFFICES ASSUME Intact' PROVE \A f \in Files : Exists(f)' => Form(files'[f])
  BY <1>1 DEF StoresFiles, Exists
<1>2. Intact
  BY StaysIntact
<1>3. CASE UNCHANGED spaceVars
  BY <1>2, <1>3 DEF spaceVars, StoresFiles, Exists
<1>4. ASSUME NEW f \in Files, NEW size \in CreateSizes, Create(f, size)
      PROVE  \A g \in Files : Exists(g)' => Form(files'[g])
  <2>1. PICK s : Form(s) /\ files' = [files EXCEPT ![f] = s]
    BY <1>4, CreateForms
  <2>2. QED
    BY <1>2, <2>1, StoreForm
<1>5. ASSUME NEW f \in Files, NEW size \in ContentSizes, AppendTo(f, size)
      PROVE  \A g \in Files : Exists(g)' => Form(files'[g])
  <2>1. PICK s : Form(s) /\ files' = [files EXCEPT ![f] = s]
    BY <1>2, <1>5, AppendForms DEF AppendStores
  <2>2. QED
    BY <1>2, <2>1, StoreForm
<1>6. ASSUME NEW f \in Files, NEW size \in ContentSizes, WriteTo(f, size)
      PROVE  \A g \in Files : Exists(g)' => Form(files'[g])
  <2>1. PICK s : Form(s) /\ files' = [files EXCEPT ![f] = s]
    BY <1>2, <1>6, WriteForms DEF WriteStores
  <2>2. QED
    BY <1>2, <2>1, StoreForm
<1>7. ASSUME NEW f \in Files, Delete(f)
      PROVE  \A g \in Files : Exists(g)' => Form(files'[g])
  <2>1. \A g \in Files : files'[g] = IF g = f THEN NoFile ELSE files[g]
    BY <1>7 DEF Delete, StoresFiles, KeepsBlocks, TypeInv, EntriesShaped
  <2>2. \A g \in Files : files[g].numExtents > 0 => Form(files[g])
    BY <1>2 DEF StoresFiles, Exists
  <2>3. ~(NoFile.numExtents > 0)
    BY DEF NoFile
  <2>4. QED
    BY <2>1, <2>2, <2>3 DEF Exists
<1>8. QED
  BY <1>3, <1>4, <1>5, <1>6, <1>7 DEF Next

LEMMA InitForms == Init => StoresFiles
<1> SUFFICES ASSUME Init PROVE StoresFiles
  OBVIOUS
<1>1. \A f \in Files : ~Exists(f)
  BY DEF Init, Exists, NoFile
<1>2. QED
  BY <1>1, InitKeeps DEF StoresFiles

\* Block and offset of a byte.
LEMMA PlaceOf ==
    ASSUME NEW a \in Nat
    PROVE  \E q \in Nat, p \in 0 .. BlockSize - 1 :
               q = a \div BlockSize /\ p = a % BlockSize /\ a = q * BlockSize + p
<1>1. BlockSize \in Nat \ {0}
  BY BlockStoreAssumption
<1> DEFINE q == a \div BlockSize
           r == a % BlockSize
<1>2. r = a - BlockSize * q /\ r \in 0 .. BlockSize - 1
  BY <1>1
<1>3. q >= 0
  BY <1>1
<1>4. q \in Int
  BY <1>1
<1> HIDE DEF q, r
<1>5. BlockSize * q = q * BlockSize /\ q * BlockSize \in Int
  BY <1>1, <1>4
<1>6. a = q * BlockSize + r
  BY <1>1, <1>2, <1>5
<1>7. q \in Nat /\ r \in 0 .. BlockSize - 1 /\ q = a \div BlockSize /\ r = a % BlockSize
  BY <1>2, <1>3, <1>4 DEF q, r
<1>8. QED
  BY <1>6, <1>7

\* The block and the offset of a place are unique.
LEMMA PlaceIs ==
    ASSUME NEW q \in Nat, NEW p \in 0 .. BlockSize - 1, NEW a, a = q * BlockSize + p
    PROVE  a \div BlockSize = q /\ a % BlockSize = p
<1>1. BlockSize \in Nat \ {0} /\ q * BlockSize \in Nat /\ a \in Nat
  BY BlockStoreAssumption
<1>2. PICK d \in Nat, r \in 0 .. BlockSize - 1 :
          d = a \div BlockSize /\ r = a % BlockSize /\ a = d * BlockSize + r
  BY <1>1, PlaceOf
<1>3. d * BlockSize \in Nat
  BY <1>1, <1>2
<1>4. (q + 1) * BlockSize = q * BlockSize + BlockSize /\ (d + 1) * BlockSize = d * BlockSize + BlockSize
  BY <1>1, <1>2
<1>5. d * BlockSize < (q + 1) * BlockSize /\ q * BlockSize < (d + 1) * BlockSize
  BY <1>1, <1>2, <1>3, <1>4
<1>6. d < q + 1 /\ q < d + 1
  BY <1>1, <1>2, <1>5, FewerBlocks
<1>7. d = q
  BY <1>2, <1>6
<1>8. r = p
  BY <1>1, <1>2, <1>3, <1>7
<1>9. QED
  BY <1>2, <1>7, <1>8

(***************************************************************************)
(* What readFileData returns, with the bytes of the disk as a parameter.   *)
(***************************************************************************)
ExtentOf(e, x, d) ==
    LET bytesRead == IF e.fileSize < x.length * BlockSize
                     THEN e.fileSize ELSE x.length * BlockSize
    IN  [i \in 1 .. x.length * BlockSize |->
            IF i <= bytesRead
            THEN d[x.startBlock + (i - 1) \div BlockSize][(i - 1) % BlockSize]
            ELSE Zero]

\* readFileData of entry e from disk d.
ReadFrom(e, d) ==
    LET from[k \in 0 .. e.numExtents] ==
            IF k = e.numExtents THEN << >>
            ELSE LET x == e.extents[k]
                 IN  IF x.length * BlockSize >= e.fileSize
                     THEN ExtentOf(e, x, d)
                     ELSE ExtentOf(e, x, d) \o from[k + 1]
    IN  from[0]

\* One iteration of its walk: what extent k and those behind it give, when s
\* holds what those behind it give.
ReadStep(e, d, s, k) ==
    IF k = e.numExtents THEN << >>
    ELSE LET x == e.extents[k]
         IN  IF x.length * BlockSize >= e.fileSize
             THEN ExtentOf(e, x, d)
             ELSE ExtentOf(e, x, d) \o s[k + 1]

\* It looks at s one extent further only.
LEMMA ReadStepSame ==
    ASSUME NEW e, NEW d, NEW g, NEW h, NEW k, k # e.numExtents => g[k + 1] = h[k + 1]
    PROVE  ReadStep(e, d, g, k) = ReadStep(e, d, h, k)
BY DEF ReadStep

\* The walk ends: the recursive function of readFileData exists.
LEMMA ReadExists ==
    ASSUME NEW e, NEW d, e.numExtents \in Nat
    PROVE  \E s : /\ s = [k \in 0 .. e.numExtents |-> ReadStep(e, d, s, k)]
                  /\ ReadFrom(e, d) = s[0]
<1> DEFINE n == e.numExtents
           P == {m \in Nat : m <= n => \E s : s = [k \in n - m .. n |-> ReadStep(e, d, s, k)]}
<1>1. 0 \in P
  <2> DEFINE s == [k \in n - 0 .. n |-> << >>]
  <2>1. \A k \in n - 0 .. n : ReadStep(e, d, s, k) = << >>
    <3>1. \A k \in n - 0 .. n : k = n
      OBVIOUS
    <3>2. QED
      BY <3>1 DEF ReadStep
  <2>2. s = [k \in n - 0 .. n |-> ReadStep(e, d, s, k)]
    BY <2>1
  <2>3. QED
    BY <2>2
<1>2. ASSUME NEW m \in Nat, m \in P PROVE m + 1 \in P
  <2>1. SUFFICES ASSUME m + 1 <= n
                 PROVE  \E s : s = [k \in n - (m + 1) .. n |-> ReadStep(e, d, s, k)]
    OBVIOUS
  <2>2. PICK g : g = [k \in n - m .. n |-> ReadStep(e, d, g, k)]
    BY <1>2, <2>1
  <2> DEFINE h == [k \in n - (m + 1) .. n |-> ReadStep(e, d, g, k)]
  <2>3. \A k \in n - m .. n : h[k] = g[k]
    BY <2>2
  <2>4. h = [k \in n - (m + 1) .. n |-> ReadStep(e, d, g, k)]
    OBVIOUS
  <2> HIDE DEF h
  <2>5. ASSUME NEW k \in n - (m + 1) .. n PROVE ReadStep(e, d, g, k) = ReadStep(e, d, h, k)
    <3>1. k # n => g[k + 1] = h[k + 1]
      BY <2>3
    <3>2. QED
      BY <3>1, ReadStepSame
  <2>6. h = [k \in n - (m + 1) .. n |-> ReadStep(e, d, h, k)]
    BY <2>4, <2>5
  <2>7. QED
    BY <2>6
<1> HIDE DEF P
<1>3. n \in P
  BY <1>1, <1>2, NatInd
<1>4. \E s : s = [k \in 0 .. n |-> ReadStep(e, d, s, k)]
  <2>1. \E s : s = [k \in n - n .. n |-> ReadStep(e, d, s, k)]
    BY <1>3 DEF P
  <2>2. n - n = 0
    OBVIOUS
  <2>3. QED
    BY <2>1, <2>2
<1>5. QED
  BY <1>4 DEF ReadFrom, ReadStep

\* The bytes of a file, block by block.
ByteOf(e, d, a) == d[BlockAt(e, a \div BlockSize)][a % BlockSize]
FileBytes(e, d) == [i \in 1 .. e.fileSize |-> ByteOf(e, d, i - 1)]

\* The values a read may return.
Values(e, d) ==
    {Zero} \cup {d[BlockAt(e, q)][p] : q \in 0 .. BlockCount(e) - 1, p \in 0 .. BlockSize - 1}

\* The number of blocks before those of extent k.
Before(e, k) == IF k = 0 THEN 0 ELSE e.extents[0].length + k - 1

\* The blocks of an extent follow those before it.
LEMMA BlockOfExtent ==
    ASSUME NEW e, Form(e), NEW k \in 0 .. e.numExtents - 1
    PROVE  /\ e.extents[k].length \in Nat \ {0} /\ e.extents[k].startBlock \in Int
           /\ Before(e, k) \in Nat
           /\ Before(e, k + 1) = Before(e, k) + e.extents[k].length
           /\ Before(e, k + 1) <= BlockCount(e)
           /\ \A q \in 0 .. e.extents[k].length - 1 :
                  BlockAt(e, Before(e, k) + q) = e.extents[k].startBlock + q
<1> DEFINE L == e.extents[0].length
<1>1. L \in Nat \ {0} /\ e.numExtents \in Nat \ {0} /\ k \in Nat /\ InData(e.extents[k])
  BY FormCount DEF Form, Shape
<1>2. e.extents[k].length \in Nat \ {0} /\ e.extents[k].startBlock \in Int
  BY <1>1 DEF InData, Extents
<1>3. k # 0 => e.extents[k].length = 1
  BY <1>1 DEF Form
<1>4. CASE k = 0
  BY <1>1, <1>2, <1>4 DEF Before, BlockCount, BlockAt
<1>5. CASE k # 0
  <2>1. ~(L + k - 1 < L) /\ L + k - 1 - L + 1 = k
    BY <1>1, <1>5
  <2>2. Before(e, k) = L + k - 1 /\ Before(e, k + 1) = L + k
    BY <1>1, <1>5 DEF Before
  <2>a. \A q : ~(q < L) /\ q - L + 1 = k => BlockAt(e, q) = e.extents[k].startBlock
    BY DEF BlockAt
  <2>3. BlockAt(e, L + k - 1) = e.extents[k].startBlock
    <3> DEFINE j == L + k - 1
    <3>1. ~(j < L) /\ j - L + 1 = k
      BY <1>1, <1>5
    <3> HIDE DEF j
    <3>2. BlockAt(e, j) = e.extents[k].startBlock
      BY <2>a, <3>1
    <3>3. QED
      BY <3>2 DEF j
  <2>4. L + k <= BlockCount(e)
    BY <1>1 DEF BlockCount
  <2> HIDE DEF L
  <2>5. ASSUME NEW q \in 0 .. e.extents[k].length - 1
        PROVE  BlockAt(e, Before(e, k) + q) = e.extents[k].startBlock + q
    <3>1. q = 0 /\ L + k - 1 + q = L + k - 1 /\ e.extents[k].startBlock + q = e.extents[k].startBlock
      BY <1>1, <1>2, <1>3, <1>5
    <3>2. QED
      BY <2>2, <2>3, <3>1
  <2>6. QED
    BY <1>1, <1>2, <1>3, <1>5, <2>2, <2>4, <2>5
<1>6. QED
  BY <1>4, <1>5

\* A place in the first w blocks of a sequence of blocks.
LEMMA PlaceWithin ==
    ASSUME NEW w \in Nat, NEW q \in 0 .. w - 1, NEW p \in 0 .. BlockSize - 1
    PROVE  /\ q * BlockSize \in Nat /\ w * BlockSize \in Nat
           /\ q * BlockSize + p \in Nat
           /\ q * BlockSize + p + 1 \in 1 .. w * BlockSize
<1>1. BlockSize \in Nat \ {0} /\ q \in Nat
  BY BlockStoreAssumption
<1>2. PICK z \in Nat : w = q + 1 + z
  <2>1. w - q - 1 \in Nat /\ w = q + 1 + (w - q - 1)
    OBVIOUS
  <2>2. QED
    BY <2>1
<1>3. w * BlockSize = q * BlockSize + BlockSize + z * BlockSize
      /\ q * BlockSize \in Nat /\ z * BlockSize \in Nat
  BY <1>1, <1>2
<1>4. QED
  BY <1>1, <1>3

\* A place and its number among w blocks.
LEMMA PlaceFound ==
    ASSUME NEW w \in Nat, NEW a \in Nat, a < w * BlockSize
    PROVE  \E q \in 0 .. w - 1, p \in 0 .. BlockSize - 1 :
               q = a \div BlockSize /\ p = a % BlockSize /\ a = q * BlockSize + p
<1>1. BlockSize \in Nat \ {0}
  BY BlockStoreAssumption
<1>2. PICK q \in Nat, p \in 0 .. BlockSize - 1 :
          q = a \div BlockSize /\ p = a % BlockSize /\ a = q * BlockSize + p
  BY PlaceOf
<1>3. q * BlockSize \in Nat /\ w * BlockSize \in Nat
  BY <1>1
<1>4. q * BlockSize < w * BlockSize
  BY <1>1, <1>2, <1>3
<1>5. q < w
  BY <1>1, <1>4, FewerBlocks
<1>6. q \in 0 .. w - 1
  BY <1>5
<1>7. QED
  BY <1>2, <1>6

\* An extent contributes its blocks, as far as the size of the file goes.
ExtentRead(e, d, k) ==
    LET b == ExtentOf(e, e.extents[k], d)
        w == e.extents[k].length
    IN  /\ b \in Seq(Values(e, d)) /\ Len(b) = w * BlockSize
        /\ \A q \in 0 .. w - 1, p \in 0 .. BlockSize - 1 :
               q * BlockSize + p < e.fileSize =>
                   b[q * BlockSize + p + 1] = d[BlockAt(e, Before(e, k) + q)][p]

LEMMA ExtentOfIs ==
    ASSUME NEW e, NEW d, Form(e), NEW k \in 0 .. e.numExtents - 1
    PROVE  ExtentRead(e, d, k)
<1> DEFINE x == e.extents[k]
           w == x.length
           start == x.startBlock
           r == Before(e, k)
           b == ExtentOf(e, x, d)
           len == w * BlockSize
           bytesRead == IF e.fileSize < len THEN e.fileSize ELSE len
           V == Values(e, d)
<1>1. /\ w \in Nat \ {0} /\ start \in Int /\ r \in Nat
      /\ \A q \in 0 .. w - 1 : BlockAt(e, r + q) = start + q /\ r + q \in 0 .. BlockCount(e) - 1
  <2>1. /\ w \in Nat \ {0} /\ start \in Int /\ r \in Nat
        /\ r + w <= BlockCount(e)
        /\ \A q \in 0 .. w - 1 : BlockAt(e, r + q) = start + q
    BY BlockOfExtent
  <2>2. BlockCount(e) \in Nat
    BY FormCount
  <2> HIDE DEF r, w, start
  <2>3. QED
    BY <2>1, <2>2
<1>2. BlockSize \in Nat \ {0} /\ e.fileSize \in Nat
  BY FormCount, BlockStoreAssumption
<1>3. len \in Nat
  BY <1>1, <1>2
<1>4. b = [i \in 1 .. len |->
              IF i <= bytesRead THEN d[start + (i - 1) \div BlockSize][(i - 1) % BlockSize] ELSE Zero]
  BY DEF ExtentOf
<1> HIDE DEF w, start, b, r
<1>5. ASSUME NEW q \in 0 .. w - 1, NEW p \in 0 .. BlockSize - 1
      PROVE  LET i == q * BlockSize + p + 1
             IN  /\ i \in 1 .. len
                 /\ start + (i - 1) \div BlockSize = BlockAt(e, r + q)
                 /\ (i - 1) % BlockSize = p
  <2> DEFINE a == q * BlockSize + p
  <2>1. a \in Nat /\ a + 1 \in 1 .. len
    BY <1>1, PlaceWithin
  <2>2. q \in Nat
    BY <1>1
  <2>3. a \div BlockSize = q /\ a % BlockSize = p
    BY <2>2, PlaceIs
  <2> HIDE DEF a, len
  <2>4. (a + 1) - 1 = a
    BY <2>1
  <2>5. QED
    BY <1>1, <2>1, <2>3, <2>4 DEF a
<1>6. ASSUME NEW q \in 0 .. w - 1, NEW p \in 0 .. BlockSize - 1, q * BlockSize + p < e.fileSize
      PROVE  b[q * BlockSize + p + 1] = d[BlockAt(e, r + q)][p]
  <2> DEFINE i == q * BlockSize + p + 1
  <2>1. i \in 1 .. len /\ q * BlockSize \in Nat
    BY <1>1, <1>5, PlaceWithin
  <2>2. i <= bytesRead
    BY <1>2, <1>3, <1>6, <2>1
  <2>3. start + (i - 1) \div BlockSize = BlockAt(e, r + q) /\ (i - 1) % BlockSize = p
    BY <1>5
  <2> HIDE DEF i, len, bytesRead
  <2>4. b[i] = d[start + (i - 1) \div BlockSize][(i - 1) % BlockSize]
    BY <1>4, <2>1, <2>2
  <2>5. QED
    BY <2>3, <2>4 DEF i
<1>7. b \in [1 .. len -> V]
  <2>1. ASSUME NEW i \in 1 .. len
        PROVE  d[start + (i - 1) \div BlockSize][(i - 1) % BlockSize] \in V
    <3>1. i - 1 \in Nat /\ i - 1 < w * BlockSize
      BY <1>3, <2>1
    <3>2. PICK q \in 0 .. w - 1, p \in 0 .. BlockSize - 1 :
              q = (i - 1) \div BlockSize /\ p = (i - 1) % BlockSize
      BY <1>1, <3>1, PlaceFound
    <3>3. start + (i - 1) \div BlockSize = BlockAt(e, r + q) /\ r + q \in 0 .. BlockCount(e) - 1
      BY <1>1, <3>2
    <3>4. QED
      BY <3>2, <3>3 DEF Values
  <2>2. Zero \in V
    BY DEF Values
  <2> HIDE DEF V, len, bytesRead
  <2>3. QED
    BY <1>4, <2>1, <2>2
<1> HIDE DEF V, len
<1>8. b \in Seq(V) /\ Len(b) = len
  BY <1>3, <1>7
<1>9. QED
  BY <1>6, <1>8 DEF V, len, w, b, r, ExtentRead

\* c holds the bytes of the blocks of e from the r-th on.
HeldFrom(e, d, c, r) ==
    /\ c \in Seq(Values(e, d)) /\ Len(c) = (BlockCount(e) - r) * BlockSize
    /\ \A q \in 0 .. BlockCount(e) - r - 1, p \in 0 .. BlockSize - 1 :
           c[q * BlockSize + p + 1] = d[BlockAt(e, r + q)][p]

\* Some blocks before them.
LEMMA PrependBlocks ==
    ASSUME NEW e, NEW d, BlockCount(e) \in Nat, NEW r \in Nat, NEW w \in Nat,
           r + w <= BlockCount(e), NEW c, HeldFrom(e, d, c, r + w),
           NEW b \in Seq(Values(e, d)), Len(b) = w * BlockSize,
           \A q \in 0 .. w - 1, p \in 0 .. BlockSize - 1 :
               b[q * BlockSize + p + 1] = d[BlockAt(e, r + q)][p]
    PROVE  HeldFrom(e, d, b \o c, r)
<1> DEFINE n == BlockCount(e)
           V == Values(e, d)
           m == n - (r + w)
           t == b \o c
<1>1. /\ BlockSize \in Nat \ {0} /\ c \in Seq(V) /\ b \in Seq(V) /\ m \in Nat
      /\ n - r = w + m /\ Len(c) = m * BlockSize
  BY BlockStoreAssumption DEF HeldFrom
<1>2. m * BlockSize \in Nat /\ w * BlockSize \in Nat /\ (w + m) * BlockSize = w * BlockSize + m * BlockSize
  BY <1>1
<1>3. \A q \in 0 .. m - 1, p \in 0 .. BlockSize - 1 :
          c[q * BlockSize + p + 1] = d[BlockAt(e, r + w + q)][p]
  BY DEF HeldFrom
<1> HIDE DEF V, n, m
<1>4. /\ t \in Seq(V) /\ Len(t) = Len(b) + Len(c)
      /\ \A i \in 1 .. Len(b) + Len(c) : t[i] = IF i <= Len(b) THEN b[i] ELSE c[i - Len(b)]
  BY <1>1, ConcatProperties
<1> HIDE DEF t
<1>5. Len(t) = (n - r) * BlockSize
  BY <1>1, <1>2, <1>4
<1>6. ASSUME NEW q \in 0 .. (n - r) - 1, NEW p \in 0 .. BlockSize - 1
      PROVE  t[q * BlockSize + p + 1] = d[BlockAt(e, r + q)][p]
  <2> DEFINE i == q * BlockSize + p + 1
  <2>0. w + m \in Nat /\ q \in 0 .. (w + m) - 1
    BY <1>1
  <2>1. i \in 1 .. Len(b) + Len(c) /\ q * BlockSize \in Nat
    BY <1>1, <1>2, <2>0, PlaceWithin
  <2>2. CASE q < w
    <3>1. q \in 0 .. w - 1
      BY <2>2
    <3>2. i <= Len(b)
      BY <1>2, <3>1, PlaceWithin
    <3> HIDE DEF i
    <3>3. t[i] = b[i]
      BY <1>4, <2>1, <3>2
    <3>4. QED
      BY <3>1, <3>3 DEF i
  <2>3. CASE q >= w
    <3> DEFINE j == q - w
    <3>1. j \in 0 .. m - 1 /\ j \in Nat /\ q = w + j
      BY <1>1, <2>0, <2>3
    <3> HIDE DEF j
    <3>2. q * BlockSize = w * BlockSize + j * BlockSize /\ j * BlockSize \in Nat
      BY <1>1, <3>1
    <3>3. ~(i <= Len(b)) /\ i - Len(b) = j * BlockSize + p + 1
      BY <1>2, <3>2
    <3> HIDE DEF i
    <3>4. t[i] = c[j * BlockSize + p + 1]
      BY <1>4, <2>1, <3>3
    <3>5. r + w + j = r + q
      BY <3>1
    <3>6. c[j * BlockSize + p + 1] = d[BlockAt(e, r + w + j)][p]
      BY <1>3, <3>1
    <3>7. QED
      BY <3>4, <3>5, <3>6 DEF i
  <2>4. QED
    BY <2>2, <2>3
<1>7. QED
  BY <1>4, <1>5, <1>6 DEF HeldFrom, V, n, t

\* Whatever the disk holds: of a file of that form readFileData returns its
\* bytes first, in order.
LEMMA ReadsBytes ==
    ASSUME NEW e, NEW d, Form(e)
    PROVE  SubSeq(ReadFrom(e, d), 1, e.fileSize) = FileBytes(e, d)
<1> DEFINE n == BlockCount(e)
           m == e.numExtents
           L == e.extents[0].length
           V == Values(e, d)
           F == ReadFrom(e, d)
<1>1. /\ n \in Nat \ {0} /\ m \in Nat \ {0} /\ L \in Nat \ {0} /\ n = L + m - 1
      /\ BlockSize \in Nat \ {0} /\ e.fileSize \in Nat
      /\ (n - 1) * BlockSize < e.fileSize /\ e.fileSize <= n * BlockSize
  BY FormCount, BlockStoreAssumption DEF Form, Holds, BlockCount
<1>2. n * BlockSize \in Nat /\ (n - 1) * BlockSize \in Nat
  BY <1>1
<1>3. PICK s : s = [k \in 0 .. m |-> ReadStep(e, d, s, k)] /\ F = s[0]
  BY <1>1, ReadExists
<1>4. /\ F \in Seq(V) /\ e.fileSize <= Len(F)
      /\ \A q \in 0 .. n - 1, p \in 0 .. BlockSize - 1 :
             q * BlockSize + p < e.fileSize =>
                 F[q * BlockSize + p + 1] = d[BlockAt(e, q)][p]
  <2>1. CASE m = 1
    <3>1. n = L /\ 0 \in 0 .. m - 1 /\ 0 \in 0 .. m /\ 0 # m
      BY <1>1, <2>1
    <3>2. L * BlockSize >= e.fileSize
      BY <1>1, <3>1
    <3>3. F = ExtentOf(e, e.extents[0], d)
      <4>1. F = ReadStep(e, d, s, 0)
        BY <1>3, <3>1
      <4>2. QED
        BY <3>1, <3>2, <4>1 DEF ReadStep
    <3>4. /\ F \in Seq(V) /\ Len(F) = L * BlockSize
          /\ \A q \in 0 .. L - 1, p \in 0 .. BlockSize - 1 :
                 q * BlockSize + p < e.fileSize =>
                     F[q * BlockSize + p + 1] = d[BlockAt(e, Before(e, 0) + q)][p]
      <4>1. 0 \in 0 .. e.numExtents - 1
        BY <3>1
      <4>2. QED
        BY <3>3, <4>1, ExtentOfIs DEF ExtentRead
    <3>5. \A q \in 0 .. L - 1 : Before(e, 0) + q = q
      BY <1>1 DEF Before
    <3> HIDE DEF F, n, m, L, V
    <3>6. QED
      BY <3>1, <3>2, <3>4, <3>5
  <2>2. CASE m # 1
    <3>1. ASSUME NEW k \in 0 .. m - 1
          PROVE  /\ e.extents[k].length \in Nat
                 /\ e.extents[k].length * BlockSize \in Nat
                 /\ e.extents[k].length * BlockSize < e.fileSize
      <4> DEFINE w == e.extents[k].length
      <4>1. w \in Nat \ {0} /\ w <= n - 1
        <5>1. CASE k = 0
          BY <1>1, <2>2, <5>1
        <5>2. CASE k # 0
          <6>1. w = 1
            BY <3>1, <5>2 DEF Form
          <6>2. 1 <= n - 1
            <7>1. \A a, b \in Nat \ {0} : b # 1 => 1 <= (a + b - 1) - 1
              OBVIOUS
            <7>2. QED
              BY <1>1, <2>2, <7>1
          <6>3. QED
            BY <6>1, <6>2
        <5>3. QED
          BY <5>1, <5>2
      <4> HIDE DEF w, n
      <4>2. PICK z \in Nat : n - 1 = w + z
        <5>1. n - 1 - w \in Nat /\ n - 1 = w + (n - 1 - w)
          BY <1>1, <4>1
        <5>2. QED
          BY <5>1
      <4>3. (n - 1) * BlockSize = w * BlockSize + z * BlockSize
            /\ w * BlockSize \in Nat /\ z * BlockSize \in Nat
        BY <1>1, <4>1, <4>2
      <4>4. w * BlockSize < e.fileSize
        BY <1>1, <4>3
      <4>5. QED
        BY <4>1, <4>3, <4>4 DEF w
    <3> DEFINE P == {j \in Nat : j <= m => HeldFrom(e, d, s[m - j], Before(e, m - j))}
    <3>2. 0 \in P
      <4>1. m - 0 = m /\ m \in 0 .. m /\ Before(e, m) = n
        BY <1>1 DEF Before
      <4>2. s[m] = << >>
        BY <1>3, <4>1 DEF ReadStep
      <4>3. << >> \in Seq(V) /\ Len(<< >>) = 0
        BY EmptySeq
      <4>4. (n - n) * BlockSize = 0 /\ 0 .. n - n - 1 = {}
        BY <1>1
      <4>5. HeldFrom(e, d, << >>, n)
        BY <4>3, <4>4 DEF HeldFrom
      <4>6. QED
        BY <4>1, <4>2, <4>5
    <3>3. ASSUME NEW j \in Nat, j \in P PROVE j + 1 \in P
      <4>1. SUFFICES ASSUME j + 1 <= m
                     PROVE  HeldFrom(e, d, s[m - (j + 1)], Before(e, m - (j + 1)))
        OBVIOUS
      <4> DEFINE k == m - (j + 1)
                 b == ExtentOf(e, e.extents[k], d)
                 c == s[m - j]
                 w == e.extents[k].length
                 r == Before(e, k)
      <4>2. k \in 0 .. m - 1 /\ k \in 0 .. m /\ k # m /\ k + 1 = m - j
        BY <1>1, <4>1
      <4>3. HeldFrom(e, d, c, Before(e, m - j))
        BY <1>1, <3>3, <4>1
      <4> HIDE DEF k
      <4>4. s[k] = b \o c
        <5>1. s[k] = ReadStep(e, d, s, k)
          BY <1>3, <4>2
        <5>2. ~(w * BlockSize >= e.fileSize)
          BY <1>1, <3>1, <4>2
        <5>3. QED
          BY <4>2, <5>1, <5>2 DEF ReadStep
      <4>5. /\ r \in Nat /\ w \in Nat /\ Before(e, m - j) = r + w /\ r + w <= n
        BY <4>2, BlockOfExtent
      <4>6. /\ b \in Seq(V) /\ Len(b) = w * BlockSize
            /\ \A q \in 0 .. w - 1, p \in 0 .. BlockSize - 1 :
                   q * BlockSize + p < e.fileSize =>
                       b[q * BlockSize + p + 1] = d[BlockAt(e, r + q)][p]
        <5>1. k \in 0 .. e.numExtents - 1
          BY <4>2
        <5>2. ExtentRead(e, d, k)
          BY <5>1, ExtentOfIs
        <5>3. QED
          BY <5>2 DEF ExtentRead
      <4>7. ASSUME NEW q \in 0 .. w - 1, NEW p \in 0 .. BlockSize - 1
            PROVE  q * BlockSize + p < e.fileSize
        <5>1. q * BlockSize + p + 1 \in 1 .. w * BlockSize /\ q * BlockSize + p \in Nat
          BY <4>5, PlaceWithin
        <5>2. w * BlockSize < e.fileSize /\ w * BlockSize \in Nat
          BY <3>1, <4>2
        <5>3. QED
          BY <1>1, <5>1, <5>2
      <4> HIDE DEF b, c, w, r, V
      <4>8. \A q \in 0 .. w - 1, p \in 0 .. BlockSize - 1 :
                b[q * BlockSize + p + 1] = d[BlockAt(e, r + q)][p]
        BY <4>6, <4>7
      <4>9. HeldFrom(e, d, b \o c, r)
        BY <1>1, <4>3, <4>5, <4>6, <4>8, PrependBlocks DEF V, n
      <4>10. QED
        BY <4>4, <4>9 DEF k, r
    <3> HIDE DEF P
    <3>4. m \in P
      BY <1>1, <3>2, <3>3, NatInd
    <3>5. m - m = 0 /\ Before(e, 0) = 0
      BY <1>1 DEF Before
    <3>6. HeldFrom(e, d, s[m - m], Before(e, m - m))
      BY <1>1, <3>4 DEF P
    <3>7. HeldFrom(e, d, F, 0)
      BY <1>3, <3>5, <3>6
    <3>8. n - 0 = n /\ n - 0 - 1 = n - 1 /\ \A q \in 0 .. n - 1 : 0 + q = q
      BY <1>1
    <3> HIDE DEF F
    <3>9. F \in Seq(V) /\ Len(F) = n * BlockSize
      BY <3>7, <3>8 DEF HeldFrom
    <3>10. \A q \in 0 .. n - 1, p \in 0 .. BlockSize - 1 :
               F[q * BlockSize + p + 1] = d[BlockAt(e, q)][p]
      BY <3>7, <3>8 DEF HeldFrom
    <3> HIDE DEF n, V
    <3>11. QED
      BY <1>1, <3>9, <3>10
  <2>3. QED
    BY <2>1, <2>2
<1> HIDE DEF F, V, n
<1>5. \A i \in 1 .. e.fileSize : F[i] = ByteOf(e, d, i - 1)
  <2>1. SUFFICES ASSUME NEW i \in 1 .. e.fileSize PROVE F[i] = ByteOf(e, d, i - 1)
    OBVIOUS
  <2> DEFINE a == i - 1
  <2>2. a \in Nat /\ i = a + 1 /\ a < e.fileSize /\ a < n * BlockSize
    BY <1>1, <1>2
  <2> HIDE DEF a
  <2>3. PICK q \in 0 .. n - 1, p \in 0 .. BlockSize - 1 :
            q = a \div BlockSize /\ p = a % BlockSize /\ a = q * BlockSize + p
    BY <1>1, <2>2, PlaceFound
  <2>4. ByteOf(e, d, a) = d[BlockAt(e, q)][p]
    BY <2>3 DEF ByteOf
  <2>5. F[q * BlockSize + p + 1] = d[BlockAt(e, q)][p]
    BY <1>4, <2>2, <2>3
  <2>6. q * BlockSize + p + 1 = i
    BY <2>2, <2>3
  <2>7. QED
    BY <2>4, <2>5, <2>6 DEF a
<1>6. SubSeq(F, 1, e.fileSize) = [i \in 1 .. e.fileSize |-> F[i]]
  BY <1>1, <1>4
<1>7. QED
  BY <1>5, <1>6 DEF FileBytes, F

\* Block and offset of a byte of a file.
LEMMA InFile ==
    ASSUME NEW e, Form(e), NEW a \in Nat, a < e.fileSize
    PROVE  \E q \in 0 .. BlockCount(e) - 1, p \in 0 .. BlockSize - 1 :
               q = a \div BlockSize /\ p = a % BlockSize /\ a = q * BlockSize + p
<1> DEFINE n == BlockCount(e)
<1>1. /\ n \in Nat /\ BlockSize \in Nat \ {0} /\ e.fileSize <= n * BlockSize
      /\ e.fileSize \in Nat
  BY FormCount, BlockStoreAssumption DEF Form, Holds
<1> HIDE DEF n
<1>2. n * BlockSize \in Nat
  BY <1>1
<1>3. a < n * BlockSize
  BY <1>1, <1>2
<1>4. QED
  BY <1>1, <1>3, PlaceFound DEF n

\* The blocks of a file in order: they are its blocks, no block comes twice, and
\* the last of them is the last block of the last extent.
LEMMA BlockIn ==
    ASSUME NEW e, Form(e), NEW q \in 0 .. BlockCount(e) - 1
    PROVE  \E k \in 0 .. e.numExtents - 1 :
               /\ BlockAt(e, q) \in Run(e.extents[k])
               /\ k = 0 => q < e.extents[0].length /\ BlockAt(e, q) = e.extents[0].startBlock + q
               /\ k # 0 => ~(q < e.extents[0].length) /\ k = q - e.extents[0].length + 1
<1> DEFINE L == e.extents[0].length
           m == e.numExtents
<1>1. L \in Nat \ {0} /\ m \in Nat \ {0} /\ BlockCount(e) = L + m - 1
  BY FormCount DEF BlockCount
<1>2. \A k \in 0 .. m - 1 : e.extents[k].startBlock \in Int
  BY DEF Form, Shape, InData, Extents
<1>3. CASE q < L
  <2>1. BlockAt(e, q) = e.extents[0].startBlock + q /\ 0 \in 0 .. m - 1
    BY <1>1, <1>3 DEF BlockAt
  <2>2. e.extents[0].startBlock + q \in Run(e.extents[0])
    <3> DEFINE a == e.extents[0].startBlock
    <3>1. a \in Int /\ q \in Nat
      BY <1>1, <1>2
    <3>2. a + q \in a .. a + L - 1
      BY <1>1, <1>3, <3>1
    <3>3. QED
      BY <3>2 DEF Run
  <2>3. QED
    BY <1>3, <2>1, <2>2
<1>4. CASE ~(q < L)
  <2> DEFINE k == q - L + 1
  <2>1. k \in 1 .. m - 1 /\ k \in 0 .. m - 1 /\ k # 0
    BY <1>1, <1>4
  <2>2. BlockAt(e, q) = e.extents[k].startBlock
    BY <1>4 DEF BlockAt
  <2> HIDE DEF k
  <2>3. e.extents[k].length = 1 /\ e.extents[k].startBlock \in Int
    BY <1>2, <2>1 DEF Form
  <2>4. e.extents[k].startBlock \in Run(e.extents[k])
    <3> DEFINE a == e.extents[k].startBlock
    <3>1. a \in a .. a + 1 - 1
      BY <2>3
    <3>2. QED
      BY <2>3, <3>1 DEF Run
  <2>5. k = q - L + 1
    BY DEF k
  <2> HIDE DEF L, m
  <2>6. QED
    BY <1>4, <2>1, <2>2, <2>4, <2>5 DEF L, m
<1>5. QED
  BY <1>3, <1>4

LEMMA BlockOnce ==
    ASSUME NEW e, Form(e), Apart(e),
           NEW q \in 0 .. BlockCount(e) - 1, NEW r \in 0 .. BlockCount(e) - 1, q # r
    PROVE  BlockAt(e, q) # BlockAt(e, r)
<1>1. PICK k \in 0 .. e.numExtents - 1 :
               /\ BlockAt(e, q) \in Run(e.extents[k])
               /\ k = 0 => q < e.extents[0].length /\ BlockAt(e, q) = e.extents[0].startBlock + q
               /\ k # 0 => ~(q < e.extents[0].length) /\ k = q - e.extents[0].length + 1
  BY BlockIn
<1>2. PICK j \in 0 .. e.numExtents - 1 :
               /\ BlockAt(e, r) \in Run(e.extents[j])
               /\ j = 0 => r < e.extents[0].length /\ BlockAt(e, r) = e.extents[0].startBlock + r
               /\ j # 0 => ~(r < e.extents[0].length) /\ j = r - e.extents[0].length + 1
  BY BlockIn
<1>3. CASE k # j
  <2>1. Run(e.extents[k]) \cap Run(e.extents[j]) = {}
    BY <1>3 DEF Apart
  <2>2. QED
    BY <1>1, <1>2, <2>1
<1>4. CASE k = j
  <2>1. /\ e.extents[0].length \in Int /\ e.extents[0].startBlock \in Int
        /\ q \in Int /\ r \in Int
    BY FormCount DEF Extents
  <2>2. k = 0
    BY <1>1, <1>2, <1>4, <2>1
  <2>3. QED
    BY <1>1, <1>2, <1>4, <2>1, <2>2
<1>5. QED
  BY <1>3, <1>4

LEMMA FirstAndLast ==
    ASSUME NEW e, Form(e)
    PROVE  /\ BlockAt(e, 0) = e.extents[0].startBlock
           /\ BlockAt(e, BlockCount(e) - 1) = LastBlock(e.extents[e.numExtents - 1])
<1> DEFINE L == e.extents[0].length
           m == e.numExtents
<1>1. L \in Nat \ {0} /\ m \in Nat \ {0} /\ BlockCount(e) = L + m - 1
  BY FormCount DEF BlockCount
<1>2. \A k \in 0 .. m - 1 : e.extents[k].startBlock \in Int
  BY DEF Form, Shape, InData, Extents
<1>3. BlockAt(e, 0) = e.extents[0].startBlock
  BY <1>1, <1>2 DEF BlockAt
<1>4. CASE m = 1
  <2>1. BlockCount(e) - 1 = L - 1 /\ L - 1 < L /\ m - 1 = 0
    BY <1>1, <1>4
  <2>2. BlockAt(e, L - 1) = e.extents[0].startBlock + (L - 1)
    BY <2>1 DEF BlockAt
  <2>3. QED
    BY <1>1, <1>2, <1>3, <2>1, <2>2 DEF LastBlock
<1>5. CASE m # 1
  <2> DEFINE j == BlockCount(e) - 1
  <2>1. ~(j < L) /\ j - L + 1 = m - 1 /\ m - 1 \in 1 .. m - 1 /\ m - 1 \in 0 .. m - 1
    BY <1>1, <1>5
  <2> HIDE DEF j
  <2>2. BlockAt(e, j) = e.extents[m - 1].startBlock
    BY <2>1 DEF BlockAt
  <2>3. e.extents[m - 1].length = 1
    BY <2>1 DEF Form
  <2>4. e.extents[m - 1].startBlock \in Int
    BY <1>2, <2>1
  <2>5. LastBlock(e.extents[m - 1]) = e.extents[m - 1].startBlock
    BY <2>3, <2>4 DEF LastBlock
  <2>6. QED
    BY <1>3, <2>2, <2>5 DEF j
<1>6. QED
  BY <1>4, <1>5

\* A step of the bytes is a step of the blocks.
LEMMA DataStepNext ==
    ASSUME [DataNext]_dataVars
    PROVE  [Next]_spaceVars
<1>1. ASSUME NEW f \in Files, NEW text \in Texts, AppendData(f, text) \/ WriteData(f, text)
      PROVE  Len(text) \in ContentSizes /\ (AppendTo(f, Len(text)) \/ WriteTo(f, Len(text)))
  BY <1>1, TerminalTexts DEF AppendData, WriteData
<1>2. QED
  BY <1>1 DEF DataNext, CreateData, DeleteData, Next, dataVars, spaceVars

\* The files of an intact disk: a block of a file is a data block, is marked, and
\* is no block of another file.
LEMMA FileBlocks ==
    ASSUME StoresFiles, Intact, NEW f \in Files
    PROVE  /\ BlocksOf(files[f]) \subseteq DataBlocks \cap FATTABLE
           /\ Apart(files[f])
           /\ \A g \in Files : g # f => BlocksOf(files[f]) \cap BlocksOf(files[g]) = {}
<1>1. TypeInv /\ Disjoint /\ Marked
  BY IntactClean DEF StoresFiles, KeepsBlocks
<1>2. MetadataNeverCovered
  BY <1>1, ShapeSafe DEF TypeInv
<1>3. BlocksOf(files[f]) \subseteq FATTABLE /\ \A b \in BlocksOf(files[f]) : b >= DataStart
  BY <1>1, <1>2 DEF Marked, MetadataNeverCovered
<1>4. BlocksOf(files[f]) \subseteq DataBlocks
  <2>1. ASSUME NEW b \in BlocksOf(files[f]) PROVE b \in DataBlocks
    <3>1. b \in 0 .. TotalBlocks - 1 /\ b >= DataStart
      BY <1>1, <1>3 DEF TypeInv, Blocks
    <3>2. QED
      BY <3>1, BlockStoreAssumption DEF DataBlocks
  <2>2. QED
    BY <2>1
<1>5. QED
  BY <1>1, <1>3, <1>4, DisjointFiles

LEMMA PlaceInFile ==
    ASSUME NEW e, Form(e), NEW q \in 0 .. BlockCount(e) - 1
    PROVE  BlockAt(e, q) \in BlocksOf(e)
BY BlockIn DEF BlocksOf

\* The bytes of a file are those of its blocks.
LEMMA SameBytes ==
    ASSUME NEW e, Form(e), NEW d1, NEW d2, \A b \in BlocksOf(e) : d1[b] = d2[b]
    PROVE  FileBytes(e, d1) = FileBytes(e, d2)
<1>0. e.fileSize \in Nat
  BY FormCount
<1>1. ASSUME NEW i \in 1 .. e.fileSize PROVE ByteOf(e, d1, i - 1) = ByteOf(e, d2, i - 1)
  <2> DEFINE a == i - 1
  <2>1. a \in Nat /\ a < e.fileSize
    BY <1>0
  <2> HIDE DEF a
  <2>2. PICK q \in 0 .. BlockCount(e) - 1, p \in 0 .. BlockSize - 1 :
            q = a \div BlockSize /\ p = a % BlockSize /\ a = q * BlockSize + p
    BY <2>1, InFile
  <2>3. BlockAt(e, q) \in BlocksOf(e)
    BY PlaceInFile
  <2>4. ByteOf(e, d1, a) = ByteOf(e, d2, a)
    BY <2>2, <2>3 DEF ByteOf
  <2>5. QED
    BY <2>4 DEF a
<1>2. QED
  BY <1>1 DEF FileBytes

\* The contents of the files, block by block.
ContentsNow ==
    [f \in Files |-> IF files[f].numExtents > 0 /\ Intact THEN FileBytes(files[f], disk) ELSE Absent]

\* What read returns, cut to the size of the file, are the bytes of its blocks.
LEMMA ReadBackIs == StoresFiles => ReadBack = ContentsNow
<1> SUFFICES ASSUME StoresFiles, Intact, NEW f \in Files, files[f].numExtents > 0
             PROVE  SubSeq(readFileData(files[f]), 1, files[f].fileSize) = FileBytes(files[f], disk)
  BY DEF ReadBack, ContentsNow, Exists
<1>0. Form(files[f])
  BY DEF StoresFiles, Exists
<1>1. SubSeq(ReadFrom(files[f], disk), 1, files[f].fileSize) = FileBytes(files[f], disk)
  BY <1>0, ReadsBytes
<1>2. readFileData(files[f]) = ReadFrom(files[f], disk)
  BY DEF readFileData, ReadFrom, ExtentBytes, ExtentOf
<1>3. QED
  BY <1>1, <1>2

\* The same after a step.
LEMMA ReadBackIsPrimed == StoresFiles' => ReadBack' = ContentsNow'
<1>1. (StoresFiles => ReadBack = ContentsNow)'
  BY ReadBackIs, PTL
<1>2. QED
  BY <1>1

\* One file changes and the others keep entry and blocks.
LEMMA OneFileChanges ==
    ASSUME StoresFiles, Intact, Intact', NEW f \in Files,
           \A g \in Files : g # f => files'[g] = files[g],
           \A g \in Files : g # f => \A b \in BlocksOf(files[g]) : disk'[b] = disk[b]
    PROVE  ContentsNow' = [ContentsNow EXCEPT ![f] = ContentsNow'[f]]
<1>1. ASSUME NEW g \in Files, g # f PROVE ContentsNow'[g] = ContentsNow[g]
  <2>1. CASE files[g].numExtents > 0
    <3>1. Form(files[g])
      BY <2>1 DEF StoresFiles, Exists
    <3>2. FileBytes(files[g], disk') = FileBytes(files[g], disk)
      BY <1>1, <3>1, SameBytes
    <3>3. QED
      BY <1>1, <2>1, <3>2 DEF ContentsNow
  <2>2. CASE ~(files[g].numExtents > 0)
    BY <1>1, <2>2 DEF ContentsNow
  <2>3. QED
    BY <2>1, <2>2
<1>2. QED
  BY <1>1 DEF ContentsNow

\* The bytes of a file are a sequence as long as its size.
LEMMA FileBytesSeq ==
    ASSUME NEW e, Form(e), NEW d
    PROVE  FileBytes(e, d) \in Seq(Values(e, d)) /\ Len(FileBytes(e, d)) = e.fileSize
<1>0. e.fileSize \in Nat
  BY FormCount
<1>1. ASSUME NEW i \in 1 .. e.fileSize PROVE ByteOf(e, d, i - 1) \in Values(e, d)
  <2> DEFINE a == i - 1
  <2>1. a \in Nat /\ a < e.fileSize
    BY <1>0
  <2> HIDE DEF a
  <2>2. PICK q \in 0 .. BlockCount(e) - 1, p \in 0 .. BlockSize - 1 :
            q = a \div BlockSize /\ p = a % BlockSize /\ a = q * BlockSize + p
    BY <2>1, InFile
  <2>3. ByteOf(e, d, a) \in Values(e, d)
    BY <2>2 DEF ByteOf, Values
  <2>4. QED
    BY <2>3 DEF a
<1> DEFINE V == Values(e, d)
           b == FileBytes(e, d)
<1>2. b \in [1 .. e.fileSize -> V]
  BY <1>1 DEF FileBytes
<1> HIDE DEF V, b
<1>3. b \in Seq(V) /\ Len(b) = e.fileSize
  BY <1>0, <1>2
<1>4. QED
  BY <1>3 DEF V, b

(***************************************************************************)
(* Where an append puts a text: the first room bytes behind the last byte  *)
(* of the last block, the rest to the front of one more block.  Then the   *)
(* bytes of the file are what they were, followed by the text.             *)
(***************************************************************************)
\* text appended to the bytes of e on disk d gives s on disk d2: as much of it
\* as has room behind the last byte, the rest at the front of a new block.
Appended(e, d, s, d2, text) ==
    LET size == Len(text)
        room == IF size < TailRoom(e) THEN size ELSE TailRoom(e)
        n == BlockCount(e)
        last == BlockAt(e, n - 1)
    IN  /\ s.fileSize = e.fileSize + size
        /\ \A k \in 0 .. n - 1 : BlockAt(s, k) = BlockAt(e, k)
        /\ \A k \in 0 .. n - 2 : d2[BlockAt(e, k)] = d[BlockAt(e, k)]
        /\ d2[last] = Put(d[last], e.fileSize % BlockSize, SubSeq(text, 1, room))
        /\ size > TailRoom(e) =>
               d2[BlockAt(s, n)] =
                   Put(EmptyBlock, 0, SubSeq(text, room + 1, size))

\* Then the bytes of s are those of e with the text behind them.
LEMMA AppendedBytes ==
    ASSUME NEW e, Form(e),
           NEW Bytes, NEW text \in Seq(Bytes), Len(text) \in 1 .. BlockSize - 1,
           NEW s, NEW d, NEW d2, Appended(e, d, s, d2, text)
    PROVE  FileBytes(s, d2) = FileBytes(e, d) \o text
<1> DEFINE n == BlockCount(e)
           q == n - 1
           m == e.fileSize
           size == Len(text)
           tail == TailRoom(e)
           last == BlockAt(e, q)
           room == IF size < tail THEN size ELSE tail
           head == SubSeq(text, 1, room)
           rest == SubSeq(text, room + 1, size)
           Q == q * BlockSize
           N == n * BlockSize
           r == m - Q
           off == m % BlockSize
<1>0. /\ s.fileSize = m + size
      /\ \A k \in 0 .. n - 1 : BlockAt(s, k) = BlockAt(e, k)
      /\ \A k \in 0 .. n - 2 : d2[BlockAt(e, k)] = d[BlockAt(e, k)]
      /\ d2[last] = Put(d[last], off, head)
      /\ size > tail => d2[BlockAt(s, n)] = Put(EmptyBlock, 0, rest)
  BY DEF Appended
<1>1. /\ n \in Nat \ {0} /\ q \in Nat /\ n = q + 1 /\ BlockSize \in Nat \ {0}
      /\ m \in Nat /\ size \in 1 .. BlockSize - 1
      /\ q \in 0 .. n - 1
  BY FormCount, BlockStoreAssumption
<1>2. tail = N - m /\ tail \in 0 .. BlockSize - 1
  BY <1>1, TailIs, TailRange DEF Form
<1>3. Q \in Nat /\ N \in Nat /\ N = Q + BlockSize /\ Q < m /\ m <= N
  <2>1. Q < m /\ m <= N
    BY DEF Form, Holds
  <2> HIDE DEF q, n, m
  <2>2. Q \in Nat /\ N \in Nat /\ N = Q + BlockSize
    BY <1>1
  <2>3. QED
    BY <2>1, <2>2
<1>4. \A a \in Nat, p \in 0 .. BlockSize - 1 : a = Q + p =>
          ByteOf(s, d2, a) = d2[BlockAt(s, q)][p]
  <2>1. ASSUME NEW a \in Nat, NEW p \in 0 .. BlockSize - 1, a = Q + p
        PROVE  ByteOf(s, d2, a) = d2[BlockAt(s, q)][p]
    <3> HIDE DEF q
    <3>1. a = q * BlockSize + p /\ q \in Nat
      BY <1>1, <2>1
    <3>2. a \div BlockSize = q /\ a % BlockSize = p
      BY <3>1, PlaceIs
    <3>3. QED
      BY <3>2 DEF ByteOf
  <2>2. QED
    BY <2>1
<1>5. \A a \in Nat, p \in 0 .. BlockSize - 1 : a = N + p =>
          ByteOf(s, d2, a) = d2[BlockAt(s, n)][p]
  <2>1. ASSUME NEW a \in Nat, NEW p \in 0 .. BlockSize - 1, a = N + p
        PROVE  ByteOf(s, d2, a) = d2[BlockAt(s, n)][p]
    <3> HIDE DEF n
    <3>1. a = n * BlockSize + p /\ n \in Nat
      BY <1>1, <2>1
    <3>2. a \div BlockSize = n /\ a % BlockSize = p
      BY <3>1, PlaceIs
    <3>3. QED
      BY <3>2 DEF ByteOf
  <2>2. QED
    BY <2>1
<1>6. off \in Nat /\ (r \in 0 .. BlockSize - 1 => off = r)
  <2>1. ASSUME r \in 0 .. BlockSize - 1 PROVE off = r
    <3>1. m = Q + r
      BY <1>1, <1>3
    <3> HIDE DEF q, r, m
    <3>2. QED
      BY <1>1, <2>1, <3>1, PlaceIs
  <2>2. off \in Nat
    BY <1>1
  <2>3. QED
    BY <2>1, <2>2
<1>7. d2[last] = Put(d[last], off, head) /\ BlockAt(s, q) = last
  BY <1>0, <1>1
<1>8. size > tail => d2[BlockAt(s, n)] = Put(EmptyBlock, 0, rest)
  BY <1>0
<1>9. room = IF size < tail THEN size ELSE tail
  OBVIOUS
<1>10. ASSUME NEW a \in Nat, a < m
       PROVE  \E k \in 0 .. n - 1, p \in 0 .. BlockSize - 1 :
                  /\ ByteOf(s, d2, a) = d2[BlockAt(e, k)][p]
                  /\ ByteOf(e, d, a) = d[BlockAt(e, k)][p]
                  /\ k = q => a = Q + p
                  /\ k # q => d2[BlockAt(e, k)] = d[BlockAt(e, k)]
  <2>1. PICK k \in 0 .. n - 1, p \in 0 .. BlockSize - 1 :
            k = a \div BlockSize /\ p = a % BlockSize /\ a = k * BlockSize + p
    BY <1>10, InFile
  <2>2. ByteOf(s, d2, a) = d2[BlockAt(e, k)][p]
        /\ ByteOf(e, d, a) = d[BlockAt(e, k)][p]
    BY <1>0, <2>1 DEF ByteOf
  <2>3. k # q => k \in 0 .. n - 2
    BY <1>1
  <2>4. QED
    BY <1>0, <2>1, <2>2, <2>3
<1>11. \A i \in 1 .. m : FileBytes(e, d)[i] = ByteOf(e, d, i - 1)
  BY DEF FileBytes
<1>12. FileBytes(s, d2) = [i \in 1 .. m + size |-> ByteOf(s, d2, i - 1)]
  BY <1>0 DEF FileBytes
<1>13. FileBytes(e, d) \in Seq(Values(e, d)) /\ Len(FileBytes(e, d)) = m
  BY FileBytesSeq
<1>14. text \in Seq(Bytes) /\ size = Len(text) /\ size \in Nat
  BY <1>1
<1> HIDE DEF room, Q, N, r, off, tail
<1>15. r \in 1 .. BlockSize /\ m = Q + r /\ tail = BlockSize - r
  BY <1>1, <1>2, <1>3 DEF r
<1> HIDE DEF m, size, last
<1>16. /\ room \in 0 .. size /\ room <= tail
       /\ size > tail => room = tail
       /\ size <= tail => room = size
  BY <1>1, <1>2, <1>9
<1>17. /\ Len(head) = room /\ \A i \in 1 .. room : head[i] = text[i]
       /\ Len(rest) = size - room /\ \A i \in 1 .. size - room : rest[i] = text[room + i]
  BY <1>14, <1>16
<1> HIDE DEF head, rest, n, q
<1>18. ASSUME NEW p \in 0 .. BlockSize - 1
       PROVE  /\ p < r => d2[last][p] = d[last][p]
              /\ p >= r /\ p - r < room => d2[last][p] = text[p - r + 1]
  <2>1. /\ Len(head) \in Nat /\ (r = BlockSize => Len(head) = 0)
        /\ (r < BlockSize => off = r) /\ off \in Nat
    BY <1>1, <1>6, <1>15, <1>16, <1>17
  <2>2. /\ p < r => Put(d[last], off, head)[p] = d[last][p]
        /\ p >= r /\ p - r < Len(head) => Put(d[last], off, head)[p] = head[p - r + 1]
    <3>1. r \in 1 .. BlockSize
      BY <1>15
    <3>2. QED
      BY <1>1, <2>1, <3>1 DEF Put
  <2>3. p >= r /\ p - r < room => p - r + 1 \in 1 .. room
    BY <1>15, <1>16, <1>1
  <2>4. QED
    BY <1>7, <1>17, <2>2, <2>3
<1>19. ASSUME NEW a \in Nat, a < m
       PROVE  ByteOf(s, d2, a) = ByteOf(e, d, a)
  <2>1. PICK k \in 0 .. n - 1, p \in 0 .. BlockSize - 1 :
                  /\ ByteOf(s, d2, a) = d2[BlockAt(e, k)][p]
                  /\ ByteOf(e, d, a) = d[BlockAt(e, k)][p]
                  /\ k = q => a = Q + p
                  /\ k # q => d2[BlockAt(e, k)] = d[BlockAt(e, k)]
    BY <1>10, <1>19
  <2>2. CASE k = q
    <3>1. p < r
      BY <1>1, <1>3, <1>15, <1>19, <2>1, <2>2
    <3>2. d2[last][p] = d[last][p]
      BY <1>18, <3>1
    <3>3. QED
      BY <2>1, <2>2, <3>2 DEF last
  <2>3. CASE k # q
    BY <2>1, <2>3
  <2>4. QED
    BY <2>2, <2>3
<1>20. ASSUME NEW a \in Nat, m <= a, a < m + size
       PROVE  ByteOf(s, d2, a) = text[a - m + 1]
  <2>1. CASE a < N
    <3>1. PICK p \in 0 .. BlockSize - 1 : a = Q + p
      <4>1. a - Q \in 0 .. BlockSize - 1 /\ a = Q + (a - Q)
        BY <1>1, <1>3, <1>20, <2>1
      <4>2. QED
        BY <4>1
    <3>2. p >= r /\ p - r = a - m /\ p - r < room
      BY <1>1, <1>2, <1>3, <1>15, <1>16, <1>20, <2>1, <3>1
    <3>3. d2[last][p] = text[a - m + 1]
      BY <1>18, <3>2
    <3>4. QED
      BY <1>4, <1>7, <3>1, <3>3
  <2>2. CASE a >= N
    <3>1. PICK p \in 0 .. BlockSize - 1 : a = N + p
      <4>1. a - N \in 0 .. BlockSize - 1 /\ a = N + (a - N)
        BY <1>1, <1>2, <1>3, <1>20, <2>2
      <4>2. QED
        BY <4>1
    <3>2. size > tail /\ room = tail /\ p + 1 \in 1 .. size - room /\ room + (p + 1) = a - m + 1
      <4>1. size > tail
        BY <1>1, <1>2, <1>3, <1>20, <2>2
      <4>2. QED
        BY <1>1, <1>2, <1>3, <1>16, <1>20, <3>1, <4>1
    <3>3. Put(EmptyBlock, 0, rest)[p] = rest[p + 1]
      <4>1. p \in 0 .. 0 + Len(rest) - 1 /\ p - 0 + 1 = p + 1
        BY <1>14, <1>16, <1>17, <3>2
      <4>2. QED
        BY <4>1 DEF Put
    <3>4. rest[p + 1] = text[a - m + 1]
      BY <1>17, <3>2
    <3>5. QED
      BY <1>5, <1>8, <3>1, <3>2, <3>3, <3>4
  <2>3. QED
    BY <1>3, <2>1, <2>2
<1> DEFINE old == FileBytes(e, d)
           V == Values(e, d) \cup Bytes
<1>21. old \in Seq(V) /\ text \in Seq(V)
  <2>1. \A A, B : A \subseteq B => Seq(A) \subseteq Seq(B)
    OBVIOUS
  <2>2. QED
    BY <1>13, <1>14, <2>1
<1> DEFINE both == old \o text
<1> HIDE DEF old, V
<1>22. /\ both \in Seq(V) /\ Len(both) = Len(old) + Len(text)
       /\ \A i \in 1 .. Len(old) + Len(text) :
              both[i] = IF i <= Len(old) THEN old[i] ELSE text[i - Len(old)]
  BY <1>21, ConcatProperties
<1> HIDE DEF both
<1>23. /\ both \in Seq(V) /\ Len(both) = m + size
       /\ \A i \in 1 .. m + size : both[i] = IF i <= m THEN old[i] ELSE text[i - m]
  BY <1>13, <1>14, <1>22 DEF old
<1>24. ASSUME NEW i \in 1 .. m + size
       PROVE  ByteOf(s, d2, i - 1) = both[i]
  <2>1. m \in Nat /\ size \in Nat /\ m + size \in Nat
    BY <1>1, <1>14
  <2>2. PICK a \in Nat : a + 1 = i /\ i - 1 = a /\ a < m + size
    <3>1. i - 1 \in Nat /\ (i - 1) + 1 = i /\ i - 1 < m + size
      BY <2>1
    <3>2. QED
      BY <3>1
  <2>3. CASE a < m
    <3>1. i <= m /\ i \in 1 .. m
      BY <2>1, <2>2, <2>3
    <3>2. ByteOf(s, d2, a) = old[i]
      BY <1>11, <1>19, <2>2, <2>3, <3>1 DEF old
    <3>3. QED
      BY <1>23, <2>2, <3>1, <3>2
  <2>4. CASE m <= a
    <3>1. ~(i <= m) /\ a - m + 1 = i - m
      BY <2>1, <2>2, <2>4
    <3>2. ByteOf(s, d2, a) = text[a - m + 1]
      BY <1>20, <2>2, <2>4
    <3>3. QED
      BY <1>23, <2>2, <3>1, <3>2
  <2>5. QED
    BY <2>1, <2>2, <2>3, <2>4
<1>25. both = [i \in 1 .. m + size |-> both[i]]
  BY <1>23
<1>26. FileBytes(s, d2) = both
  BY <1>12, <1>24, <1>25
<1>27. QED
  BY <1>26 DEF both, old

\* createFile: the new file has the asked number of zeros.
LEMMA CreateStored ==
    ASSUME StoresFiles, Intact, Intact',
           NEW f \in Files, NEW size \in CreateSizes, CreateData(f, size)
    PROVE  /\ ContentsNow[f] = Absent
           /\ ContentsNow' = [ContentsNow EXCEPT ![f] = [i \in 1 .. size |-> Zero]]
<1>1. Create(f, size) /\ ~(files[f].numExtents > 0)
  BY DEF CreateData, Create, CreateAllowed, Exists
<1> DEFINE Made(S, s) == /\ FATTABLE' = FATTABLE \cup S
                         /\ files' = [files EXCEPT ![f] = s]
                         /\ Form(s) /\ s.fileSize = size /\ s.numExtents = 1
                         /\ Run(s.extents[0]) = S
<1>0. PICK S \in Allocation(CeilBlocks(size)) : \E s : Made(S, s)
  BY <1>1, CreateForms
<1>2. PICK s : Made(S, s)
  BY <1>0
<1>3. S \subseteq DataBlocks /\ S \cap FATTABLE = {}
  BY DEF Allocation, FreeData
<1>4. disk' = [b \in DataBlocks |-> IF b \in S THEN EmptyBlock ELSE disk[b]]
  <2>1. Taken = S
    BY <1>2, <1>3 DEF Taken
  <2>2. QED
    BY <2>1 DEF CreateData, Zeroed
<1>5. files'[f] = s /\ \A g \in Files : g # f => files'[g] = files[g]
  BY <1>2 DEF StoresFiles, KeepsBlocks, TypeInv, EntriesShaped
<1>6. \A g \in Files : g # f => \A b \in BlocksOf(files[g]) : disk'[b] = disk[b]
  <2>1. ASSUME NEW g \in Files, NEW b \in BlocksOf(files[g]) PROVE disk'[b] = disk[b]
    <3>1. b \in DataBlocks /\ b \in FATTABLE
      BY FileBlocks
    <3>2. QED
      BY <1>3, <1>4, <3>1
  <2>2. QED
    BY <2>1
<1>7. ContentsNow'[f] = [i \in 1 .. size |-> Zero]
  <2>1. ContentsNow'[f] = FileBytes(s, disk')
    BY <1>2, <1>5 DEF ContentsNow
  <2>2. ASSUME NEW i \in 1 .. size PROVE ByteOf(s, disk', i - 1) = Zero
    <3> DEFINE a == i - 1
    <3>1. a \in Nat /\ a < s.fileSize
      <4>1. size \in Nat
        BY BlockStoreAssumption
      <4>2. QED
        BY <1>2, <4>1
    <3> HIDE DEF a
    <3>2. PICK q \in 0 .. BlockCount(s) - 1, p \in 0 .. BlockSize - 1 :
              q = a \div BlockSize /\ p = a % BlockSize /\ a = q * BlockSize + p
      BY <1>2, <3>1, InFile
    <3>3. BlockAt(s, q) \in S
      <4>1. PICK k \in 0 .. s.numExtents - 1 : BlockAt(s, q) \in Run(s.extents[k])
        BY <1>2, BlockIn
      <4>2. k = 0
        BY <1>2
      <4>3. QED
        BY <1>2, <4>1, <4>2
    <3>4. disk'[BlockAt(s, q)] = EmptyBlock
      BY <1>3, <1>4, <3>3
    <3>5. ByteOf(s, disk', a) = Zero
      BY <3>2, <3>4 DEF ByteOf, EmptyBlock
    <3>6. QED
      BY <3>5 DEF a
  <2>3. FileBytes(s, disk') = [i \in 1 .. size |-> Zero]
    BY <1>2, <2>2 DEF FileBytes
  <2>4. QED
    BY <2>1, <2>3
<1>8. ContentsNow[f] = Absent
  BY <1>1 DEF ContentsNow
<1>9. QED
  BY <1>5, <1>6, <1>7, <1>8, OneFileChanges

\* deleteFile: the file is gone and no other file lost a byte.
LEMMA DeleteStored ==
    ASSUME StoresFiles, Intact, Intact', NEW f \in Files, DeleteData(f)
    PROVE  /\ files[f].numExtents > 0
           /\ ContentsNow' = [ContentsNow EXCEPT ![f] = Absent]
<1>1. /\ Accessible(f) /\ files' = [files EXCEPT ![f] = NoFile]
      /\ disk' = Zeroed(ArrayBlocksOf(files[f]))
  BY DEF DeleteData, Delete
<1>2. files[f].numExtents > 0 /\ Form(files[f]) /\ files \in [Files -> AnyEntry]
  BY <1>1, FileForm DEF Accessible, Exists
<1>3. files'[f] = NoFile /\ \A g \in Files : g # f => files'[g] = files[g]
  BY <1>1, <1>2
<1>4. ArrayBlocksOf(files[f]) = BlocksOf(files[f])
  <2>1. files[f].numExtents \in 0 .. MaxExtents /\ Shape(files[f])
    BY <1>2, BlockStoreAssumption DEF Form
  <2>2. QED
    BY <2>1, ArrayBlocks
<1>5. \A g \in Files : g # f => \A b \in BlocksOf(files[g]) : disk'[b] = disk[b]
  <2>1. ASSUME NEW g \in Files, g # f, NEW b \in BlocksOf(files[g]) PROVE disk'[b] = disk[b]
    <3>1. b \in DataBlocks /\ b \notin BlocksOf(files[f])
      BY <2>1, FileBlocks
    <3>2. QED
      BY <1>1, <1>4, <3>1 DEF Zeroed
  <2>2. QED
    BY <2>1
<1>6. ContentsNow'[f] = Absent
  BY <1>3 DEF ContentsNow, NoFile
<1>7. QED
  BY <1>2, <1>3, <1>5, <1>6, OneFileChanges

\* writeFileData that overwrites: the file holds the text and nothing else.
LEMMA WriteStored ==
    ASSUME StoresFiles, Intact, Intact',
           NEW f \in Files, NEW text \in Texts, WriteData(f, text),
           NEW Bytes, text \in Seq(Bytes)
    PROVE  /\ files[f].numExtents > 0
           /\ ContentsNow' = [ContentsNow EXCEPT ![f] = text]
<1> DEFINE e == files[f]
           size == Len(text)
           start == e.extents[0].startBlock
<1>1. size \in ContentSizes /\ WriteTo(f, size) /\ size \in 1 .. BlockSize - 1
  BY TerminalTexts DEF WriteData
<1>2. PICK s : WriteStores(f, size, s)
  BY <1>1, WriteForms
<1>3. Accessible(f)
  BY <1>1 DEF WriteTo, Overwrite, Grow, Shrink
<1>4. e.numExtents > 0 /\ Form(e) /\ files \in [Files -> AnyEntry]
  BY <1>3, FileForm DEF Accessible, Exists
<1>5. start \in BlocksOf(e) /\ start \in DataBlocks
  <2>1. 0 \in 0 .. BlockCount(e) - 1
    BY <1>4, FormCount
  <2>2. BlockAt(e, 0) \in BlocksOf(e)
    BY <1>4, <2>1, PlaceInFile
  <2>3. QED
    BY <1>4, <2>2, FirstAndLast, FileBlocks
<1>6. disk' = [[b \in DataBlocks |-> disk[b]] EXCEPT ![start] = Put(@, 0, text)]
  <2>1. Taken = {}
    BY <1>2 DEF Taken, WriteStores
  <2>2. Zeroed(Taken) = [b \in DataBlocks |-> disk[b]]
    BY <2>1 DEF Zeroed
  <2>3. QED
    BY <2>2 DEF WriteData
<1>7. BlockAt(s, 0) = start
  BY <1>2, FirstAndLast DEF WriteStores
<1> HIDE DEF start
<1>8. disk'[start] = Put(disk[start], 0, text) /\ \A b \in DataBlocks : b # start => disk'[b] = disk[b]
  BY <1>5, <1>6
<1>9. \A g \in Files : g # f => \A b \in BlocksOf(files[g]) : disk'[b] = disk[b]
  <2>1. ASSUME NEW g \in Files, g # f, NEW b \in BlocksOf(files[g]) PROVE disk'[b] = disk[b]
    <3>1. b \in DataBlocks
      BY FileBlocks
    <3>2. b # start
      BY <1>5, <2>1, FileBlocks
    <3>3. QED
      BY <1>8, <3>1, <3>2
  <2>2. QED
    BY <2>1
<1>10. files'[f] = s /\ \A g \in Files : g # f => files'[g] = files[g]
  BY <1>2, <1>4 DEF WriteStores
<1>11. s.fileSize = size /\ s.numExtents = 1
  BY <1>2 DEF WriteStores
<1>12. ContentsNow'[f] = text
  <2>1. ContentsNow'[f] = FileBytes(s, disk')
    BY <1>10, <1>11 DEF ContentsNow
  <2>2. ASSUME NEW i \in 1 .. size PROVE ByteOf(s, disk', i - 1) = text[i]
    <3> DEFINE p == i - 1
    <3>1. p \in 0 .. BlockSize - 1 /\ p \in 0 .. 0 + Len(text) - 1 /\ p - 0 + 1 = i
      BY <1>1, BlockStoreAssumption
    <3> HIDE DEF p
    <3>2. p \div BlockSize = 0 /\ p % BlockSize = p
      BY <3>1, BlockStoreAssumption
    <3>3. ByteOf(s, disk', p) = disk'[start][p]
      BY <1>7, <3>2 DEF ByteOf
    <3>4. Put(disk[start], 0, text)[p] = text[i]
      BY <3>1 DEF Put
    <3>5. QED
      BY <1>8, <3>3, <3>4 DEF p
  <2>3. FileBytes(s, disk') = [i \in 1 .. size |-> text[i]]
    BY <1>11, <2>2 DEF FileBytes
  <2>4. text = [i \in 1 .. size |-> text[i]]
    OBVIOUS
  <2>5. QED
    BY <2>1, <2>3, <2>4
<1>13. QED
  BY <1>4, <1>9, <1>10, <1>12, OneFileChanges

\* writeFileData that appends: the text follows what the file held.
LEMMA AppendStored ==
    ASSUME StoresFiles, Intact, Intact',
           NEW f \in Files, NEW text \in Texts, AppendData(f, text),
           NEW Bytes, text \in Seq(Bytes)
    PROVE  /\ files[f].numExtents > 0
           /\ ContentsNow' = [ContentsNow EXCEPT ![f] = ContentsNow[f] \o text]
<1> DEFINE e == files[f]
           n == BlockCount(e)
           size == Len(text)
           tail == TailRoom(e)
           last == BlockAt(e, n - 1)
           room == IF size < tail THEN size ELSE tail
           head == SubSeq(text, 1, room)
           rest == SubSeq(text, room + 1, size)
           off == e.fileSize % BlockSize
<1>1. size \in ContentSizes /\ AppendTo(f, size) /\ size \in 1 .. BlockSize - 1
  BY TerminalTexts DEF AppendData
<1>2. PICK s : AppendStores(f, size, s)
  BY <1>1, AppendForms
<1>3. Accessible(f)
  BY <1>1 DEF AppendTo
<1>4. e.numExtents > 0 /\ Form(e) /\ files \in [Files -> AnyEntry]
  BY <1>3, FileForm DEF Accessible, Exists
<1>5. n \in Nat \ {0} /\ \A k \in 0 .. n - 1 : BlockAt(e, k) \in DataBlocks \cap FATTABLE
  BY <1>4, FormCount, PlaceInFile, FileBlocks
<1>6. disk' = [b \in DataBlocks |->
             IF b \in Taken THEN Put(EmptyBlock, 0, rest)
             ELSE IF b = last THEN Put(disk[b], off, head)
             ELSE disk[b]]
  BY <1>4, FirstAndLast DEF AppendData
<1>7. last \in BlocksOf(e) /\ last \in DataBlocks /\ last \in FATTABLE
  BY <1>4, <1>5, PlaceInFile
<1>8. /\ files'[f] = s /\ \A g \in Files : g # f => files'[g] = files[g]
      /\ Form(s) /\ s.fileSize = e.fileSize + size
      /\ \A k \in 0 .. e.numExtents - 1 : s.extents[k] = e.extents[k]
      /\ \/ size <= tail /\ s.numExtents = e.numExtents
         \/ /\ size > tail
            /\ s.numExtents = e.numExtents + 1 /\ s.extents[e.numExtents].length = 1
            /\ \E S \in Allocation(1) :
                  FATTABLE' = FATTABLE \cup S /\ Run(s.extents[e.numExtents]) = S
  BY <1>2, <1>4 DEF AppendStores
<1> HIDE DEF off, head, rest, last, tail
<1>9. disk'[last] = Put(disk[last], off, head)
  BY <1>6, <1>7 DEF Taken
<1>10. \A b \in DataBlocks : b \in FATTABLE /\ b # last => disk'[b] = disk[b]
  BY <1>6 DEF Taken
<1>11. \A g \in Files : g # f => \A b \in BlocksOf(files[g]) : disk'[b] = disk[b]
  <2>1. ASSUME NEW g \in Files, g # f, NEW b \in BlocksOf(files[g]) PROVE disk'[b] = disk[b]
    <3>1. b \in DataBlocks /\ b \in FATTABLE
      BY FileBlocks
    <3>2. b # last
      BY <1>7, <2>1, FileBlocks
    <3>3. QED
      BY <1>10, <3>1, <3>2
  <2>2. QED
    BY <2>1
<1>12. \A k \in 0 .. n - 2 : disk'[BlockAt(e, k)] = disk[BlockAt(e, k)]
  <2>1. ASSUME NEW k \in 0 .. n - 2 PROVE disk'[BlockAt(e, k)] = disk[BlockAt(e, k)]
    <3>1. k \in 0 .. n - 1 /\ n - 1 \in 0 .. n - 1 /\ k # n - 1
      BY <1>5
    <3>2. Apart(e)
      BY FileBlocks
    <3>3. BlockAt(e, k) # last
      BY <1>4, <3>1, <3>2, BlockOnce DEF last
    <3>4. QED
      BY <1>5, <1>10, <3>1, <3>3
  <2>2. QED
    BY <2>1
<1>13. /\ e.extents[0].length \in Nat \ {0} /\ e.numExtents \in Nat \ {0}
       /\ n = e.extents[0].length + e.numExtents - 1 /\ s.extents[0] = e.extents[0]
  BY <1>4, <1>8, FormCount DEF BlockCount
<1>14. \A k \in 0 .. n - 1 : BlockAt(s, k) = BlockAt(e, k)
  <2>1. ASSUME NEW k \in 0 .. n - 1 PROVE BlockAt(s, k) = BlockAt(e, k)
    <3>1. CASE k < e.extents[0].length
      BY <1>13, <3>1 DEF BlockAt
    <3>2. CASE ~(k < e.extents[0].length)
      <4>1. k - e.extents[0].length + 1 \in 0 .. e.numExtents - 1
        <5>1. \A a, b \in Nat \ {0} : \A c \in 0 .. (a + b - 1) - 1 :
                  ~(c < a) => c - a + 1 \in 0 .. b - 1
          OBVIOUS
        <5>2. QED
          BY <1>13, <3>2, <5>1
      <4>2. s.extents[k - e.extents[0].length + 1] = e.extents[k - e.extents[0].length + 1]
        BY <1>8, <4>1
      <4>3. QED
        BY <1>13, <3>2, <4>2 DEF BlockAt
    <3>3. QED
      BY <3>1, <3>2
  <2>2. QED
    BY <2>1
<1>15. size > tail => disk'[BlockAt(s, n)] = Put(EmptyBlock, 0, rest)
  <2>1. SUFFICES ASSUME size > tail PROVE disk'[BlockAt(s, n)] = Put(EmptyBlock, 0, rest)
    OBVIOUS
  <2>2. e.fileSize \in Nat
    BY <1>4, FormCount
  <2>3. tail \in Nat /\ size \in Nat
    BY <1>1, <2>2, TailRange DEF tail
  <2>4. ~(size <= tail)
    BY <2>1, <2>3
  <2>5. PICK S \in Allocation(1) : FATTABLE' = FATTABLE \cup S /\ Run(s.extents[e.numExtents]) = S
    BY <1>8, <2>4
  <2>6. BlockAt(s, n) = s.extents[e.numExtents].startBlock
    <3>1. ~(n < e.extents[0].length) /\ n - e.extents[0].length + 1 = e.numExtents
      BY <1>13
    <3> HIDE DEF n
    <3>2. QED
      BY <1>13, <3>1 DEF BlockAt
  <2>7. s.extents[e.numExtents].startBlock \in S
    <3>1. s.numExtents = e.numExtents + 1 /\ s.extents[e.numExtents].length = 1
      BY <1>8, <2>4
    <3>2. e.numExtents \in 0 .. s.numExtents - 1
      BY <1>13, <3>1
    <3>3. s.extents[e.numExtents].startBlock \in Int
      BY <1>8, <3>2 DEF Form, Shape, InData, Extents
    <3>4. QED
      BY <2>5, <3>1, <3>3 DEF Run
  <2>8. S \subseteq DataBlocks /\ S \cap FATTABLE = {}
    BY DEF Allocation, FreeData
  <2>9. S \subseteq Taken
    BY <2>5, <2>8 DEF Taken
  <2>10. QED
    BY <1>6, <2>6, <2>7, <2>8, <2>9
<1>16. FileBytes(s, disk') = FileBytes(e, disk) \o text
  <2>1. Appended(e, disk, s, disk', text)
    BY <1>8, <1>9, <1>12, <1>14, <1>15 DEF Appended, tail, last, off, head, rest
  <2> HIDE DEF e
  <2>2. QED
    BY <1>1, <1>4, <2>1, AppendedBytes
<1>17. ContentsNow'[f] = ContentsNow[f] \o text
  <2>1. s.numExtents > 0
    BY <1>8, FormCount
  <2>2. ContentsNow'[f] = FileBytes(s, disk')
    BY <1>8, <2>1 DEF ContentsNow
  <2>3. ContentsNow[f] = FileBytes(e, disk)
    BY <1>4 DEF ContentsNow
  <2>4. QED
    BY <1>16, <2>2, <2>3
<1>18. QED
  BY <1>4, <1>8, <1>11, <1>17, OneFileChanges

-----------------------------------------------------------------------------
\* No sequence of bytes means that there is no file.
AbsentIsNone == \A S : Absent \notin Seq(S)

\* A file that exists is there in the abstract store.
LEMMA ExistingIsThere ==
    ASSUME AbsentIsNone, StoresFiles, Intact, NEW f \in Files, files[f].numExtents > 0
    PROVE  ContentsNow[f] # Absent
<1>1. ContentsNow[f] = FileBytes(files[f], disk)
  BY DEF ContentsNow
<1>2. Form(files[f])
  BY DEF StoresFiles, Exists
<1>3. FileBytes(files[f], disk) \in Seq(Values(files[f], disk))
  BY <1>2, FileBytesSeq
<1>4. QED
  BY <1>1, <1>3 DEF AbsentIsNone

\* Every step of the bytes of an intact disk is promised, or it leaves the
\* contents alone.
LEMMA StepRefines ==
    ASSUME AbsentIsNone, NEW Bytes, Texts \subseteq Seq(Bytes),
           StoresFiles, StoresFiles', [DataNext]_dataVars
    PROVE  [Store!StoreNext]_<<ReadBack, Intact>>
<1>1. ReadBack = ContentsNow /\ ReadBack' = ContentsNow'
  BY ReadBackIs, ReadBackIsPrimed
<1>2. Intact \in BOOLEAN /\ Intact' \in BOOLEAN
  BY DEF Intact
<1>3. CASE ~Intact'
  BY <1>2, <1>3, Zenon DEF Store!StoreNext
<1>4. CASE Intact'
  <2>1. Intact
    BY <1>4, DataStepNext, StaysIntact
  <2>2. UNCHANGED Intact
    BY <1>2, <1>4, <2>1, Zenon
  <2>3. CASE UNCHANGED dataVars
    <3>1. UNCHANGED ContentsNow
      BY <1>4, <2>1, <2>3 DEF dataVars, ContentsNow
    <3>2. QED
      BY <1>1, <2>2, <3>1
  <2>4. ASSUME NEW f \in Files, NEW size \in CreateSizes, CreateData(f, size)
        PROVE  Store!CreateFile(f, size)
    BY <1>1, <1>4, <2>1, <2>4, CreateStored DEF Store!CreateFile, Store!Zeros
  <2>5. ASSUME NEW f \in Files, NEW text \in Texts, AppendData(f, text)
        PROVE  Store!AppendFile(f, text)
    <3>1. text \in Seq(Bytes)
      OBVIOUS
    <3>2. files[f].numExtents > 0 /\ ContentsNow' = [ContentsNow EXCEPT ![f] = ContentsNow[f] \o text]
      BY <1>4, <2>1, <2>5, <3>1, AppendStored
    <3>3. QED
      BY <1>1, <2>1, <3>2, ExistingIsThere DEF Store!AppendFile
  <2>6. ASSUME NEW f \in Files, NEW text \in Texts, WriteData(f, text)
        PROVE  Store!WriteFile(f, text)
    <3>1. text \in Seq(Bytes)
      OBVIOUS
    <3>2. files[f].numExtents > 0 /\ ContentsNow' = [ContentsNow EXCEPT ![f] = text]
      BY <1>4, <2>1, <2>6, <3>1, WriteStored
    <3>3. QED
      BY <1>1, <2>1, <3>2, ExistingIsThere DEF Store!WriteFile
  <2>7. ASSUME NEW f \in Files, DeleteData(f)
        PROVE  Store!RemoveFile(f)
    <3>1. files[f].numExtents > 0 /\ ContentsNow' = [ContentsNow EXCEPT ![f] = Absent]
      BY <1>4, <2>1, <2>7, DeleteStored
    <3>2. QED
      BY <1>1, <2>1, <3>1, ExistingIsThere DEF Store!RemoveFile
  <2>8. CASE DataNext
    <3>1. Store!Promised
      BY <2>4, <2>5, <2>6, <2>7, <2>8 DEF DataNext, Store!Promised
    <3>2. QED
      BY <2>1, <2>2, <3>1 DEF Store!StoreNext
  <2>9. QED
    BY <2>3, <2>8
<1>5. QED
  BY <1>3, <1>4

\* A formatted disk is an empty store.
LEMMA InitRefines == DataInit => Store!StoreInit
<1> SUFFICES ASSUME DataInit PROVE ReadBack = [f \in Files |-> Absent] /\ Intact = TRUE
  BY DEF Store!StoreInit
<1>1. \A f \in Files : ~Exists(f)
  BY DEF DataInit, Init, Exists, NoFile
<1>2. Intact
  BY DEF DataInit, Init, Intact
<1>3. QED
  BY <1>1, <1>2 DEF ReadBack, Intact

\* The file store implements FileStore: a create gives a file of zeros, a write
\* replaces the contents, an append extends them, a delete removes the file,
\* none of them touches another file, and readFileData returns what was stored,
\* until an extent is merged with blocks it was not given, a bit is torn off a
\* block that is kept, an append is short of a block or an extent lands behind
\* the array.  For every disk, every number of files, creates of every size and
\* every set of texts a terminal can send, with saves that fail or not.
THEOREM StoreImplemented ==
    ASSUME AbsentIsNone, NEW Bytes, Texts \subseteq Seq(Bytes)
    PROVE  DataSpec => ImplementsFileStore
<1>1. DataInit => StoresFiles
  BY InitForms DEF DataInit
<1>2. StoresFiles /\ [DataNext]_dataVars => StoresFiles'
  BY DataStepNext, StepForms
<1>3. DataInit => Store!StoreInit
  BY InitRefines
<1>4. StoresFiles /\ StoresFiles' /\ [DataNext]_dataVars => [Store!StoreNext]_<<ReadBack, Intact>>
  BY StepRefines
<1>5. QED
  BY <1>1, <1>2, <1>3, <1>4, PTL DEF DataSpec, ImplementsFileStore, Store!StoreSpec, Store!storeVars
=============================================================================
