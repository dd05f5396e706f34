------------------------- MODULE MatrixKernelProofs -------------------------
(***************************************************************************)
(* What MatrixKernel computes, for every size of the matrices and of the   *)
(* groups, and that the report of MatrixHost about it is true, proved with *)
(* TLAPS.                                                                  *)
(***************************************************************************)
EXTENDS MatrixHost, SequenceTheorems, TLAPS

-----------------------------------------------------------------------------
(***************************************************************************)
(* Two-digit numbers: the pair of a group number and a local number, or of *)
(* a column and a row.                                                     *)
(***************************************************************************)
\* Multiplication is monotone.
LEMMA MulMono ==
    ASSUME NEW a \in Int, NEW b \in Int, NEW c \in Nat, a <= b
    PROVE  c * a <= c * b
<1>1. c * (b - a) >= 0
  <2>1. b - a \in Nat
    OBVIOUS
  <2>2. ASSUME NEW d \in Nat PROVE c * d \in Nat
    OBVIOUS
  <2> QED
    BY <2>1, <2>2
<1>2. c * (b - a) = c * b - c * a
  OBVIOUS
<1>3. c * a \in Int /\ c * b \in Int
  OBVIOUS
<1> QED
  BY <1>1, <1>2, <1>3

LEMMA DigitsInRange ==
    ASSUME NEW e \in Nat \ {0}, NEW n \in Nat, NEW a \in 0 .. n - 1, NEW d \in 0 .. e - 1
    PROVE  e * a + d \in 0 .. e * n - 1
<1>1. e * (a + 1) <= e * n
  BY MulMono
<1>2. e * (a + 1) = e * a + e /\ e * a \in Int /\ e * n \in Int
  OBVIOUS
<1>3. e * 0 <= e * a
  BY MulMono
<1> QED
  BY <1>1, <1>2, <1>3

LEMMA DigitsUnique ==
    ASSUME NEW e \in Nat \ {0}, NEW a \in Int, NEW b \in Int,
           NEW d \in 0 .. e - 1, NEW f \in 0 .. e - 1, e * a + d = e * b + f
    PROVE  a = b /\ d = f
<1>0. e * a \in Int /\ e * b \in Int
  OBVIOUS
<1>1. ASSUME a + 1 <= b PROVE FALSE
  <2>1. e * (a + 1) <= e * b
    BY <1>1, MulMono
  <2>2. e * (a + 1) = e * a + e
    OBVIOUS
  <2> QED
    BY <1>0, <2>1, <2>2
<1>2. ASSUME b + 1 <= a PROVE FALSE
  <2>1. e * (b + 1) <= e * a
    BY <1>2, MulMono
  <2>2. e * (b + 1) = e * b + e
    OBVIOUS
  <2> QED
    BY <1>0, <2>1, <2>2
<1>3. a = b
  BY <1>1, <1>2
<1> QED
  BY <1>0, <1>3

-----------------------------------------------------------------------------
\* The beginning of the CPU's sum, and one term more.
Sum(n, row, col) == [x \in 1 .. n |-> Term(x - 1, row, col)]

Pair == Int \X Int

LEMMA TermType ==
    ASSUME NEW n \in Int, NEW row \in Int, NEW col \in Int
    PROVE  Term(n, row, col) \in Pair
BY MatrixKernelAssumption DEF Term, Pair

LEMMA SumType ==
    ASSUME NEW n \in Nat, NEW row \in Int, NEW col \in Int
    PROVE  Sum(n, row, col) \in Seq(Pair) /\ Len(Sum(n, row, col)) = n
<1>1. \A x \in 1 .. n : Term(x - 1, row, col) \in Pair
  BY TermType
<1>2. Sum(n, row, col) \in [1 .. n -> Pair]
  BY <1>1 DEF Sum
<1> QED
  BY <1>2

LEMMA SumGrows ==
    ASSUME NEW n \in Nat, NEW row \in Int, NEW col \in Int
    PROVE  Append(Sum(n, row, col), Term(n, row, col)) = Sum(n + 1, row, col)
<1> DEFINE s == Sum(n, row, col)
<1> DEFINE e == Term(n, row, col)
<1> DEFINE u == Sum(n + 1, row, col)
<1>0. n + 1 \in Nat
  OBVIOUS
<1>1. s \in Seq(Pair) /\ Len(s) = n
  BY ONLY SumType, n \in Nat, row \in Int, col \in Int
<1>11. e \in Pair
  BY TermType
<1>2. u \in Seq(Pair) /\ Len(u) = n + 1
  BY <1>0, SumType
<1>3. /\ Append(s, e) \in Seq(Pair) /\ Len(Append(s, e)) = n + 1
      /\ \A x \in 1 .. n : Append(s, e)[x] = s[x]
      /\ Append(s, e)[n + 1] = e
  <2> HIDE DEF s, e
  <2> QED
    BY <1>1, <1>11, AppendProperties
<1>4. \A x \in 1 .. n : s[x] = u[x]
  BY DEF Sum
<1>5. u[n + 1] = e
  BY DEF Sum
<1>6. \A x \in 1 .. n + 1 : Append(s, e)[x] = u[x]
  <2> HIDE DEF s, e, u
  <2> QED
    BY <1>3, <1>4, <1>5
<1> QED
  <2> HIDE DEF s, e, u
  <2>1. Append(s, e) = u
    BY <1>2, <1>3, <1>6, SeqEqual
  <2> QED
    BY <2>1 DEF s, e, u

-----------------------------------------------------------------------------
(***************************************************************************)
(* Work-items                                                              *)
(***************************************************************************)
LEMMA MembersOf ==
    ASSUME NEW g \in Group, NEW i \in Item
    PROVE  i \in Members(g) <=> GroupOf(i) = g
BY DEF Members, GroupOf, Group, Item, Local

LEMMA IdsInRange ==
    ASSUME NEW i \in Item
    PROVE  Id0(i) \in 0 .. M - 1 /\ Id1(i) \in 0 .. N - 1
<1>1. i.gr \in 0 .. GroupRows - 1 /\ i.gc \in 0 .. GroupCols - 1 /\ i.r \in 0 .. TS - 1 /\ i.c \in 0 .. TS - 1
  BY DEF Item, Local
<1>2. /\ TS \in Nat \ {0} /\ GroupRows \in Nat /\ GroupCols \in Nat
      /\ M = TS * GroupRows /\ N = TS * GroupCols
  BY MatrixKernelAssumption
<1>a. TS \in Nat \ {0} /\ GroupRows \in Nat /\ GroupCols \in Nat
  BY <1>2
<1>3. TS * i.gr + i.r \in 0 .. TS * GroupRows - 1
  <2> DEFINE a == i.gr
  <2> DEFINE d == i.r
  <2> DEFINE n == GroupRows
  <2>1. a \in 0 .. n - 1 /\ d \in 0 .. TS - 1 /\ n \in Nat
    BY <1>1, <1>a
  <2> HIDE DEF a, d, n
  <2>2. TS * a + d \in 0 .. TS * n - 1
    BY ONLY <2>1, <1>a, DigitsInRange
  <2> QED
    BY <2>2 DEF a, d, n
<1>4. TS * i.gc + i.c \in 0 .. TS * GroupCols - 1
  <2> DEFINE a == i.gc
  <2> DEFINE d == i.c
  <2> DEFINE n == GroupCols
  <2>1. a \in 0 .. n - 1 /\ d \in 0 .. TS - 1 /\ n \in Nat
    BY <1>1, <1>a
  <2> HIDE DEF a, d, n
  <2>2. TS * a + d \in 0 .. TS * n - 1
    BY ONLY <2>1, <1>a, DigitsInRange
  <2> QED
    BY <2>2 DEF a, d, n
<1> QED
  BY <1>2, <1>3, <1>4 DEF Id0, Id1

LEMMA IdsUnique ==
    ASSUME NEW i \in Item, NEW j \in Item, Id0(i) = Id0(j), Id1(i) = Id1(j)
    PROVE  i = j
<1>1. /\ i.gr \in Int /\ i.gc \in Int /\ i.r \in 0 .. TS - 1 /\ i.c \in 0 .. TS - 1
      /\ j.gr \in Int /\ j.gc \in Int /\ j.r \in 0 .. TS - 1 /\ j.c \in 0 .. TS - 1
  BY DEF Item, Local
<1>2. TS \in Nat \ {0}
  BY MatrixKernelAssumption
<1>3. TS * i.gr + i.r = TS * j.gr + j.r /\ TS * i.gc + i.c = TS * j.gc + j.c
  BY DEF Id0, Id1
<1>4. i.gr = j.gr /\ i.r = j.r
  <2> DEFINE a == i.gr
  <2> DEFINE d == i.r
  <2> DEFINE b == j.gr
  <2> DEFINE f == j.r
  <2>1. /\ a \in Int /\ d \in 0 .. TS - 1 /\ b \in Int /\ f \in 0 .. TS - 1
        /\ TS * a + d = TS * b + f /\ TS \in Nat \ {0}
    BY <1>1, <1>2, <1>3
  <2> HIDE DEF a, d, b, f
  <2>2. a = b /\ d = f
    BY ONLY <2>1, DigitsUnique
  <2> QED
    BY <2>2 DEF a, d, b, f
<1>5. i.gc = j.gc /\ i.c = j.c
  <2> DEFINE a == i.gc
  <2> DEFINE d == i.c
  <2> DEFINE b == j.gc
  <2> DEFINE f == j.c
  <2>1. /\ a \in Int /\ d \in 0 .. TS - 1 /\ b \in Int /\ f \in 0 .. TS - 1
        /\ TS * a + d = TS * b + f /\ TS \in Nat \ {0}
    BY <1>1, <1>2, <1>3
  <2> HIDE DEF a, d, b, f
  <2>2. a = b /\ d = f
    BY ONLY <2>1, DigitsUnique
  <2> QED
    BY <2>2 DEF a, d, b, f
<1> QED
  BY <1>4, <1>5 DEF Item

\* Where an item writes, which is where no other item writes.
LEMMA CellsInRange ==
    ASSUME NEW i \in Item, kernel = "myGEMM1b" => M = N
    PROVE  Row(i) \in 0 .. M - 1 /\ Col(i) \in 0 .. N - 1 /\ Cell(Row(i), Col(i)) \in 0 .. M * N - 1
<1>1. Row(i) \in 0 .. M - 1 /\ Col(i) \in 0 .. N - 1
  BY IdsInRange DEF Row, Col
<1>2. M \in Nat \ {0} /\ N \in Nat
  BY MatrixKernelAssumption
<1>3. M * Col(i) + Row(i) \in 0 .. M * N - 1
  BY <1>1, <1>2, DigitsInRange
<1> QED
  BY <1>1, <1>2, <1>3 DEF Cell

LEMMA CellsUnique ==
    ASSUME NEW i \in Item, NEW j \in Item, kernel = "myGEMM1b" => M = N,
           Cell(Row(i), Col(i)) = Cell(Row(j), Col(j))
    PROVE  i = j
<1>1. /\ Row(i) \in 0 .. M - 1 /\ Col(i) \in 0 .. N - 1
      /\ Row(j) \in 0 .. M - 1 /\ Col(j) \in 0 .. N - 1
  BY CellsInRange
<1>2. M \in Nat \ {0} /\ N \in Nat
  BY MatrixKernelAssumption
<1>3. M * Col(i) + Row(i) = M * Col(j) + Row(j)
  BY <1>1, <1>2 DEF Cell
<1>4. Row(i) = Row(j) /\ Col(i) = Col(j)
  <2> DEFINE a == Col(i)
  <2> DEFINE d == Row(i)
  <2> DEFINE b == Col(j)
  <2> DEFINE f == Row(j)
  <2>1. /\ a \in Int /\ d \in 0 .. M - 1 /\ b \in Int /\ f \in 0 .. M - 1
        /\ M * a + d = M * b + f /\ M \in Nat \ {0}
    BY <1>1, <1>2, <1>3
  <2> HIDE DEF a, d, b, f
  <2>2. a = b /\ d = f
    BY ONLY <2>1, DigitsUnique
  <2> QED
    BY <2>2 DEF a, d, b, f
<1>5. Id0(i) = Id0(j) /\ Id1(i) = Id1(j)
  BY <1>4 DEF Row, Col
<1> QED
  BY <1>5, IdsUnique

-----------------------------------------------------------------------------
(***************************************************************************)
(* The invariant                                                           *)
(***************************************************************************)
Loading == {"load", "loaded"}
Summing == {"sum", "summed"}

\* Where the items of each kernel can be.
Places ==
    /\ kernel = "myGEMM1b" => M = N
    /\ kernel = "myAdd" => \A i \in Item : pc[i] \in {"ready", "store", "stored"}
    /\ kernel \in {"myGEMM1", "myGEMM1b"} =>
            \A i \in Item : pc[i] \in {"ready", "sum", "store", "stored"}

\* What the barriers are for: the items of a group are at the same tile, and
\* all load it or all use it.
Lockstep ==
    \A i, j \in Item : GroupOf(i) = GroupOf(j) =>
        /\ t[i] = t[j]
        /\ pc[i] \in Loading <=> pc[j] \in Loading
        /\ pc[i] \in Summing <=> pc[j] \in Summing

\* How far an item of myGEMM2 is.
Progress ==
    \A i \in Item :
        /\ pc[i] = "ready" => t[i] = 0
        /\ pc[i] \in Loading \cup Summing => t[i] < NumTiles
        /\ pc[i] \in {"store", "stored"} => t[i] = NumTiles
        /\ pc[i] \in Summing => k[i] <= TS
        /\ pc[i] = "sum" => k[i] < TS
        /\ pc[i] = "summed" => k[i] = TS
        /\ pc[i] \notin Summing => k[i] = 0

\* Its sum is the CPU's as far as it goes.
SumSoFar == \A i \in Item : acc[i] = Sum(TS * t[i] + k[i], Row(i), Col(i))

\* What it has loaded is its element of the present tile.
TileOf(i) ==
    /\ asub[GroupOf(i)][<<i.c, i.r>>] = (TS * t[i] + i.c) * M + Id0(i)
    /\ bsub[GroupOf(i)][<<i.c, i.r>>] = Id1(i) * K + (TS * t[i] + i.r)

TilesRight == \A i \in Item : pc[i] \in {"loaded", "sum", "summed"} => TileOf(i)

Tiled == Lockstep /\ Progress /\ SumSoFar /\ TilesRight

Simple == \A i \in Item : pc[i] \in {"store", "stored"} => acc[i] = Dot(Row(i), Col(i))

IInv ==
    /\ TypeOK
    /\ Places
    /\ kernel = "myGEMM2" => Tiled
    /\ kernel \in {"myGEMM1", "myGEMM1b"} => Simple
    /\ CellsRight

-----------------------------------------------------------------------------
(***************************************************************************)
(* The first state, and what the steps of a whole group have in common     *)
(***************************************************************************)
LEMMA SumEmpty ==
    ASSUME NEW row, NEW col
    PROVE  Sum(0, row, col) = <<>>
BY DEF Sum

\* There is a tile, because K is positive.
LEMMA SomeTile == NumTiles >= 1
<1>1. TS \in Nat \ {0} /\ NumTiles \in Nat /\ K = TS * NumTiles /\ K \in Nat \ {0}
  BY MatrixKernelAssumption
<1>2. NumTiles # 0
  <2>1. TS * 0 = 0
    BY <1>1
  <2> QED
    BY <1>1, <2>1
<1> QED
  BY <1>1, <1>2

LEMMA InitHolds == Init => IInv
<1> SUFFICES ASSUME Init PROVE IInv
  OBVIOUS
<1>1. TypeOK
  BY DEF Init, TypeOK, CanLaunch, Undefined, ItemPc
<1>2. Places
  BY DEF Init, Places, CanLaunch
<1>3. Tiled
  <2>1. Lockstep
    BY DEF Init, Lockstep, Loading, Summing
  <2>2. Progress
    BY DEF Init, Progress, Loading, Summing
  <2>3. SumSoFar
    <3> SUFFICES ASSUME NEW i \in Item PROVE acc[i] = Sum(TS * t[i] + k[i], Row(i), Col(i))
      BY DEF SumSoFar
    <3>1. acc[i] = <<>> /\ t[i] = 0 /\ k[i] = 0
      BY DEF Init
    <3>2. TS * 0 + 0 = 0
      BY MatrixKernelAssumption
    <3> QED
      BY <3>1, <3>2, SumEmpty
  <2>4. TilesRight
    BY DEF Init, TilesRight
  <2> QED
    BY <2>1, <2>2, <2>3, <2>4 DEF Tiled
<1>4. Simple /\ CellsRight
  BY DEF Init, Simple, CellsRight
<1> QED
  BY <1>1, <1>2, <1>3, <1>4 DEF IInv

LEMMA IdsKept ==
    ASSUME kernel' = kernel
    PROVE  \A i : Row(i)' = Row(i) /\ Col(i)' = Col(i)
BY DEF Row, Col

LEMMA GroupHasItem ==
    ASSUME NEW g \in Group
    PROVE  \E i \in Item : GroupOf(i) = g
<1> DEFINE i == [gr |-> g.gr, gc |-> g.gc, r |-> 0, c |-> 0]
<1>1. i \in Item /\ GroupOf(i) = g
  BY MatrixKernelAssumption DEF Item, Group, GroupOf, Local
<1> QED
  BY <1>1

LEMMA AllFacts ==
    ASSUME TypeOK, NEW g \in Group, NEW from, NEW to \in ItemPc, All(g, from, to)
    PROVE  /\ pc' \in [Item -> ItemPc]
           /\ \A i \in Item : GroupOf(i) = g => pc[i] = from /\ pc'[i] = to
           /\ \A i \in Item : GroupOf(i) # g => pc'[i] = pc[i]
BY MembersOf DEF All, TypeOK

\* No item writes C: what has been stored stays.
LEMMA CellsStay ==
    ASSUME CellsRight, UNCHANGED <<kernel, cells>>,
           \A i \in Item : pc'[i] = "stored" => pc[i] = "stored"
    PROVE  CellsRight'
BY IdsKept DEF CellsRight, Dot, Term, Cell

-----------------------------------------------------------------------------
(***************************************************************************)
(* Steps of a group                                                        *)
(***************************************************************************)
LEMMA DispatchKeeps ==
    ASSUME IInv, NEW g \in Group, Dispatch(g)
    PROVE  IInv'
<1> DEFINE to == CASE kernel = "myAdd" -> "store" [] kernel = "myGEMM2" -> "load" [] OTHER -> "sum"
<1>0. TypeOK /\ Places /\ CellsRight
  BY DEF IInv
<1>1. to \in ItemPc /\ All(g, "ready", to)
  BY DEF Dispatch, ItemPc
<1>2. UNCHANGED <<kernel, t, k, acc, asub, bsub, cells>>
  BY DEF Dispatch, tiles
<1>3. /\ pc' \in [Item -> ItemPc]
      /\ \A i \in Item : GroupOf(i) = g => pc[i] = "ready" /\ pc'[i] = to
      /\ \A i \in Item : GroupOf(i) # g => pc'[i] = pc[i]
  <2> HIDE DEF to
  <2> QED
    BY <1>0, <1>1, AllFacts
<1>4. TypeOK'
  BY <1>0, <1>2, <1>3 DEF TypeOK
<1>5. Places'
  BY <1>0, <1>2, <1>3 DEF Places
<1>6. CellsRight'
  <2>1. \A i \in Item : pc'[i] = "stored" => pc[i] = "stored"
    BY <1>3
  <2> QED
    BY <1>0, <1>2, <2>1, CellsStay
<1>7. ASSUME kernel' = "myGEMM2" PROVE Tiled'
  <2>0. Lockstep /\ Progress /\ SumSoFar /\ TilesRight /\ to = "load"
    BY <1>2, <1>7 DEF IInv, Tiled
  <2> HIDE DEF to
  <2>1. Lockstep'
    BY <1>2, <1>3, <2>0 DEF Lockstep, Loading, Summing
  <2>2. Progress'
    BY <1>2, <1>3, <2>0, SomeTile, MatrixKernelAssumption DEF Progress, Loading, Summing
  <2>3. SumSoFar'
    BY <1>2, <2>0, IdsKept DEF SumSoFar
  <2>4. TilesRight'
    BY <1>2, <1>3, <2>0 DEF TilesRight, TileOf
  <2> QED
    BY <2>1, <2>2, <2>3, <2>4 DEF Tiled
<1>8. ASSUME kernel' \in {"myGEMM1", "myGEMM1b"} PROVE Simple'
  <2>0. Simple /\ to = "sum"
    BY <1>2, <1>8 DEF IInv
  <2> HIDE DEF to
  <2> QED
    BY <1>2, <1>3, <2>0, IdsKept DEF Simple, Dot, Term
<1> QED
  BY <1>4, <1>5, <1>6, <1>7, <1>8 DEF IInv

\* Only the items of myGEMM2 load, and none of myAdd's sums.
LEMMA OnlyTiles ==
    ASSUME Places, TypeOK, NEW i \in Item, pc[i] \in {"load", "loaded", "summed"}
    PROVE  kernel = "myGEMM2"
BY DEF Places, TypeOK, Kernels

LEMMA TileLoadedKeeps ==
    ASSUME IInv, NEW g \in Group, TileLoaded(g)
    PROVE  IInv'
<1>0. TypeOK /\ Places /\ CellsRight
  BY DEF IInv
<1>2. UNCHANGED <<kernel, t, k, acc, asub, bsub, cells>>
  BY DEF TileLoaded, tiles
<1>3. /\ pc' \in [Item -> ItemPc]
      /\ \A i \in Item : GroupOf(i) = g => pc[i] = "loaded" /\ pc'[i] = "sum"
      /\ \A i \in Item : GroupOf(i) # g => pc'[i] = pc[i]
  BY <1>0, AllFacts DEF TileLoaded, ItemPc
<1>a. kernel = "myGEMM2"
  BY <1>0, <1>3, GroupHasItem, OnlyTiles
<1>4. TypeOK'
  BY <1>0, <1>2, <1>3 DEF TypeOK
<1>5. Places'
  BY <1>2, <1>a DEF Places
<1>6. CellsRight'
  <2>1. \A i \in Item : pc'[i] = "stored" => pc[i] = "stored"
    BY <1>3
  <2> QED
    BY <1>0, <1>2, <2>1, CellsStay
<1>7. Tiled'
  <2>0. Lockstep /\ Progress /\ SumSoFar /\ TilesRight
    BY <1>a DEF IInv, Tiled
  <2>1. Lockstep'
    BY <1>2, <1>3, <2>0 DEF Lockstep, Loading, Summing
  <2>2. Progress'
    BY <1>2, <1>3, <2>0, MatrixKernelAssumption DEF Progress, Loading, Summing
  <2>3. SumSoFar'
    BY <1>2, <2>0, IdsKept DEF SumSoFar
  <2>4. TilesRight'
    BY <1>2, <1>3, <2>0 DEF TilesRight, TileOf
  <2> QED
    BY <2>1, <2>2, <2>3, <2>4 DEF Tiled
<1> QED
  BY <1>2, <1>4, <1>5, <1>6, <1>7, <1>a DEF IInv

LEMMA TileDoneKeeps ==
    ASSUME IInv, NEW g \in Group, TileDone(g)
    PROVE  IInv'
<1>0. TypeOK /\ Places /\ CellsRight
  BY DEF IInv
<1>2. UNCHANGED <<kernel, acc, asub, bsub, cells>>
  BY DEF TileDone, tiles
<1>3. /\ \A i \in Item : GroupOf(i) = g =>
            pc[i] = "summed" /\ pc'[i] = AfterTile(i) /\ t'[i] = t[i] + 1 /\ k'[i] = 0
      /\ \A i \in Item : GroupOf(i) # g => pc'[i] = pc[i] /\ t'[i] = t[i] /\ k'[i] = k[i]
  BY <1>0, MembersOf DEF TileDone, TypeOK
<1>a. kernel = "myGEMM2"
  BY <1>0, <1>3, GroupHasItem, OnlyTiles
<1>4. TypeOK'
  <2>1. pc' \in [Item -> ItemPc] /\ t' \in [Item -> Nat] /\ k' \in [Item -> Nat]
    BY <1>0 DEF TileDone, TypeOK, AfterTile, ItemPc
  <2> QED
    BY <1>0, <1>2, <2>1 DEF TypeOK
<1>5. Places'
  BY <1>2, <1>a DEF Places
<1>6. CellsRight'
  <2>1. \A i \in Item : pc'[i] = "stored" => pc[i] = "stored"
    BY <1>3 DEF AfterTile
  <2> QED
    BY <1>0, <1>2, <2>1, CellsStay
<1>7. Tiled'
  <2>0. Lockstep /\ Progress /\ SumSoFar /\ TilesRight
    BY <1>a DEF IInv, Tiled
  <2>1. Lockstep'
    BY <1>2, <1>3, <2>0 DEF Lockstep, Loading, Summing, AfterTile
  <2>2. Progress'
    <3> SUFFICES ASSUME NEW i \in Item
                 PROVE  /\ pc'[i] = "ready" => t'[i] = 0
                        /\ pc'[i] \in Loading \cup Summing => t'[i] < NumTiles
                        /\ pc'[i] \in {"store", "stored"} => t'[i] = NumTiles
                        /\ pc'[i] \in Summing => k'[i] <= TS
                        /\ pc'[i] = "sum" => k'[i] < TS
                        /\ pc'[i] = "summed" => k'[i] = TS
                        /\ pc'[i] \notin Summing => k'[i] = 0
      BY DEF Progress
    <3>1. CASE GroupOf(i) = g
      <4>1. /\ pc'[i] = AfterTile(i) /\ t'[i] = t[i] + 1 /\ k'[i] = 0
            /\ t[i] < NumTiles /\ t[i] \in Nat /\ NumTiles \in Nat
        BY <1>0, <1>3, <2>0, <3>1, MatrixKernelAssumption DEF Progress, Summing, TypeOK
      <4> QED
        BY <4>1 DEF AfterTile, Loading, Summing
    <3>2. CASE GroupOf(i) # g
      BY <1>3, <2>0, <3>2 DEF Progress
    <3> QED
      BY <3>1, <3>2
  <2>3. SumSoFar'
    <3> SUFFICES ASSUME NEW i \in Item
                 PROVE  acc'[i] = Sum(TS * t'[i] + k'[i], Row(i), Col(i))
      BY <1>2, IdsKept DEF SumSoFar
    <3>1. CASE GroupOf(i) = g
      <4>1. k[i] = TS /\ t[i] \in Nat /\ TS \in Nat
        BY <1>0, <1>3, <2>0, <3>1, MatrixKernelAssumption DEF Progress, TypeOK
      <4>2. TS * (t[i] + 1) + 0 = TS * t[i] + k[i]
        BY <4>1
      <4> QED
        BY <1>2, <1>3, <2>0, <3>1, <4>2 DEF SumSoFar
    <3>2. CASE GroupOf(i) # g
      BY <1>2, <1>3, <2>0, <3>2 DEF SumSoFar
    <3> QED
      BY <3>1, <3>2
  <2>4. TilesRight'
    BY <1>2, <1>3, <2>0 DEF TilesRight, TileOf, AfterTile
  <2> QED
    BY <2>1, <2>2, <2>3, <2>4 DEF Tiled
<1> QED
  BY <1>2, <1>4, <1>5, <1>6, <1>7, <1>a DEF IInv

-----------------------------------------------------------------------------
(***************************************************************************)
(* Steps of an item                                                        *)
(***************************************************************************)
LEMMA AccumulateKeeps ==
    ASSUME IInv, NEW i \in Item, Accumulate(i)
    PROVE  IInv'
<1>0. TypeOK /\ Places /\ CellsRight /\ Simple /\ kernel \in {"myGEMM1", "myGEMM1b"}
  BY DEF IInv, Accumulate
<1>1. /\ UNCHANGED <<kernel, t, k, asub, bsub, cells>>
      /\ pc[i] = "sum" /\ pc' = [pc EXCEPT ![i] = "store"]
      /\ acc' = [acc EXCEPT ![i] = Dot(Row(i), Col(i))]
  BY DEF Accumulate, tiles, Dot
<1>2. Dot(Row(i), Col(i)) \in Seq(Int \X Int)
  <2>1. Row(i) \in Int /\ Col(i) \in Int
    BY <1>0, CellsInRange, MatrixKernelAssumption DEF Places
  <2>2. Dot(Row(i), Col(i)) = Sum(K, Row(i), Col(i))
    BY DEF Dot, Sum
  <2>3. K \in Nat
    BY MatrixKernelAssumption
  <2> QED
    BY ONLY <2>1, <2>2, <2>3, SumType DEF Pair
<1>3. TypeOK'
  <2>1. pc' \in [Item -> ItemPc]
    BY <1>0, <1>1 DEF TypeOK, ItemPc
  <2>2. acc' \in [Item -> Seq(Int \X Int)]
    BY <1>0, <1>1, <1>2 DEF TypeOK
  <2> QED
    BY <1>0, <1>1, <2>1, <2>2 DEF TypeOK
<1>4. Places'
  BY <1>0, <1>1 DEF Places, TypeOK
<1>5. CellsRight'
  <2>1. \A j \in Item : pc'[j] = "stored" => pc[j] = "stored"
    BY <1>0, <1>1 DEF TypeOK
  <2> QED
    BY <1>0, <1>1, <2>1, CellsStay
<1>6. Simple'
  <2> SUFFICES ASSUME NEW j \in Item, pc'[j] \in {"store", "stored"}
               PROVE  acc'[j] = Dot(Row(j), Col(j))
    BY <1>1, IdsKept DEF Simple, Dot, Term
  <2>1. CASE j = i
    BY <1>0, <1>1, <2>1 DEF TypeOK
  <2>2. CASE j # i
    BY <1>0, <1>1, <2>2 DEF TypeOK, Simple
  <2> QED
    BY <2>1, <2>2
<1> QED
  BY <1>0, <1>1, <1>3, <1>4, <1>5, <1>6 DEF IInv

\* Two items of a group have different places in its tiles.
LEMMA PlacesInTile ==
    ASSUME NEW i \in Item, NEW j \in Item, GroupOf(i) = GroupOf(j), i # j
    PROVE  <<i.c, i.r>> # <<j.c, j.r>>
BY DEF Item, GroupOf, Local

LEMMA LoadKeeps ==
    ASSUME IInv, NEW i \in Item, Load(i)
    PROVE  IInv'
<1> DEFINE a == (TS * t[i] + i.c) * M + Row(i)
<1> DEFINE b == Col(i) * K + (TS * t[i] + i.r)
<1>0. TypeOK /\ Places /\ CellsRight
  BY DEF IInv
<1>1. /\ UNCHANGED <<kernel, t, k, acc, cells>>
      /\ pc[i] = "load" /\ pc' = [pc EXCEPT ![i] = "loaded"]
      /\ asub' = [asub EXCEPT ![GroupOf(i)][<<i.c, i.r>>] = a]
      /\ bsub' = [bsub EXCEPT ![GroupOf(i)][<<i.c, i.r>>] = b]
  BY DEF Load
<1>2. kernel = "myGEMM2"
  BY <1>0, <1>1, OnlyTiles
<1>3. a = (TS * t[i] + i.c) * M + Id0(i) /\ b = Id1(i) * K + (TS * t[i] + i.r)
  BY <1>2 DEF Row, Col
<1>4. a \in Int /\ b \in Int
  <2>a. Id0(i) \in Int /\ Id1(i) \in Int
    <3>1. Id0(i) \in 0 .. M - 1 /\ Id1(i) \in 0 .. N - 1
      BY IdsInRange
    <3> QED
      BY <3>1
  <2>b. i.c \in Int /\ i.r \in Int
    BY DEF Item, Local
  <2>c. t[i] \in Int
    BY <1>0 DEF TypeOK
  <2>d. TS \in Int /\ M \in Int /\ K \in Int
    BY MatrixKernelAssumption
  <2>1. /\ Id0(i) \in Int /\ Id1(i) \in Int /\ i.c \in Int /\ i.r \in Int /\ t[i] \in Int
        /\ TS \in Int /\ M \in Int /\ K \in Int
    BY ONLY <2>a, <2>b, <2>c, <2>d
  <2>2. TS * t[i] \in Int
    BY <2>1
  <2>3. TS * t[i] + i.c \in Int /\ TS * t[i] + i.r \in Int
    BY <2>1, <2>2
  <2>4. ASSUME NEW x \in Int, NEW y \in Int, NEW z \in Int PROVE x * y + z \in Int
    OBVIOUS
  <2>5. (TS * t[i] + i.c) * M + Id0(i) \in Int
    BY ONLY <2>1, <2>3, <2>4
  <2>6. Id1(i) * K + (TS * t[i] + i.r) \in Int
    BY ONLY <2>1, <2>3, <2>4
  <2> QED
    BY ONLY <1>3, <2>5, <2>6
<1> HIDE DEF a, b
<1>5. GroupOf(i) \in Group /\ <<i.c, i.r>> \in Local \X Local
  BY DEF GroupOf, Group, Item
<1>6. /\ asub' \in [Group -> [Local \X Local -> Int]]
      /\ bsub' \in [Group -> [Local \X Local -> Int]]
      /\ asub'[GroupOf(i)][<<i.c, i.r>>] = a /\ bsub'[GroupOf(i)][<<i.c, i.r>>] = b
      /\ \A h \in Group, x \in Local \X Local :
            h # GroupOf(i) \/ x # <<i.c, i.r>> =>
                asub'[h][x] = asub[h][x] /\ bsub'[h][x] = bsub[h][x]
  <2> DEFINE h == GroupOf(i)
  <2> DEFINE y == <<i.c, i.r>>
  <2>1. /\ h \in Group /\ y \in Local \X Local
        /\ asub' = [asub EXCEPT ![h][y] = a] /\ bsub' = [bsub EXCEPT ![h][y] = b]
        /\ asub \in [Group -> [Local \X Local -> Int]]
        /\ bsub \in [Group -> [Local \X Local -> Int]]
    BY <1>0, <1>1, <1>5 DEF TypeOK
  <2> HIDE DEF h, y
  <2>2. /\ asub' \in [Group -> [Local \X Local -> Int]]
        /\ bsub' \in [Group -> [Local \X Local -> Int]]
        /\ asub'[h][y] = a /\ bsub'[h][y] = b
        /\ \A f \in Group, x \in Local \X Local :
              f # h \/ x # y => asub'[f][x] = asub[f][x] /\ bsub'[f][x] = bsub[f][x]
    BY <1>4, <2>1
  <2> QED
    BY <2>2 DEF h, y
<1>7. pc' \in [Item -> ItemPc] /\ pc'[i] = "loaded" /\ \A j \in Item : j # i => pc'[j] = pc[j]
  BY <1>0, <1>1 DEF TypeOK, ItemPc
<1>8. TypeOK'
  BY <1>0, <1>1, <1>6, <1>7 DEF TypeOK
<1>9. Places'
  BY <1>1, <1>2 DEF Places
<1>10. CellsRight'
  <2>1. \A j \in Item : pc'[j] = "stored" => pc[j] = "stored"
    BY <1>7
  <2> QED
    BY <1>0, <1>1, <2>1, CellsStay
<1>11. Tiled'
  <2>0. Lockstep /\ Progress /\ SumSoFar /\ TilesRight
    BY <1>2 DEF IInv, Tiled
  <2>1. Lockstep'
    BY <1>1, <1>7, <2>0 DEF Lockstep, Loading, Summing
  <2>2. Progress'
    BY <1>1, <1>7, <2>0 DEF Progress, Loading, Summing
  <2>3. SumSoFar'
    BY <1>1, <2>0, IdsKept DEF SumSoFar
  <2>4. TilesRight'
    <3> SUFFICES ASSUME NEW j \in Item, pc'[j] \in {"loaded", "sum", "summed"}
                 PROVE  /\ asub'[GroupOf(j)][<<j.c, j.r>>] = (TS * t[j] + j.c) * M + Id0(j)
                        /\ bsub'[GroupOf(j)][<<j.c, j.r>>] = Id1(j) * K + (TS * t[j] + j.r)
      BY <1>1 DEF TilesRight, TileOf, Id0, Id1
    <3>1. CASE j = i
      BY <1>3, <1>6, <3>1
    <3>2. CASE j # i
      <4>1. TileOf(j)
        BY <1>7, <2>0, <3>2 DEF TilesRight
      <4>2. GroupOf(j) # GroupOf(i) \/ <<j.c, j.r>> # <<i.c, i.r>>
        BY <3>2, PlacesInTile
      <4>3. GroupOf(j) \in Group /\ <<j.c, j.r>> \in Local \X Local
        BY DEF GroupOf, Group, Item
      <4>4. /\ asub'[GroupOf(j)][<<j.c, j.r>>] = asub[GroupOf(j)][<<j.c, j.r>>]
            /\ bsub'[GroupOf(j)][<<j.c, j.r>>] = bsub[GroupOf(j)][<<j.c, j.r>>]
        BY <1>6, <4>2, <4>3
      <4> QED
        BY <4>1, <4>4 DEF TileOf
    <3> QED
      BY <3>1, <3>2
  <2> QED
    BY <2>1, <2>2, <2>3, <2>4 DEF Tiled
<1> QED
  BY <1>1, <1>2, <1>8, <1>9, <1>10, <1>11 DEF IInv

\* What the barriers are good for: the elements an item takes from the tiles
\* are those of the next term of its sum, although others have loaded them.
LEMMA NextTerm ==
    ASSUME TypeOK, Tiled, kernel = "myGEMM2", NEW i \in Item, pc[i] = "sum"
    PROVE  <<asub[GroupOf(i)][<<k[i], i.r>>], bsub[GroupOf(i)][<<i.c, k[i]>>]>>
               = Term(TS * t[i] + k[i], Row(i), Col(i))
<1> DEFINE p == [i EXCEPT !.c = k[i]]
<1> DEFINE q == [i EXCEPT !.r = k[i]]
<1>1. k[i] \in Local
  BY MatrixKernelAssumption DEF Tiled, Progress, TypeOK, Local
<1>2. /\ p \in Item /\ GroupOf(p) = GroupOf(i) /\ p.c = k[i] /\ p.r = i.r /\ p.gr = i.gr
      /\ q \in Item /\ GroupOf(q) = GroupOf(i) /\ q.r = k[i] /\ q.c = i.c /\ q.gc = i.gc
  BY <1>1 DEF Item, GroupOf
<1> HIDE DEF p, q
<1>3. Id0(p) = Row(i) /\ Id1(q) = Col(i)
  BY <1>2 DEF Id0, Id1, Row, Col
<1>4. /\ t[p] = t[i] /\ pc[p] \in {"sum", "summed"}
      /\ t[q] = t[i] /\ pc[q] \in {"sum", "summed"}
  BY <1>2 DEF Tiled, Lockstep, Summing
<1>5. TileOf(p) /\ TileOf(q)
  BY <1>2, <1>4 DEF Tiled, TilesRight
<1>6. /\ asub[GroupOf(i)][<<k[i], i.r>>] = (TS * t[i] + k[i]) * M + Row(i)
      /\ bsub[GroupOf(i)][<<i.c, k[i]>>] = Col(i) * K + (TS * t[i] + k[i])
  BY <1>2, <1>3, <1>4, <1>5 DEF TileOf
<1> QED
  BY <1>6 DEF Term

LEMMA AccumulateTileKeeps ==
    ASSUME IInv, NEW i \in Item, AccumulateTile(i)
    PROVE  IInv'
<1> DEFINE n == TS * t[i] + k[i]
<1>0. TypeOK /\ Places /\ CellsRight /\ Tiled /\ kernel = "myGEMM2" /\ pc[i] = "sum"
  BY DEF IInv, AccumulateTile
<1>1. /\ UNCHANGED <<kernel, t, asub, bsub, cells>>
      /\ k' = [k EXCEPT ![i] = k[i] + 1]
      /\ pc' = [pc EXCEPT ![i] = IF k[i] + 1 = TS THEN "summed" ELSE "sum"]
      /\ acc' = [acc EXCEPT ![i] = Append(acc[i], Term(n, Row(i), Col(i)))]
  BY <1>0, NextTerm DEF AccumulateTile, tiles
<1>2. k[i] \in Nat /\ k[i] < TS /\ TS \in Nat /\ t[i] \in Nat
  BY <1>0, MatrixKernelAssumption DEF Tiled, Progress, TypeOK
<1>3. Row(i) \in Int /\ Col(i) \in Int
  <2>1. Row(i) \in 0 .. M - 1 /\ Col(i) \in 0 .. N - 1
    BY <1>0, CellsInRange
  <2> QED
    BY <2>1
<1>4. n \in Nat /\ TS * t[i] + (k[i] + 1) = n + 1
  <2>1. TS * t[i] \in Nat
    BY <1>2
  <2> QED
    BY <1>2, <2>1
<1>5. Append(acc[i], Term(n, Row(i), Col(i))) = Sum(n + 1, Row(i), Col(i))
  <2>1. acc[i] = Sum(n, Row(i), Col(i))
    BY <1>0 DEF Tiled, SumSoFar
  <2> HIDE DEF n
  <2> QED
    BY ONLY <1>3, <1>4, <2>1, SumGrows
<1>6. Sum(n + 1, Row(i), Col(i)) \in Seq(Int \X Int)
  <2> HIDE DEF n
  <2>1. n + 1 \in Nat
    BY <1>4
  <2> QED
    BY ONLY <1>3, <2>1, SumType DEF Pair
<1> HIDE DEF n
<1>7. /\ acc'[i] = Sum(n + 1, Row(i), Col(i)) /\ k'[i] = k[i] + 1
      /\ pc'[i] = IF k[i] + 1 = TS THEN "summed" ELSE "sum"
      /\ \A j \in Item : j # i => acc'[j] = acc[j] /\ k'[j] = k[j] /\ pc'[j] = pc[j]
  BY <1>0, <1>1, <1>5 DEF TypeOK
<1>8. TypeOK'
  <2>1. pc' \in [Item -> ItemPc] /\ k' \in [Item -> Nat]
    BY <1>0, <1>1, <1>2 DEF TypeOK, ItemPc
  <2>2. acc' \in [Item -> Seq(Int \X Int)]
    BY <1>0, <1>1, <1>5, <1>6 DEF TypeOK
  <2> QED
    BY <1>0, <1>1, <2>1, <2>2 DEF TypeOK
<1>9. Places'
  BY <1>0, <1>1 DEF Places
<1>10. CellsRight'
  <2>1. \A j \in Item : pc'[j] = "stored" => pc[j] = "stored"
    BY <1>7
  <2> QED
    BY <1>0, <1>1, <2>1, CellsStay
<1>11. Tiled'
  <2>0. Lockstep /\ Progress /\ SumSoFar /\ TilesRight
    BY <1>0 DEF Tiled
  <2>1. Lockstep'
    BY <1>0, <1>1, <1>7, <2>0 DEF Lockstep, Loading, Summing
  <2>2. Progress'
    BY <1>0, <1>1, <1>2, <1>7, <2>0 DEF Progress, Loading, Summing
  <2>3. SumSoFar'
    <3> SUFFICES ASSUME NEW j \in Item PROVE acc'[j] = Sum(TS * t[j] + k'[j], Row(j), Col(j))
      BY <1>1, IdsKept DEF SumSoFar
    <3>1. CASE j = i
      BY <1>4, <1>7, <3>1
    <3>2. CASE j # i
      BY <1>7, <2>0, <3>2 DEF SumSoFar
    <3> QED
      BY <3>1, <3>2
  <2>4. TilesRight'
    BY <1>0, <1>1, <1>7, <2>0 DEF TilesRight, TileOf
  <2> QED
    BY <2>1, <2>2, <2>3, <2>4 DEF Tiled
<1> QED
  BY <1>0, <1>1, <1>8, <1>9, <1>10, <1>11 DEF IInv

\* An item that stores has the whole sum.
LEMMA SumIsWhole ==
    ASSUME IInv, NEW i \in Item, pc[i] = "store", kernel # "myAdd"
    PROVE  acc[i] = Dot(Row(i), Col(i))
<1>1. CASE kernel = "myGEMM2"
  <2>1. t[i] = NumTiles /\ k[i] = 0 /\ acc[i] = Sum(TS * t[i] + k[i], Row(i), Col(i))
    BY <1>1 DEF IInv, Tiled, Progress, SumSoFar, Summing
  <2>2. TS * NumTiles + 0 = K
    BY MatrixKernelAssumption
  <2> QED
    BY <2>1, <2>2 DEF Sum, Dot
<1>2. CASE kernel # "myGEMM2"
  BY <1>2 DEF IInv, TypeOK, Kernels, Simple
<1> QED
  BY <1>1, <1>2

LEMMA StoreKeeps ==
    ASSUME IInv, NEW i \in Item, Store(i)
    PROVE  IInv'
<1>0. TypeOK /\ Places /\ CellsRight /\ pc[i] = "store"
  BY DEF IInv, Store
<1>1. /\ UNCHANGED <<kernel, t, k, acc, asub, bsub>>
      /\ cells' = [cells EXCEPT ![Cell(Row(i), Col(i))] = Result(i)]
      /\ pc' = [pc EXCEPT ![i] = "stored"]
  BY DEF Store, tiles
<1>2. pc' \in [Item -> ItemPc] /\ pc'[i] = "stored" /\ \A j \in Item : j # i => pc'[j] = pc[j]
  BY <1>0, <1>1 DEF TypeOK, ItemPc
<1>3. /\ Cell(Row(i), Col(i)) \in 0 .. M * N - 1
      /\ Cell(Row(i), Col(i)) \in Int
  <2>1. Cell(Row(i), Col(i)) \in 0 .. M * N - 1
    BY <1>0, CellsInRange DEF Places
  <2> QED
    BY <2>1
<1>4. Result(i) \in Seq(Int \X Int)
  <2> DEFINE x == Cell(Row(i), Col(i))
  <2>1. x \in Int
    BY <1>3
  <2> HIDE DEF x
  <2>2. One \in Int
    BY DEF One
  <2>3. <<<<x, One>>, <<One, x>>>> \in Seq(Int \X Int)
    BY <2>1, <2>2
  <2>4. acc[i] \in Seq(Int \X Int)
    BY <1>0 DEF TypeOK
  <2> QED
    BY <2>3, <2>4 DEF Result, x
<1>5. /\ cells' \in [0 .. M * N - 1 -> Seq(Int \X Int)]
      /\ cells'[Cell(Row(i), Col(i))] = Result(i)
      /\ \A x \in 0 .. M * N - 1 : x # Cell(Row(i), Col(i)) => cells'[x] = cells[x]
  <2> DEFINE y == Cell(Row(i), Col(i))
  <2> DEFINE D == 0 .. M * N - 1
  <2> DEFINE T == Seq(Int \X Int)
  <2> DEFINE e == Result(i)
  <2>1. cells \in [D -> T] /\ y \in D /\ e \in T /\ cells' = [cells EXCEPT ![y] = e]
    BY <1>0, <1>1, <1>3, <1>4 DEF TypeOK
  <2> HIDE DEF y, D, T, e
  <2>2. cells' \in [D -> T] /\ cells'[y] = e /\ \A x \in D : x # y => cells'[x] = cells[x]
    BY ONLY <2>1
  <2> QED
    BY <2>2 DEF y, D, T, e
<1>6. TypeOK'
  BY <1>0, <1>1, <1>2, <1>5 DEF TypeOK
<1>7. Places'
  BY <1>0, <1>1, <1>2 DEF Places
<1>8. CellsRight'
  <2> SUFFICES ASSUME kernel # "myAdd", NEW j \in Item, pc'[j] = "stored"
               PROVE  cells'[Cell(Row(j), Col(j))] = Dot(Row(j), Col(j))
    BY <1>1, IdsKept DEF CellsRight, Dot, Term, Cell
  <2>1. CASE j = i
    <3>1. Result(i) = acc[i]
      BY DEF Result
    <3> QED
      BY <1>0, <1>5, <2>1, <3>1, SumIsWhole
  <2>2. CASE j # i
    <3>1. Cell(Row(j), Col(j)) # Cell(Row(i), Col(i))
      BY <1>0, <2>2, CellsUnique DEF Places
    <3>2. Cell(Row(j), Col(j)) \in 0 .. M * N - 1
      BY <1>0, CellsInRange DEF Places
    <3>3. pc[j] = "stored"
      BY <1>2, <2>2
    <3> QED
      BY <1>0, <1>5, <3>1, <3>2, <3>3 DEF CellsRight
  <2> QED
    BY <2>1, <2>2
<1>9. ASSUME kernel = "myGEMM2" PROVE Tiled'
  <2>0. Lockstep /\ Progress /\ SumSoFar /\ TilesRight
    BY <1>9 DEF IInv, Tiled
  <2>1. Lockstep'
    BY <1>0, <1>1, <1>2, <2>0 DEF Lockstep, Loading, Summing
  <2>2. Progress'
    BY <1>0, <1>1, <1>2, <2>0 DEF Progress, Loading, Summing
  <2>3. SumSoFar'
    BY <1>1, <2>0, IdsKept DEF SumSoFar
  <2>4. TilesRight'
    BY <1>1, <1>2, <2>0 DEF TilesRight, TileOf
  <2> QED
    BY <2>1, <2>2, <2>3, <2>4 DEF Tiled
<1>10. ASSUME kernel \in {"myGEMM1", "myGEMM1b"} PROVE Simple'
  <2>1. Simple
    BY <1>10 DEF IInv
  <2>2. \A j \in Item : pc'[j] \in {"store", "stored"} => pc[j] \in {"store", "stored"}
    BY <1>0, <1>2
  <2> QED
    BY <1>1, <2>1, <2>2, IdsKept DEF Simple, Dot, Term
<1> QED
  BY <1>1, <1>6, <1>7, <1>8, <1>9, <1>10 DEF IInv

-----------------------------------------------------------------------------
(***************************************************************************)
(* The theorems                                                            *)
(***************************************************************************)
LEMMA StepKeeps == IInv /\ [Next]_vars => IInv'
<1> SUFFICES ASSUME IInv, [Next]_vars PROVE IInv'
  OBVIOUS
<1>1. ASSUME NEW g \in Group, Dispatch(g) PROVE IInv'
  BY <1>1, DispatchKeeps
<1>2. ASSUME NEW g \in Group, TileLoaded(g) PROVE IInv'
  BY <1>2, TileLoadedKeeps
<1>3. ASSUME NEW g \in Group, TileDone(g) PROVE IInv'
  BY <1>3, TileDoneKeeps
<1>4. ASSUME NEW i \in Item, Accumulate(i) PROVE IInv'
  BY <1>4, AccumulateKeeps
<1>5. ASSUME NEW i \in Item, Load(i) PROVE IInv'
  BY <1>5, LoadKeeps
<1>6. ASSUME NEW i \in Item, AccumulateTile(i) PROVE IInv'
  BY <1>6, AccumulateTileKeeps
<1>7. ASSUME NEW i \in Item, Store(i) PROVE IInv'
  BY <1>7, StoreKeeps
<1>8. CASE UNCHANGED vars
  <2>1. UNCHANGED <<kernel, pc, t, k, acc, asub, bsub, cells>>
    BY <1>8 DEF vars
  <2>2. TypeOK' /\ Places'
    BY <2>1 DEF IInv, TypeOK, Places
  <2>3. CellsRight'
    BY <2>1, CellsStay DEF IInv
  <2>4. kernel = "myGEMM2" => Tiled'
    <3> SUFFICES ASSUME kernel = "myGEMM2" PROVE Tiled'
      OBVIOUS
    <3>1. SumSoFar'
      BY <2>1, IdsKept DEF IInv, Tiled, SumSoFar
    <3>2. Lockstep' /\ Progress' /\ TilesRight'
      BY <2>1 DEF IInv, Tiled, Lockstep, Progress, TilesRight, TileOf
    <3> QED
      BY <3>1, <3>2 DEF Tiled
  <2>5. kernel \in {"myGEMM1", "myGEMM1b"} => Simple'
    BY <2>1, IdsKept DEF IInv, Simple, Dot, Term
  <2> QED
    BY <2>1, <2>2, <2>3, <2>4, <2>5 DEF IInv
<1> QED
  BY <1>1, <1>2, <1>3, <1>4, <1>5, <1>6, <1>7, <1>8 DEF Next

LEMMA KernelHolds == Spec => []IInv
BY InitHolds, StepKeeps, PTL DEF Spec

\* The types of the variables.
THEOREM TypeCorrect == Spec => []TypeOK
<1>1. IInv => TypeOK
  BY DEF IInv
<1> QED
  BY <1>1, KernelHolds, PTL

\* The kernels compute the CPU's sums, for all matrices whose sizes are
\* multiples of the group's: the two barriers of myGEMM2 are enough.
THEOREM KernelRight == Spec => []CellsRight
<1>1. IInv => CellsRight
  BY DEF IInv
<1> QED
  BY <1>1, KernelHolds, PTL

-----------------------------------------------------------------------------
(***************************************************************************)
(* The host program: where each element of C comes from                    *)
(***************************************************************************)
\* The digits of a number: the inverse of DigitsInRange.
LEMMA DigitsOf ==
    ASSUME NEW e \in Nat \ {0}, NEW n \in Nat, NEW x \in 0 .. e * n - 1
    PROVE  x % e \in 0 .. e - 1 /\ x \div e \in 0 .. n - 1 /\ e * (x \div e) + (x % e) = x
<1>0. x \in Nat /\ x < e * n /\ e * n \in Int
  <2>1. e * n \in Int
    OBVIOUS
  <2> QED
    BY <2>1
<1>1. x % e \in 0 .. e - 1 /\ x \div e \in Nat /\ e * (x \div e) + (x % e) = x
  <2>1. x % e \in 0 .. e - 1 /\ x \div e \in Int /\ e * (x \div e) + (x % e) = x
    BY <1>0
  <2>2. ASSUME x \div e + 1 <= 0 PROVE FALSE
    <3>1. e * (x \div e + 1) <= e * 0
      BY <2>1, <2>2, MulMono
    <3>2. e * (x \div e + 1) = e * (x \div e) + e
      BY <2>1
    <3> QED
      BY <1>0, <2>1, <3>1, <3>2
  <2> QED
    BY <2>1, <2>2
<1>2. ASSUME n <= x \div e PROVE FALSE
  <2>1. e * n <= e * (x \div e)
    BY <1>1, <1>2, MulMono
  <2> QED
    BY <1>0, <1>1, <2>1
<1> QED
  BY <1>1, <1>2

\* Some work-item has any pair of ids.
LEMMA ItemOfIds ==
    ASSUME NEW a \in 0 .. M - 1, NEW b \in 0 .. N - 1
    PROVE  \E i \in Item : Id0(i) = a /\ Id1(i) = b
<1>1. /\ TS \in Nat \ {0} /\ GroupRows \in Nat /\ GroupCols \in Nat
      /\ M = TS * GroupRows /\ N = TS * GroupCols
  BY MatrixKernelAssumption
<1>2. /\ a % TS \in 0 .. TS - 1 /\ a \div TS \in 0 .. GroupRows - 1 /\ TS * (a \div TS) + (a % TS) = a
      /\ b % TS \in 0 .. TS - 1 /\ b \div TS \in 0 .. GroupCols - 1 /\ TS * (b \div TS) + (b % TS) = b
  <2> DEFINE gr == GroupRows
  <2> DEFINE gc == GroupCols
  <2>1. gr \in Nat /\ gc \in Nat /\ a \in 0 .. TS * gr - 1 /\ b \in 0 .. TS * gc - 1
    BY <1>1
  <2> HIDE DEF gr, gc
  <2>2. /\ a % TS \in 0 .. TS - 1 /\ a \div TS \in 0 .. gr - 1 /\ TS * (a \div TS) + (a % TS) = a
        /\ b % TS \in 0 .. TS - 1 /\ b \div TS \in 0 .. gc - 1 /\ TS * (b \div TS) + (b % TS) = b
    BY ONLY <1>1, <2>1, DigitsOf
  <2> QED
    BY <2>2 DEF gr, gc
<1> DEFINE ar == a % TS
<1> DEFINE ag == a \div TS
<1> DEFINE br == b % TS
<1> DEFINE bg == b \div TS
<1>3. /\ ar \in Local /\ ag \in 0 .. GroupRows - 1 /\ TS * ag + ar = a
      /\ br \in Local /\ bg \in 0 .. GroupCols - 1 /\ TS * bg + br = b
  BY <1>2 DEF Local
<1> HIDE DEF ar, ag, br, bg
<1> DEFINE i == [gr |-> ag, gc |-> bg, r |-> ar, c |-> br]
<1>4. i \in Item /\ Id0(i) = a /\ Id1(i) = b
  BY <1>3 DEF Item, Id0, Id1
<1> QED
  BY <1>4

\* Every element of C belongs to a work-item.
LEMMA ItemOfCell ==
    ASSUME kernel = "myGEMM1b" => M = N, NEW x \in 0 .. Size - 1
    PROVE  \E i \in Item : Row(i) = x % M /\ Col(i) = x \div M /\ Cell(Row(i), Col(i)) = x
<1>1. x % M \in 0 .. M - 1 /\ x \div M \in 0 .. N - 1 /\ M * (x \div M) + (x % M) = x
  BY MatrixKernelAssumption, DigitsOf DEF Size
<1> DEFINE a == x % M
<1> DEFINE b == x \div M
<1>2. a \in 0 .. M - 1 /\ b \in 0 .. N - 1 /\ M * b + a = x /\ M \in Int
  BY <1>1, MatrixKernelAssumption
<1> HIDE DEF a, b
<1>3. PICK i \in Item : Row(i) = a /\ Col(i) = b
  <2>1. CASE kernel = "myGEMM1b"
    <3>1. b \in 0 .. M - 1 /\ a \in 0 .. N - 1
      BY <1>2, <2>1
    <3>2. PICK j \in Item : Id0(j) = b /\ Id1(j) = a
      BY <3>1, ItemOfIds
    <3> QED
      BY <2>1, <3>2 DEF Row, Col
  <2>2. CASE kernel # "myGEMM1b"
    <3>1. PICK j \in Item : Id0(j) = a /\ Id1(j) = b
      BY <1>2, ItemOfIds
    <3> QED
      BY <2>2, <3>1 DEF Row, Col
  <2> QED
    BY <2>1, <2>2
<1>4. Cell(a, b) = x
  BY <1>2 DEF Cell
<1>5. Row(i) = x % M /\ Col(i) = x \div M
  BY <1>3 DEF a, b
<1> QED
  BY <1>3, <1>4, <1>5

\* A kernel that has ended has left matmult()'s C.
LEMMA AllStored ==
    ASSUME IInv, kernel # "myAdd", \A i \in Item : pc[i] = "stored"
    PROVE  cells = Product
<1>1. cells \in [0 .. Size - 1 -> Seq(Int \X Int)] /\ (kernel = "myGEMM1b" => M = N)
  BY DEF IInv, TypeOK, Places, Size
<1>2. ASSUME NEW x \in 0 .. Size - 1 PROVE cells[x] = Dot(x % M, x \div M)
  <2>1. PICK i \in Item : Row(i) = x % M /\ Col(i) = x \div M /\ Cell(Row(i), Col(i)) = x
    BY <1>1, ItemOfCell
  <2>2. cells[Cell(Row(i), Col(i))] = Dot(Row(i), Col(i))
    BY DEF IInv, CellsRight
  <2> QED
    BY <2>1, <2>2
<1> QED
  BY <1>1, <1>2 DEF Product

-----------------------------------------------------------------------------
(***************************************************************************)
(* The invariant of the host program                                       *)
(***************************************************************************)
\* The kernel is not there yet.
Idle == {"main", "load", "multiply", "save", "build"}

\* What myAdd stores is no sum of products.
AddsOnly == kernel = "myAdd" =>
    \A x \in 0 .. Size - 1 : cells[x] = <<>> \/ cells[x][1][2] = One

\* The reference is the whole product, or what the file holds of it.
Reference ==
    /\ file \in {0, Size} \cup Cuts
    /\ at = "save" => known = Size
    /\ at \in {"build", "run", "compare"} => known = Size \/ (known \in Cuts /\ file = known)

\* How far the present start of the program is.
Phases ==
    /\ at \in Idle => Init /\ kernel = "myAdd" /\ result = ZeroCells
    /\ at # "exit" => report = "none"
    /\ ran => at \in {"compare", "exit"}
    /\ at = "compare" => Ran \/ kernel = "myAdd"
    /\ Ran => cells = Product
    /\ at = "compare" /\ sound => result = cells

HostInv == IInv /\ AddsOnly /\ Reference /\ Phases /\ ReportTrue

LEMMA InitAgain == Init' => IInv'
BY InitHolds, PTL

\* A launch begins where MatrixKernel does.
LEMMA LaunchBegins ==
    ASSUME NEW f \in Kernels, CanLaunch(f), Launch(f), cells' = ZeroCells
    PROVE  Init' /\ kernel' = f
<1>1. /\ kernel' = f
      /\ pc' = [i \in Item |-> "ready"]
      /\ t' = [i \in Item |-> 0] /\ k' = [i \in Item |-> 0]
      /\ acc' = [i \in Item |-> <<>>]
      /\ asub' = [g \in Group |-> [x \in Local \X Local |-> Undefined]]
      /\ bsub' = asub'
      /\ cells' = [x \in 0 .. M * N - 1 |-> <<>>]
  BY DEF Launch, ZeroCells, Size
<1> QED
  BY <1>1 DEF Init

LEMMA ZerosAdd == cells' = ZeroCells => AddsOnly'
BY DEF AddsOnly, ZeroCells

\* The first element of a product has a first term, which is one.
LEMMA AddIsNoProduct ==
    ASSUME AddsOnly, kernel = "myAdd"
    PROVE  cells # Product
<1> SUFFICES ASSUME cells = Product PROVE FALSE
  OBVIOUS
<1>1. M \in Nat \ {0} /\ N \in Nat \ {0} /\ K \in Nat \ {0}
  BY MatrixKernelAssumption
<1>2. 0 \in 0 .. Size - 1
  <2>1. M * 1 <= M * N
    BY <1>1, MulMono
  <2> QED
    BY <1>1, <2>1 DEF Size
<1>3. 0 \div M = 0
  <2>1. 0 \div M \in Int /\ 0 % M \in 0 .. M - 1 /\ M * (0 \div M) + (0 % M) = 0
    BY <1>1
  <2>2. M * 0 + 0 = 0
    BY <1>1
  <2> QED
    BY <1>1, <2>1, <2>2, DigitsUnique
<1>4. cells[0] = Dot(0 % M, 0)
  BY <1>2, <1>3 DEF Product
<1>5. Dot(0 % M, 0)[1][2] = 0 /\ Dot(0 % M, 0) # <<>>
  <2>1. 1 \in 1 .. K
    BY <1>1
  <2>2. Dot(0 % M, 0)[1] = Term(0, 0 % M, 0)
    BY <2>1 DEF Dot
  <2>3. Term(0, 0 % M, 0)[2] = 0
    BY <1>1 DEF Term
  <2>4. DOMAIN Dot(0 % M, 0) = 1 .. K
    BY DEF Dot
  <2>5. DOMAIN <<>> = {}
    OBVIOUS
  <2> QED
    BY <2>1, <2>2, <2>3, <2>4, <2>5
<1> QED
  BY <1>2, <1>4, <1>5 DEF AddsOnly, One

LEMMA HostInitHolds == HostInit => HostInv
<1> SUFFICES ASSUME HostInit PROVE HostInv
  OBVIOUS
<1>1. IInv
  BY InitHolds DEF HostInit
<1>2. AddsOnly
  BY DEF HostInit, Init, AddsOnly, Size
<1>3. Reference /\ ReportTrue
  BY DEF HostInit, Reference, ReportTrue
<1>4. Phases
  BY DEF HostInit, Phases, Ran
<1> QED
  BY <1>1, <1>2, <1>3, <1>4 DEF HostInv

-----------------------------------------------------------------------------
(***************************************************************************)
(* The steps of the host program                                           *)
(***************************************************************************)
\* What holds of the device as long as the program leaves it alone.
LEMMA DeviceKept ==
    ASSUME HostInv, UNCHANGED vars
    PROVE  IInv' /\ AddsOnly' /\ (Init => Init') /\ kernel' = kernel /\ cells' = cells
<1>1. UNCHANGED <<kernel, pc, t, k, acc, asub, bsub, cells>>
  BY DEF vars
<1>2. IInv'
  BY StepKeeps DEF HostInv
<1> QED
  BY <1>1, <1>2 DEF HostInv, AddsOnly, Init

\* Until the device is asked for.
Preparing ==
    \/ \E id \in 0 .. Platforms + 1 : PlatformFromArgument(id) \/ PlatformFromUser(id)
    \/ LoadReference \/ Multiply \/ (\E n \in Cuts \cup {Size} : Save(n)) \/ SaveReturns
    \/ SourceMissing

LEMMA PreparingKeeps == HostInv /\ Preparing => HostInv'
<1> SUFFICES ASSUME HostInv, Preparing PROVE HostInv'
  OBVIOUS
<1>1. /\ UNCHANGED <<vars, ran, result, report>>
      /\ at \in Idle /\ at' \in Idle \cup {"exit"}
  BY DEF Preparing, PlatformFromArgument, PlatformFromUser, LoadReference, Multiply, Save,
         SaveReturns, SourceMissing, Idle, outcome
<1>2. IInv' /\ AddsOnly' /\ (Init => Init') /\ kernel' = kernel /\ cells' = cells
  BY <1>1, DeviceKept
<1>3. Reference'
  BY DEF Preparing, PlatformFromArgument, PlatformFromUser, LoadReference, Multiply, Save,
         SaveReturns, SourceMissing, HostInv, Reference
<1>4. ~ran' /\ report' = "none"
  BY <1>1 DEF HostInv, Phases, Idle
<1>5. Phases'
  BY <1>1, <1>2, <1>4 DEF HostInv, Phases, Idle, Ran, ZeroCells, Size
<1>6. ReportTrue'
  BY <1>4 DEF ReportTrue
<1> QED
  BY <1>2, <1>3, <1>5, <1>6 DEF HostInv

LEMMA BuildProgramKeeps ==
    ASSUME HostInv, NEW f \in Kernels, BuildProgram(f)
    PROVE  HostInv'
<1>1. /\ CanLaunch(f) /\ Launch(f) /\ cells' = ZeroCells
      /\ at = "build" /\ at' = "run" /\ UNCHANGED <<file, known, ran, report>>
  BY DEF BuildProgram, outcome
<1>2. Init' /\ IInv' /\ AddsOnly'
  BY <1>1, LaunchBegins, InitAgain, ZerosAdd
<1>3. Reference'
  BY <1>1 DEF HostInv, Reference
<1>4. ~ran' /\ report' = "none"
  BY <1>1 DEF HostInv, Phases
<1>5. Phases' /\ ReportTrue'
  BY <1>1, <1>4 DEF Phases, Idle, ReportTrue, Ran
<1> QED
  BY <1>2, <1>3, <1>5 DEF HostInv

\* C is full of zeros already, unless a call has failed unseen.
LEMMA BuildFailsKeeps == HostInv /\ BuildFails => HostInv'
<1> SUFFICES ASSUME HostInv, BuildFails PROVE HostInv'
  OBVIOUS
<1>1. /\ UNCHANGED vars /\ at = "build" /\ at' = "compare"
      /\ UNCHANGED <<file, known, ran, report>>
      /\ UNCHANGED <<result, sound>> \/ sound' = FALSE
  BY DEF BuildFails, Unseen
<1>2. Init /\ kernel = "myAdd" /\ result = ZeroCells /\ ~ran /\ report = "none"
  BY <1>1 DEF HostInv, Phases, Idle
<1>3. IInv' /\ AddsOnly' /\ kernel' = kernel /\ cells' = cells
  BY <1>1, DeviceKept
<1>4. Reference'
  BY <1>1 DEF HostInv, Reference
<1>5. sound' => result' = cells'
  BY <1>1, <1>2, <1>3 DEF Init, ZeroCells, Size
<1>6. ~ran' /\ report' = "none" /\ kernel' = "myAdd"
  BY <1>1, <1>2, <1>3
<1>7. Phases' /\ ReportTrue'
  BY <1>1, <1>5, <1>6 DEF Phases, Idle, ReportTrue, Ran
<1> QED
  BY <1>3, <1>4, <1>7 DEF HostInv

LEMMA DeviceStepKeeps == HostInv /\ DeviceStep => HostInv'
<1> SUFFICES ASSUME HostInv, DeviceStep PROVE HostInv'
  OBVIOUS
<1>1. at = "run" /\ Next /\ UNCHANGED <<at, file, known, ran, report>>
  BY DEF DeviceStep, host
<1>2. IInv'
  BY <1>1, StepKeeps DEF HostInv
<1>3. kernel' = kernel
  BY <1>1 DEF Next, Dispatch, TileLoaded, TileDone, Accumulate, Load, AccumulateTile, Store
<1>4. AddsOnly'
  <2> SUFFICES ASSUME kernel = "myAdd", NEW x \in 0 .. Size - 1
               PROVE  cells'[x] = <<>> \/ cells'[x][1][2] = One
    BY <1>3 DEF AddsOnly
  <2>1. cells[x] = <<>> \/ cells[x][1][2] = One
    BY DEF HostInv, AddsOnly
  <2>2. ASSUME NEW i \in Item, Store(i) PROVE cells'[x] = <<>> \/ cells'[x][1][2] = One
    <3>1. cells' = [cells EXCEPT ![Cell(Row(i), Col(i))] = Result(i)]
      BY <2>2 DEF Store
    <3>2. cells \in [0 .. Size - 1 -> Seq(Int \X Int)]
      BY DEF HostInv, IInv, TypeOK, Size
    <3>3. Result(i)[1][2] = One
      BY DEF Result
    <3> HIDE DEF Result
    <3>4. CASE x = Cell(Row(i), Col(i))
      BY <3>1, <3>2, <3>3, <3>4
    <3>5. CASE x # Cell(Row(i), Col(i))
      BY <2>1, <3>1, <3>2, <3>5
    <3> QED
      BY <3>4, <3>5
  <2>3. CASE ~\E i \in Item : Store(i)
    <3>1. cells' = cells
      BY <1>1, <2>3 DEF Next, Dispatch, TileLoaded, TileDone, Accumulate, Load, AccumulateTile
    <3> QED
      BY <2>1, <3>1
  <2> QED
    BY <2>2, <2>3
<1>5. Reference'
  BY <1>1 DEF HostInv, Reference
<1>6. ~ran' /\ report' = "none"
  BY <1>1 DEF HostInv, Phases
<1>7. Phases' /\ ReportTrue'
  BY <1>1, <1>6 DEF Phases, Idle, ReportTrue, Ran
<1> QED
  BY <1>2, <1>4, <1>5, <1>7 DEF HostInv

LEMMA RunDoneKeeps == HostInv /\ RunDone => HostInv'
<1> SUFFICES ASSUME HostInv, RunDone PROVE HostInv'
  OBVIOUS
<1>1. /\ UNCHANGED vars /\ at = "run" /\ at' = "compare" /\ ran' = TRUE
      /\ UNCHANGED <<file, known, report>>
      /\ result' = cells \/ sound' = FALSE
      /\ \A i \in Item : pc[i] = "stored"
  BY DEF RunDone, ReadBack, Unseen
<1>2. IInv' /\ AddsOnly' /\ kernel' = kernel /\ cells' = cells
  BY <1>1, DeviceKept
<1>3. Reference'
  BY <1>1 DEF HostInv, Reference
<1>4. kernel # "myAdd" => cells = Product
  BY <1>1, AllStored DEF HostInv
<1>5. report' = "none"
  BY <1>1 DEF HostInv, Phases
<1>6. Phases'
  BY <1>1, <1>2, <1>4, <1>5 DEF Phases, Idle, Ran, Product
<1>7. ReportTrue'
  BY <1>5 DEF ReportTrue
<1> QED
  BY <1>2, <1>3, <1>6, <1>7 DEF HostInv

\* A device that has given up is as good as one that was never asked.
LEMMA RunFailsKeeps == HostInv /\ RunFails => HostInv'
<1> SUFFICES ASSUME HostInv, RunFails PROVE HostInv'
  OBVIOUS
<1>1. /\ Launch("myAdd") /\ cells' = ZeroCells /\ sound' = FALSE
      /\ at = "run" /\ at' = "compare" /\ UNCHANGED <<file, known, ran, report>>
  BY DEF RunFails, Unseen
<1>2. "myAdd" \in Kernels /\ CanLaunch("myAdd")
  BY DEF Kernels, CanLaunch
<1>3. Init' /\ kernel' = "myAdd" /\ IInv' /\ AddsOnly'
  BY <1>1, <1>2, LaunchBegins, InitAgain, ZerosAdd
<1>4. Reference'
  BY <1>1 DEF HostInv, Reference
<1>5. ~ran' /\ report' = "none"
  BY <1>1 DEF HostInv, Phases
<1>6. Phases' /\ ReportTrue'
  BY <1>1, <1>3, <1>5 DEF Phases, Idle, ReportTrue, Ran
<1> QED
  BY <1>3, <1>4, <1>6 DEF HostInv

LEMMA CutsAreShort ==
    ASSUME NEW n \in Cuts
    PROVE  n < Size /\ n # Size
<1>1. n \in 1 .. M * N - 1
  BY MatrixHostAssumption
<1>2. M * N \in Int
  BY MatrixKernelAssumption
<1> QED
  BY <1>1, <1>2 DEF Size

\* A product compares equal with the whole reference and with nothing else.
LEMMA CompareKeeps == HostInv /\ Compare => HostInv'
<1> SUFFICES ASSUME HostInv, Compare PROVE HostInv'
  OBVIOUS
<1>1. /\ UNCHANGED vars /\ at = "compare" /\ at' = "exit"
      /\ UNCHANGED <<file, known, ran, result, sound>>
      /\ report' = IF known = Size /\ result = Product THEN "clean" ELSE "errors"
  BY DEF Compare, outcome
<1>2. IInv' /\ AddsOnly' /\ kernel' = kernel /\ cells' = cells
  BY <1>1, DeviceKept
<1>3. Reference'
  BY <1>1 DEF HostInv, Reference
<1>4. Ran' <=> Ran
  BY <1>1, <1>2 DEF Ran
<1>5. Product' = Product
  BY DEF Product
<1>6. Phases'
  BY <1>1, <1>2, <1>4, <1>5 DEF HostInv, Phases, Idle
<1>7. cells = Product => Ran
  BY <1>1, AddIsNoProduct DEF HostInv, Phases
<1>8. (Ran => cells = Product) /\ (sound => result = cells)
  BY <1>1 DEF HostInv, Phases
<1>9. known = Size \/ (known < Size /\ known # Size /\ file \in Cuts)
  BY <1>1, CutsAreShort DEF HostInv, Reference
<1>10. ReportTrue'
  <2>1. known = Size /\ result = Product => report' = "clean" /\ (sound => Ran /\ cells = Product)
    BY <1>1, <1>7, <1>8
  <2>2. ~(known = Size /\ result = Product)
          => report' = "errors" /\ (sound /\ Ran => known < Size /\ file \in Cuts)
    BY <1>1, <1>8, <1>9
  <2>3. Size' = Size
    BY DEF Size
  <2> QED
    BY <1>1, <1>2, <1>4, <1>5, <2>1, <2>2, <2>3 DEF ReportTrue
<1> QED
  BY <1>2, <1>3, <1>6, <1>10 DEF HostInv

LEMMA KilledKeeps == HostInv /\ Killed => HostInv'
<1> SUFFICES ASSUME HostInv, Killed PROVE HostInv'
  OBVIOUS
<1>1. /\ Launch("myAdd") /\ cells' = ZeroCells /\ at # "exit" /\ at' = "exit"
      /\ UNCHANGED <<file, known, ran, report>>
  BY DEF Killed, outcome
<1>2. "myAdd" \in Kernels /\ CanLaunch("myAdd")
  BY DEF Kernels, CanLaunch
<1>3. Init' /\ kernel' = "myAdd" /\ IInv' /\ AddsOnly'
  BY <1>1, <1>2, LaunchBegins, InitAgain, ZerosAdd
<1>4. Reference'
  BY <1>1 DEF HostInv, Reference
<1>5. report' = "none"
  BY <1>1 DEF HostInv, Phases
<1>6. Phases' /\ ReportTrue'
  BY <1>1, <1>3, <1>5 DEF Phases, Idle, ReportTrue, Ran
<1> QED
  BY <1>3, <1>4, <1>6 DEF HostInv

LEMMA StartKeeps == HostInv /\ Start => HostInv'
<1> SUFFICES ASSUME HostInv, Start PROVE HostInv'
  OBVIOUS
<1>1. /\ Launch("myAdd") /\ cells' = ZeroCells /\ at' = "main" /\ known' = 0
      /\ ran' = FALSE /\ result' = ZeroCells /\ report' = "none" /\ file' = file
  BY DEF Start
<1>2. "myAdd" \in Kernels /\ CanLaunch("myAdd")
  BY DEF Kernels, CanLaunch
<1>3. Init' /\ kernel' = "myAdd" /\ IInv' /\ AddsOnly'
  BY <1>1, <1>2, LaunchBegins, InitAgain, ZerosAdd
<1>4. Reference'
  BY <1>1 DEF HostInv, Reference
<1>5. Phases' /\ ReportTrue'
  BY <1>1, <1>3 DEF Phases, Idle, ReportTrue, Ran, ZeroCells, Size
<1> QED
  BY <1>3, <1>4, <1>5 DEF HostInv

LEMMA HostHolds == HostSpec => []HostInv
<1>1. HostInv /\ [HostNext]_hostVars => HostInv'
  <2> SUFFICES ASSUME HostInv, [HostNext]_hostVars PROVE HostInv'
    OBVIOUS
  <2>1. CASE Preparing
    BY <2>1, PreparingKeeps
  <2>2. ASSUME NEW f \in Kernels, BuildProgram(f) PROVE HostInv'
    BY <2>2, BuildProgramKeeps
  <2>3. CASE BuildFails \/ DeviceStep \/ RunDone \/ RunFails \/ Compare \/ Killed \/ Start
    BY <2>3, BuildFailsKeeps, DeviceStepKeeps, RunDoneKeeps, RunFailsKeeps, CompareKeeps,
       KilledKeeps, StartKeeps
  <2>4. CASE UNCHANGED hostVars
    <3>1. UNCHANGED vars /\ UNCHANGED <<at, file, known, ran, result, sound, report>>
      BY <2>4 DEF hostVars, host
    <3>2. IInv' /\ AddsOnly' /\ (Init => Init') /\ kernel' = kernel /\ cells' = cells
      BY <3>1, DeviceKept
    <3>3. Reference'
      BY <3>1 DEF HostInv, Reference
    <3>4. Phases' /\ ReportTrue'
      BY <3>1, <3>2 DEF HostInv, Phases, ReportTrue, Ran, Product, Size, ZeroCells
    <3> QED
      BY <3>2, <3>3, <3>4 DEF HostInv
  <2> QED
    BY <2>1, <2>2, <2>3, <2>4 DEF HostNext, Program, Preparing
<1> QED
  BY <1>1, HostInitHolds, PTL DEF HostSpec

\* However often the program has been killed, wherever a save has been cut
\* short and whatever call on the device fails unseen: a report without errors
\* is of the whole product.  When no call failed it is of a kernel that ran, and
\* one that ran is blamed only when the reference is not whole.
THEOREM ReportIsTrue == HostSpec => []ReportTrue
<1>1. HostInv => ReportTrue
  BY DEF HostInv
<1> QED
  BY <1>1, HostHolds, PTL

\* And on every run of every start of it the kernels are right.
THEOREM KernelRightInProgram == HostSpec => []CellsRight
<1>1. HostInv => CellsRight
  BY DEF HostInv, IInv
<1> QED
  BY <1>1, HostHolds, PTL
=============================================================================
