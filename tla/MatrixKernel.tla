---------------------------- MODULE MatrixKernel ----------------------------
(***************************************************************************)
(* The kernels of src/myGEMM.cl as run_myGEMM() of src/topencl.cpp starts  *)
(* them: M*N work-items in groups of TS*TS, each of which computes one     *)
(* element of C.  The items of a group step in any order and wait for one  *)
(* another at barriers only; the device works on a few groups at a time.   *)
(*                                                                         *)
(* A matrix is an array of floats stored column by column.  A float of A   *)
(* or B is its index in the array, and a sum is the sequence of its terms: *)
(* float addition is not associative, and matcmp() compares exactly.       *)
(***************************************************************************)
EXTENDS Integers, Sequences, FiniteSets

CONSTANTS M, N, K,   \* A is M*K, B is K*N, C is M*N
          TS,        \* the edge of a work-group and of a tile
          Resident   \* the groups a device works on at a time

\* numTiles, and the groups along both dimensions.
NumTiles == K \div TS
GroupRows == M \div TS
GroupCols == N \div TS

\* clEnqueueNDRangeKernel() takes whole groups only.
ASSUME MatrixKernelAssumption ==
    /\ TS \in Nat \ {0} /\ M \in Nat \ {0} /\ N \in Nat \ {0} /\ K \in Nat \ {0}
    /\ GroupRows \in Nat /\ M = TS * GroupRows
    /\ GroupCols \in Nat /\ N = TS * GroupCols
    /\ NumTiles \in Nat /\ K = TS * NumTiles
    /\ Resident \in Nat \ {0}

\* get_group_id() and get_local_id() of a work-item.
Local == 0 .. TS - 1
Item == [gr : 0 .. GroupRows - 1, gc : 0 .. GroupCols - 1, r : Local, c : Local]
Group == [gr : 0 .. GroupRows - 1, gc : 0 .. GroupCols - 1]

GroupOf(i) == [gr |-> i.gr, gc |-> i.gc]
Members(g) == {[gr |-> g.gr, gc |-> g.gc, r |-> a, c |-> b] : a, b \in Local}

VARIABLES
    kernel,      \* which one runs
    pc,          \* where each item is
    t, k,        \* its loop counters
    acc,         \* its sum
    asub, bsub,  \* the tiles of each group, at <<column, row>>
    cells        \* C

vars == <<kernel, pc, t, k, acc, asub, bsub, cells>>
tiles == <<asub, bsub>>

Kernels == {"myAdd", "myGEMM1", "myGEMM1b", "myGEMM2"}
ItemPc == {"ready", "load", "loaded", "sum", "summed", "store", "stored"}

\* A float nobody has written, and the factor of a term that is no product.
Undefined == -1
One == -2

\* globalRow and globalCol: myGEMM1b takes the dimensions the other way round.
Id0(i) == TS * i.gr + i.r
Id1(i) == TS * i.gc + i.c
Row(i) == IF kernel = "myGEMM1b" THEN Id1(i) ELSE Id0(i)
Col(i) == IF kernel = "myGEMM1b" THEN Id0(i) ELSE Id1(i)

\* The term A[n*M + row] * B[col*K + n], and the index of an element of C.
Term(n, row, col) == <<n * M + row, col * K + n>>
Cell(row, col) == col * M + row

\* run_myGEMM() takes M = N, and myGEMM1b needs it.
CanLaunch(f) == f = "myGEMM1b" => M = N

Init ==
    /\ kernel \in {f \in Kernels : CanLaunch(f)}
    /\ pc = [i \in Item |-> "ready"]
    /\ t = [i \in Item |-> 0] /\ k = [i \in Item |-> 0]
    /\ acc = [i \in Item |-> <<>>]
    /\ asub = [g \in Group |-> [x \in Local \X Local |-> Undefined]]
    /\ bsub = [g \in Group |-> [x \in Local \X Local |-> Undefined]]
    /\ cells = [x \in 0 .. M * N - 1 |-> <<>>]

\* The items of g go on together.
All(g, from, to) ==
    /\ \A i \in Members(g) : pc[i] = from
    /\ pc' = [i \in Item |-> IF GroupOf(i) = g THEN to ELSE pc[i]]

Running == {g \in Group : \E i \in Members(g) : pc[i] \notin {"ready", "stored"}}

\* The device begins a group.
Dispatch(g) ==
    /\ Cardinality(Running) < Resident
    /\ All(g, "ready", CASE kernel = "myAdd" -> "store"
                         [] kernel = "myGEMM2" -> "load"
                         [] OTHER -> "sum")
    /\ UNCHANGED <<kernel, t, k, acc, tiles, cells>>

\* The loops of myGEMM1 and of myGEMM1b read A and B only, which nobody
\* writes: they are one step.
Accumulate(i) ==
    /\ kernel \in {"myGEMM1", "myGEMM1b"} /\ pc[i] = "sum"
    /\ acc' = [acc EXCEPT ![i] = [x \in 1 .. K |-> Term(x - 1, Row(i), Col(i))]]
    /\ pc' = [pc EXCEPT ![i] = "store"]
    /\ UNCHANGED <<kernel, t, k, tiles, cells>>

-----------------------------------------------------------------------------
(***************************************************************************)
(* The loop of myGEMM2 over the tiles                                      *)
(***************************************************************************)
\* Every item loads one element of either tile.
Load(i) ==
    /\ pc[i] = "load"
    /\ asub' = [asub EXCEPT ![GroupOf(i)][<<i.c, i.r>>] = (TS * t[i] + i.c) * M + Row(i)]
    /\ bsub' = [bsub EXCEPT ![GroupOf(i)][<<i.c, i.r>>] = Col(i) * K + (TS * t[i] + i.r)]
    /\ pc' = [pc EXCEPT ![i] = "loaded"]
    /\ UNCHANGED <<kernel, t, k, acc, cells>>

\* barrier(): the tile is loaded.
TileLoaded(g) ==
    /\ All(g, "loaded", "sum")
    /\ UNCHANGED <<kernel, t, k, acc, tiles, cells>>

\* acc += Asub[k][row] * Bsub[col][k]
AccumulateTile(i) ==
    /\ kernel = "myGEMM2" /\ pc[i] = "sum"
    /\ acc' = [acc EXCEPT ![i] = Append(@, <<asub[GroupOf(i)][<<k[i], i.r>>],
                                             bsub[GroupOf(i)][<<i.c, k[i]>>]>>)]
    /\ k' = [k EXCEPT ![i] = @ + 1]
    /\ pc' = [pc EXCEPT ![i] = IF k[i] + 1 = TS THEN "summed" ELSE "sum"]
    /\ UNCHANGED <<kernel, t, tiles, cells>>

AfterTile(i) == IF t[i] + 1 < NumTiles THEN "load" ELSE "store"

\* Mutant: the second barrier is left out.
TileDone_NoBarrier(g) ==
    \E i \in Members(g) :
        /\ pc[i] = "summed"
        /\ pc' = [pc EXCEPT ![i] = AfterTile(i)]
        /\ t' = [t EXCEPT ![i] = @ + 1] /\ k' = [k EXCEPT ![i] = 0]
        /\ UNCHANGED <<kernel, acc, tiles, cells>>

\* Mutant: one barrier is there for the whole device, and not for the group.
TileDone_OnceForAll(g) ==
    /\ \A i \in Item : pc[i] = "summed"
    /\ pc' = [i \in Item |-> AfterTile(i)]
    /\ t' = [i \in Item |-> t[i] + 1] /\ k' = [i \in Item |-> 0]
    /\ UNCHANGED <<kernel, acc, tiles, cells>>

\* barrier(): the tile has been used; the next one, if there is one.
TileDone(g) ==
    /\ \A i \in Members(g) : pc[i] = "summed"
    /\ pc' = [i \in Item |-> IF GroupOf(i) = g THEN AfterTile(i) ELSE pc[i]]
    /\ t' = [i \in Item |-> IF GroupOf(i) = g THEN t[i] + 1 ELSE t[i]]
    /\ k' = [i \in Item |-> IF GroupOf(i) = g THEN 0 ELSE k[i]]
    /\ UNCHANGED <<kernel, acc, tiles, cells>>

-----------------------------------------------------------------------------
\* myAdd has one sum of two terms.
Result(i) ==
    IF kernel = "myAdd"
    THEN <<<<Cell(Row(i), Col(i)), One>>, <<One, Cell(Row(i), Col(i))>>>>
    ELSE acc[i]

Store(i) ==
    /\ pc[i] = "store"
    /\ cells' = [cells EXCEPT ![Cell(Row(i), Col(i))] = Result(i)]
    /\ pc' = [pc EXCEPT ![i] = "stored"]
    /\ UNCHANGED <<kernel, t, k, acc, tiles>>

Next ==
    \/ \E g \in Group : Dispatch(g) \/ TileLoaded(g) \/ TileDone(g)
    \/ \E i \in Item : Accumulate(i) \/ Load(i) \/ AccumulateTile(i) \/ Store(i)

Spec == Init /\ [][Next]_vars

-----------------------------------------------------------------------------
(***************************************************************************)
(* Properties                                                              *)
(***************************************************************************)
\* The sum of matmult() (topencl.cpp:216) for the element of C at m, n.
Dot(m, n) == [x \in 1 .. K |-> Term(x - 1, m, n)]

\* The types of the variables.
TypeOK ==
    /\ kernel \in Kernels
    /\ pc \in [Item -> ItemPc]
    /\ t \in [Item -> Nat] /\ k \in [Item -> Nat]
    /\ acc \in [Item -> Seq(Int \X Int)]
    /\ asub \in [Group -> [Local \X Local -> Int]]
    /\ bsub \in [Group -> [Local \X Local -> Int]]
    /\ cells \in [0 .. M * N - 1 -> Seq(Int \X Int)]

\* "Synchronise to make sure the tile is loaded", "Synchronise before loading
\* the next tile" (myGEMM.cl:198, 206): what an item of a matrix product has
\* stored is the CPU's sum, term by term and in the CPU's order, whatever the
\* order in which the items and groups have stepped.
CellsRight ==
    kernel # "myAdd" => \A i \in Item :
        pc[i] = "stored" => cells[Cell(Row(i), Col(i))] = Dot(Row(i), Col(i))
=============================================================================
