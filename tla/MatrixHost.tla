------------------------------ MODULE MatrixHost ------------------------------
(***************************************************************************)
(* The program of src/topencl.cpp: it takes the reference product D from   *)
(* the file myGEMM.matD or computes it and saves it there, runs a kernel   *)
(* of src/myGEMM.cl (the module MatrixKernel) a few times, and compares.   *)
(* The file outlives the program, which may be killed at any moment and be *)
(* started again with another kernel.                                      *)
(*                                                                         *)
(* What the file or D holds is always the beginning of the right product:  *)
(* only its length varies.  The file is twice as long as it needs to be    *)
(* (sizeof(float* ) for a float); lengths past M*N floats are one.         *)
(***************************************************************************)
EXTENDS MatrixKernel

CONSTANTS Platforms,  \* how many OpenCL platforms there are
          Cuts,       \* where a save may be cut short, in floats
          MaxStarts   \* bound: how often the program is started

ASSUME MatrixHostAssumption ==
    /\ Platforms \in Nat
    /\ Cuts \subseteq 1 .. M * N - 1
    /\ MaxStarts \in Nat

VARIABLES
    at,        \* where the program is
    platform,  \* platform_id: a number, or 0 for NULL
    file,      \* floats in myGEMM.matD; 0 when it is empty or not there
    known,     \* floats of D that have been loaded or computed
    ran,       \* whether the kernel has run to its end
    result,    \* C, as the program has it when it compares
    sound,     \* ghost: no transfer or launch failed, and the device rounds
               \* as the CPU does
    report,    \* what is printed at the end: "none", "clean" or "errors"
    starts     \* how often the program has been started

host == <<at, platform, file, known, ran, result, sound, report, starts>>
outcome == <<ran, result, sound>>
hostVars == <<vars, host>>

Size == M * N
ZeroCells == [x \in 0 .. Size - 1 |-> <<>>]

HostInit ==
    /\ Init /\ kernel = "myAdd"
    /\ at = "main" /\ platform = 0 /\ file = 0 /\ known = 0
    /\ ran = FALSE /\ result = ZeroCells /\ sound = TRUE
    /\ report = "none" /\ starts = 1

-----------------------------------------------------------------------------
(***************************************************************************)
(* main() and clutl_platform_select()                                      *)
(***************************************************************************)
\* clutl_platform_select(id): what it returns, and the platform it hands out.
SelectRet(id) == IF id > 0 THEN 0 ELSE Platforms
SelectId(id) == IF id \in 1 .. Platforms THEN id ELSE 0

\* The program's first argument is the number of the platform.
PlatformFromArgument(id) ==
    /\ at = "main"
    /\ at' = IF SelectRet(id) = 0 THEN "load" ELSE "exit"
    /\ platform' = SelectId(id)
    /\ UNCHANGED <<vars, file, known, outcome, report, starts>>

\* Without arguments the user chooses from the list, or quits.
PlatformFromUser(id) ==
    /\ at = "main"
    /\ at' = IF id \in 1 .. Platforms THEN "load" ELSE "exit"
    /\ platform' = SelectId(id)
    /\ UNCHANGED <<vars, file, known, outcome, report, starts>>

-----------------------------------------------------------------------------
(***************************************************************************)
(* run_myGEMM()                                                            *)
(***************************************************************************)
\* Mutant: a file that is there is taken without being read to the end, and
\* its absence is not noticed.
LoadReference_Unchecked ==
    /\ at = "load"
    /\ known' = file
    /\ at' = "build"
    /\ UNCHANGED <<vars, platform, file, outcome, report, starts>>

\* load_bin(): anything that can be read at all is the reference.
LoadReference ==
    /\ at = "load"
    /\ known' = file
    /\ at' = IF file > 0 THEN "build" ELSE "multiply"
    /\ UNCHANGED <<vars, platform, file, outcome, report, starts>>

\* matmult()
Multiply ==
    /\ at = "multiply"
    /\ known' = Size
    /\ at' = "save"
    /\ UNCHANGED <<vars, platform, file, outcome, report, starts>>

\* save_bin(): the file grows; its return value is not looked at when it
\* cannot be opened or the disk is full.
Save(n) ==
    /\ at = "save" /\ file < n
    /\ file' = n
    /\ UNCHANGED <<vars, at, platform, known, outcome, report, starts>>

SaveReturns ==
    /\ at = "save"
    /\ at' = "build"
    /\ UNCHANGED <<vars, platform, file, known, outcome, report, starts>>

\* The buffers, C full of zeros, and a new launch of kernel f.
Launch(f) ==
    /\ kernel' = f
    /\ pc' = [i \in Item |-> "ready"]
    /\ t' = [i \in Item |-> 0] /\ k' = [i \in Item |-> 0]
    /\ acc' = [i \in Item |-> <<>>]
    /\ asub' = [g \in Group |-> [x \in Local \X Local |-> Undefined]]
    /\ bsub' = asub'

\* load_src() fails: the only error that ends the program.
SourceMissing ==
    /\ at = "build"
    /\ at' = "exit"
    /\ UNCHANGED <<vars, platform, file, known, outcome, report, starts>>

\* matmult()'s C, of which D has the first elements; what follows them is
\* whatever malloc() returned.
Product == [x \in 0 .. Size - 1 |-> Dot(x % M, x \div M)]

\* What C may hold when a call has failed unseen: its zeros; what was in the
\* memory of the device, such as the product of an earlier start; or other
\* floats.
OtherFloats == [x \in 0 .. Size - 1 |-> <<<<Undefined, Undefined>>>>]
Unseen == result' \in {ZeroCells, Product, OtherFloats} /\ sound' = FALSE

\* The program has been built and its kernel f is there.  No platform (NULL)
\* means no device: whoever implements OpenCL refuses it.
BuildProgram(f) ==
    /\ at = "build" /\ platform # 0 /\ CanLaunch(f)
    /\ Launch(f)
    /\ cells' = ZeroCells
    /\ at' = "run"
    /\ UNCHANGED <<platform, file, known, outcome, report, starts>>

\* It has not: every call on the device fails, the errors are printed, and
\* C keeps its zeros, unless some calls do not fail.
BuildFails ==
    /\ at = "build"
    /\ at' = "compare"
    /\ UNCHANGED <<result, sound>> \/ Unseen
    /\ UNCHANGED <<vars, platform, file, known, ran, report, starts>>

DeviceStep ==
    /\ at = "run"
    /\ Next
    /\ UNCHANGED host

\* clEnqueueReadBuffer(), which is not asked whether it succeeded; nor were the
\* transfers of A and B.  What they left on the device shows here.
ReadBack == (result' = cells /\ sound' = TRUE) \/ Unseen

\* clWaitForEvents() returns when every item has ended.  The launches after
\* the first do the same again.
RunDone ==
    /\ at = "run"
    /\ \A i \in Item : pc[i] = "stored"
    /\ ran' = TRUE
    /\ ReadBack
    /\ at' = "compare"
    /\ UNCHANGED <<vars, platform, file, known, report, starts>>

\* A launch fails, or the device gives up in the middle: that is printed, or
\* not even looked at.
RunFails ==
    /\ at = "run"
    /\ Launch("myAdd") /\ cells' = ZeroCells
    /\ Unseen
    /\ at' = "compare"
    /\ UNCHANGED <<platform, file, known, ran, report, starts>>

\* matcmp()
Compare ==
    /\ at = "compare"
    /\ report' = IF known = Size /\ result = Product THEN "clean" ELSE "errors"
    /\ at' = "exit"
    /\ UNCHANGED <<vars, platform, file, known, outcome, starts>>

-----------------------------------------------------------------------------
\* What was on the device goes with the program.
Killed ==
    /\ at # "exit"
    /\ at' = "exit"
    /\ Launch("myAdd") /\ cells' = ZeroCells
    /\ UNCHANGED <<platform, file, known, outcome, report, starts>>

Start ==
    /\ at = "exit" /\ starts < MaxStarts
    /\ starts' = starts + 1
    /\ at' = "main" /\ platform' = 0 /\ known' = 0 /\ report' = "none"
    /\ ran' = FALSE /\ result' = ZeroCells /\ sound' = TRUE
    /\ Launch("myAdd") /\ cells' = ZeroCells
    /\ UNCHANGED file

Program ==
    \/ \E id \in 0 .. Platforms + 1 : PlatformFromArgument(id) \/ PlatformFromUser(id)
    \/ LoadReference \/ Multiply \/ (\E n \in Cuts \cup {Size} : Save(n)) \/ SaveReturns
    \/ SourceMissing \/ (\E f \in Kernels : BuildProgram(f)) \/ BuildFails
    \/ DeviceStep \/ RunDone \/ Compare

HostNext == Program \/ RunFails \/ Killed \/ Start

\* The program and the device run while they can; that the device gives up
\* cannot be relied on.
HostSpec == HostInit /\ [][HostNext]_hostVars /\ WF_hostVars(Program)

-----------------------------------------------------------------------------
(***************************************************************************)
(* Properties                                                              *)
(***************************************************************************)
Ran == ran /\ kernel # "myAdd"

\* "errors were found in GPU result" (topencl.cpp:187).  A report without
\* errors is never wrong: C has the whole product.  And if every transfer and
\* launch succeeded and the device rounds as the CPU does, it is of a matrix
\* product that ran; and one that ran is reported right, unless the program or
\* an earlier one, killed or out of disk space in save_bin(), has left a
\* reference that is cut short.
ReportTrue ==
    /\ report = "clean" => known = Size /\ result = Product
    /\ sound /\ report = "clean" => Ran /\ cells = Product
    /\ sound /\ report = "errors" /\ Ran => known < Size /\ file \in Cuts

\* The barriers let everybody through: the kernels end, and so does the
\* program.
ProgramEnds == at = "main" ~> at = "exit"
=============================================================================
