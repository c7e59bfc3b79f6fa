------------------------------ MODULE TcDaemon ------------------------------
(***************************************************************************)
(* The TC daemon: main of src/tc_client/MainNFSD/tc_daemon.c initialises  *)
(* the client with nfs4_init, runs the benchmark tc_singlefile of         *)
(* src/tc_client/nfs4/tc_daemontest.c once and calls nfs4_deinit.         *)
(*                                                                         *)
(* tc_singlefile allocates one batch of ops_per_comp ops (a data buffer   *)
(* and a path buffer per op), then for j = 0, ops_per_comp, ... while     *)
(* j <= file_size / block_size fills the offsets, names the file in the   *)
(* first op and calls nfs4_readv (nfs4_writev); it ignores the result and *)
(* frees what it allocated at the end.  nfs4_readv is synchronous and its *)
(* result is not used, so a call is one step.  Heap blocks are the names  *)
(* of what the driver allocates; a free of a block that is not live is    *)
(* recorded as a fault, as is a write past the end of temp_path.          *)
(***************************************************************************)
EXTENDS Integers, Sequences, SequencesExt

CONSTANTS MAX_READ_COUNT,
          BlockSize,     \* block_size
          FileSize,      \* file_size
          OpsPerComp,    \* ops_per_comp
          WordBits,      \* width of unsigned int, in which offsets are computed
          Rw             \* rw: 0 reads, otherwise writes

VARIABLES dpc,       \* where main and tc_singlefile are
          module,    \* whether nfs4_init returned a module
          j,         \* the loop counter j
          tempPath,  \* temp_path[0 .. MAX_READ_COUNT-1]
          heap,      \* state of each block the driver may allocate
          faults,    \* memory errors the program has made
          issued     \* offsets of every op sent to nfs4_readv / nfs4_writev

vars == <<dpc, module, j, tempPath, heap, faults, issued>>

Slots == 0 .. OpsPerComp - 1
\* The data buffer and path buffer of op k, and the user_arg array.
Blocks == {<<"data", k>> : k \in Slots} \cup {<<"path", k>> : k \in Slots}
          \cup {<<"user_arg", 0>>}
Unset == <<"uninitialized", 0>>

Init ==
    /\ dpc = "nfs4_init"
    /\ module = FALSE
    /\ j = 0
    /\ tempPath = [s \in 0 .. MAX_READ_COUNT - 1 |-> Unset]
    /\ heap = [b \in Blocks |-> "unallocated"]
    /\ faults = {}
    /\ issued = {}

-----------------------------------------------------------------------------
(* main: nfs4_init(tc_config_path, log, 77) returns the module, or NULL   *)
(* and LogFatal ends the process.                                         *)
nfs4_init ==
    /\ dpc = "nfs4_init"
    /\ \/ module' = TRUE /\ dpc' = "tc_singlefile"
       \/ module' = FALSE /\ dpc' = "exited"
    /\ UNCHANGED <<j, tempPath, heap, faults, issued>>

(* tc_singlefile before the loop: the clearing loop sets temp_path[i]     *)
(* with i = 0 every time; the allocation loop mallocs user_arg, each      *)
(* op's data and temp_path[k], past the end of the MAX_READ_COUNT-entry   *)
(* array when ops_per_comp is larger.                                     *)
Setup ==
    /\ dpc = "tc_singlefile"
    /\ tempPath' = [s \in DOMAIN tempPath |->
                      IF s < OpsPerComp THEN <<"path", s>>
                      ELSE IF s = 0 THEN <<"NULL", 0>> ELSE tempPath[s]]
    /\ heap' = [b \in Blocks |-> "live"]
    /\ faults' = IF OpsPerComp > MAX_READ_COUNT
                 THEN faults \cup {"temp_path overflow"} ELSE faults
    /\ dpc' = "loop"
    /\ UNCHANGED <<module, j, issued>>

WordMod == 2^WordBits

\* j*block_size + k*block_size, computed in unsigned int.
Offset(jj, k) ==
    (((jj * BlockSize) % WordMod) + ((k * BlockSize) % WordMod)) % WordMod

\* Mutant: the loop stops before the block that holds the end of the file.
LoopContinuesStrict(jj) == jj < FileSize \div BlockSize

\* while (j <= (file_size / block_size)), in unsigned division.
LoopContinues(jj) == jj <= FileSize \div BlockSize

\* Mutant: j is not advanced after a call.
AdvanceForgotten(jj) == jj

\* j = j + ops_per_comp.
Advance(jj) == jj + OpsPerComp

(* One iteration: fill the offsets of the ops, write input_path "0" into  *)
(* temp_path[0] for op 0, call nfs4_readv or nfs4_writev (its result is   *)
(* ignored) and advance j.                                                *)
Batch ==
    /\ dpc = "loop"
    /\ LoopContinues(j)
    /\ issued' = issued \cup {Offset(j, k) : k \in Slots}
    /\ j' = Advance(j)
    /\ UNCHANGED <<dpc, module, tempPath, heap, faults>>

\* Free block b: a fault unless it is live.
FreeBlock(st, b) ==
    IF b \in DOMAIN st.heap /\ st.heap[b] = "live"
    THEN [st EXCEPT !.heap[b] = "freed"]
    ELSE [st EXCEPT !.faults = @ \cup {IF b \in DOMAIN st.heap
                                       THEN "double free" ELSE "invalid free"}]

(* After the loop: free(temp_path[i]) ops_per_comp times with i still 0,  *)
(* then free(user_arg[i].data) for i < ops_per_comp, then free(user_arg); *)
(* tc_singlefile returns 0 to main.                                       *)
Finish ==
    /\ dpc = "loop"
    /\ ~LoopContinues(j)
    /\ LET pathFrees == [k \in 1 .. OpsPerComp |-> tempPath[0]]
           dataFrees == [i \in 1 .. OpsPerComp |-> <<"data", i - 1>>]
           st == FoldLeft(FreeBlock, [heap |-> heap, faults |-> faults],
                          pathFrees \o dataFrees \o <<<<"user_arg", 0>>>>)
       IN  /\ heap' = st.heap
           /\ faults' = st.faults
    /\ dpc' = "nfs4_deinit"
    /\ UNCHANGED <<module, j, tempPath, issued>>

\* main: nfs4_deinit(module); return 0.
nfs4_deinit ==
    /\ dpc = "nfs4_deinit"
    /\ module' = FALSE
    /\ dpc' = "done"
    /\ UNCHANGED <<j, tempPath, heap, faults, issued>>

\* The process has ended, by returning from main or in LogFatal.
Terminated == dpc \in {"done", "exited"} /\ UNCHANGED vars

Next == nfs4_init \/ Setup \/ Batch \/ Finish \/ nfs4_deinit \/ Terminated

Spec == Init /\ [][Next]_vars /\ WF_vars(Next)

-----------------------------------------------------------------------------
(* When main returns normally, every block of the file, 0 .. (file_size   *)
(* - 1) / block_size, was requested at its byte offset: the loop bound    *)
(* `j <= file_size / block_size`, the step ops_per_comp and the unsigned  *)
(* offset arithmetic of tc_daemontest.c together cover the file.          *)
CoversAllBlocks ==
    dpc = "done" =>
        \A b \in 0 .. (FileSize - 1) \div BlockSize : b * BlockSize \in issued

(* The daemon ends: nfs4_init fails fatally, or the loop of tc_singlefile *)
(* ends and main returns, for a single thread that keeps running.         *)
Termination == <>(dpc \in {"done", "exited"})

(* Every free tc_singlefile makes at its end is of a block it allocated   *)
(* and has not freed yet.                                                 *)
FreesOnlyLiveBlocks == faults \cap {"double free", "invalid free"} = {}
=============================================================================
