---------------------------- MODULE TcSingleFile ----------------------------
(***************************************************************************)
(* The benchmark driver tc_singlefile of src/proxy_client/nfs4/           *)
(* tc_singlefile.c, composed with the tcread_v / tcwrite_v of TcUtils it  *)
(* calls.  The driver allocates one batch of ops_per_comp ops (a data     *)
(* buffer per op and a path buffer per op), then, for j = 0, ops_per_comp,*)
(* 2*ops_per_comp, ... while j < num_ops, fills the offsets, names the    *)
(* file in the first op only (the others use the current file) and makes  *)
(* one call.  After the loop it logs the time with LogFatal, which ends   *)
(* the process: the free loops and `return 0` after it never run.         *)
(*                                                                         *)
(* The driver runs in the caller's thread: while a call is in progress    *)
(* only the steps of TcUtils happen.  Heap blocks are the names of what   *)
(* the driver allocates; a free of a block that is not live is recorded   *)
(* as a fault, as is a write past the end of the temp_path array.         *)
(***************************************************************************)
EXTENDS Integers, Sequences

CONSTANTS MAX_READ_COUNT, MAX_WRITE_COUNT, MAX_OPS_PER_COMPOUND,
          Files, NULL, Errors,
          InputFile,     \* the file input_path names
          OpsPerComp,    \* ops_per_comp
          NumOps,        \* num_ops
          BlockSize,     \* block_size
          WordBits,      \* width of unsigned int, in which offsets are computed
          Rw             \* rw: 0 reads, otherwise writes

VARIABLES pc, kind, batch, kern, copies, results, next, fsal, res,
          dpc,       \* where the driver is
          rc,        \* the driver's return value
          j,         \* the loop counter j
          tempPath,  \* temp_path[0 .. MAX_READ_COUNT-1]
          heap,      \* state of each block the driver may allocate
          faults,    \* memory errors the driver has made
          issued     \* offsets of every op the driver has sent

tcVars == <<pc, kind, batch, kern, copies, results, next, fsal, res>>
driverVars == <<dpc, rc, j, tempPath, heap, faults, issued>>
vars == <<tcVars, driverVars>>

tc == INSTANCE TcUtils WITH MaxBatch <- OpsPerComp

Slots == 0 .. OpsPerComp - 1
\* The data buffer and path buffer of op k, and the user_arg array.
Blocks == {<<"data", k>> : k \in Slots} \cup {<<"path", k>> : k \in Slots}
          \cup {<<"user_arg", 0>>}
Unset == <<"uninitialized", 0>>

Init ==
    /\ tc!Init
    /\ dpc = "start"
    /\ rc = 0
    /\ j = 0
    /\ tempPath = [s \in 0 .. MAX_READ_COUNT - 1 |-> Unset]
    /\ heap = [b \in Blocks |-> "unallocated"]
    /\ faults = {}
    /\ issued = {}

-----------------------------------------------------------------------------
(* lookup_fsal("PROXY") or get_gsh_export(77) fails: return -1.           *)
NoProxyExport ==
    /\ dpc = "start"
    /\ dpc' = "done" /\ rc' = -1
    /\ UNCHANGED <<tcVars, j, tempPath, heap, faults, issued>>

(* Both found; op_ctx->export is set.  The clearing loop assigns          *)
(* temp_path[i] with i = 0 every time, which the allocation loop then     *)
(* overwrites: it mallocs user_arg, each op's data and temp_path[k], past *)
(* the end of the MAX_READ_COUNT-entry array when ops_per_comp is larger. *)
Setup ==
    /\ dpc = "start"
    /\ tempPath' = [s \in DOMAIN tempPath |->
                      IF s < OpsPerComp THEN <<"path", s>> ELSE tempPath[s]]
    /\ heap' = [b \in Blocks |-> "live"]
    /\ faults' = IF OpsPerComp > MAX_READ_COUNT
                 THEN faults \cup {"temp_path overflow"} ELSE faults
    /\ dpc' = "loop"
    /\ UNCHANGED <<tcVars, rc, j, issued>>

WordMod == 2^WordBits

\* Mutant: the offset forgets to scale the op's index by block_size.
OffsetUnscaled(jj, k) == (((jj * BlockSize) % WordMod) + k) % WordMod

\* j*block_size + k*block_size, computed in unsigned int.
Offset(jj, k) ==
    (((jj * BlockSize) % WordMod) + ((k * BlockSize) % WordMod)) % WordMod

\* The batch: op 0 names temp_path[0] (input_path with "0"), the rest NULL.
DriverBatch == [k \in 1 .. OpsPerComp |-> IF k = 1 THEN InputFile ELSE NULL]

(* One iteration while j < num_ops: fill the ops and call tcread_v or     *)
(* tcwrite_v, whose steps then run until it returns (op_ctx->export is    *)
(* set, so only the ENOTSUP early return can happen).                     *)
Batch ==
    /\ dpc = "loop"
    /\ j < NumOps
    /\ issued' = issued \cup {Offset(j, k) : k \in Slots}
    /\ tc!Call \/ tc!CallNotSupported
    /\ batch' = DriverBatch
    /\ kind' = IF Rw = 0 THEN "read" ELSE "write"
    /\ dpc' = "calling"
    /\ UNCHANGED <<rc, j, tempPath, heap, faults>>

\* Inside tcread_v / tcwrite_v.
InCall ==
    /\ dpc = "calling"
    /\ tc!Marshal \/ tc!ExecuteShard \/ tc!Cleanup
    /\ UNCHANGED driverVars

\* Mutant: j is not advanced after a call.
AdvanceForgotten(jj) == jj

\* j = j + ops_per_comp.
Advance(jj) == jj + OpsPerComp

(* The call returns; its result is ignored.                               *)
Returned ==
    /\ dpc = "calling"
    /\ tc!Return
    /\ j' = Advance(j)
    /\ dpc' = "loop"
    /\ UNCHANGED <<rc, tempPath, heap, faults, issued>>

(* After the loop: gettimeofday and LogFatal("tcreads done ..."), which  *)
(* ends the process before the free loops that follow it.                *)
LogFatal ==
    /\ dpc = "loop"
    /\ j >= NumOps
    /\ dpc' = "fatal"
    /\ UNCHANGED <<tcVars, rc, j, tempPath, heap, faults, issued>>

\* The program has returned from tc_singlefile (-1) or ended in LogFatal.
Terminated == dpc \in {"done", "fatal"} /\ UNCHANGED vars

Next == NoProxyExport \/ Setup \/ Batch \/ InCall \/ Returned \/ LogFatal
        \/ Terminated

Spec == Init /\ [][Next]_vars /\ WF_vars(Next)

-----------------------------------------------------------------------------
(* When the loop is done and LogFatal reports the time, every block       *)
(* 0 .. num_ops-1 of the file was requested at its byte offset: the loop's step, the per-op offset and   *)
(* the unsigned arithmetic of tc_singlefile.c together cover the file.    *)
CoversAllBlocks ==
    dpc = "fatal" =>
        \A b \in 0 .. NumOps - 1 : b * BlockSize \in issued

(* The driver ends: the loop over j ends and every call it makes returns, *)
(* for a sequential driver that keeps running.                            *)
Termination == <>(dpc \in {"done", "fatal"})
=============================================================================
