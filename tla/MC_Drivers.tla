----------------------------- MODULE MC_Drivers -----------------------------
(***************************************************************************)
(* The benchmark drivers checked in one model: the three single-file      *)
(* proxy tc_singlefile (TcSingleFile over TcUtils), the TC daemon         *)
(* (TcDaemon, with the arguments of tc_daemon.c:69, scaled) and the POSIX *)
(* baseline test6 (Test6, over every command line of up to MaxOpts        *)
(* options), and the buffer-cache benchmark kernel_dist1_bufcache         *)
(* (KernelDist).  They are separate programs and share no state: each     *)
(* step is a step of one of them with the others' variables unchanged.    *)
(* The two TC drivers interleave; as no property relates the POSIX ones   *)
(* to them or to each other and no state is shared, one of the two POSIX  *)
(* benchmarks runs once both TC drivers have ended, which covers every    *)
(* behaviour of each driver without the product of their states.  Each   *)
(* TC driver is a process the scheduler keeps running, so it has weak        *)
(* fairness of its own steps; test6 may loop for ever (see Test6) and has *)
(* no liveness property.  Every property below is about one driver.       *)
(***************************************************************************)
EXTENDS Integers

CONSTANTS MAX_READ_COUNT, MAX_WRITE_COUNT, MAX_OPS_PER_COMPOUND,
          f1, NoPath, NOENT,
          OpsPerComp, NumOps, BlockSize, WordBits, Rw,
          T6BArgs, T6MArgs, T6MaxBlock, T6MaxOpts, T6WordBits,
          KdNArgs, KdMArgs, KdMaxCount

VARIABLES pc, kind, batch, kern, copies, results, next, fsal, res,
          dpc, rc, j, tempPath, heap, faults, issued,
          d_dpc, d_module, d_j, d_tempPath, d_heap, d_faults, d_issued,
          tpc, t_block_size, t_file_size, t_rw, t_j, t_nopts,
          t_fd, t_issued,
          kpc, k_num_files, k_num_ops, k_j, k_nopts, k_heap, k_faults

sf == INSTANCE TcSingleFile
        WITH Files <- {f1}, NULL <- NoPath, Errors <- {NOENT}, InputFile <- f1

\* tc_singlefile(path, 65536, 1, 200000, 3, 0.0, 0): file_size / block_size
\* stays 3 with a partial last block; ops_per_comp and rw are the literals.
dm == INSTANCE TcDaemon
        WITH MAX_READ_COUNT <- 10, BlockSize <- 4, FileSize <- 13,
             OpsPerComp <- 3, Rw <- 0,
             dpc <- d_dpc, module <- d_module, j <- d_j,
             tempPath <- d_tempPath, heap <- d_heap, faults <- d_faults,
             issued <- d_issued

\* The atoi results test6's -b and -m arguments are drawn from: 0 (also a
\* non-number), the smallest and a valid block size, one over the scaled
\* 32k limit, -1; 13 is the file size, 0 and -1 the edges of -m.
MCT6BArgs == {0, 1, 4, 9, -1}
MCT6MArgs == {0, 13, -1}

\* kernel_dist1_bufcache's -n and -m: 0 (also a non-number), 1 and 3 files;
\* 2 and 3 ops, so that num_ops is above and below 2 * num_files, and -1.
MCKdNArgs == {0, 1, 3}
MCKdMArgs == {2, 3, -1}

\* test6 with the scaled limits of the cfg.
t6 == INSTANCE Test6
        WITH BArgs <- T6BArgs, MArgs <- T6MArgs, MaxBlock <- T6MaxBlock,
             MaxOpts <- T6MaxOpts, WordBits <- T6WordBits,
             block_size <- t_block_size, file_size <- t_file_size,
             rw <- t_rw, j <- t_j, nopts <- t_nopts,
             fd <- t_fd, issued <- t_issued

\* kernel_dist1_bufcache with the limits of the cfg; its command lines are
\* as long as test6's and its words as wide.
kd == INSTANCE KernelDist
        WITH NArgs <- KdNArgs, MArgs <- KdMArgs, MaxCount <- KdMaxCount,
             MaxOpts <- T6MaxOpts, WordBits <- T6WordBits,
             num_files <- k_num_files, num_ops <- k_num_ops, j <- k_j,
             nopts <- k_nopts, heap <- k_heap, faults <- k_faults

sfVars == <<pc, kind, batch, kern, copies, results, next, fsal, res,
            dpc, rc, j, tempPath, heap, faults, issued>>
dmVars == <<d_dpc, d_module, d_j, d_tempPath, d_heap, d_faults, d_issued>>
t6Vars == <<tpc, t_block_size, t_file_size, t_rw, t_j, t_nopts,
           t_fd, t_issued>>
kdVars == <<kpc, k_num_files, k_num_ops, k_j, k_nopts, k_heap, k_faults>>
vars == <<sfVars, dmVars, t6Vars, kdVars>>

SingleFileStep == sf!Next /\ UNCHANGED <<dmVars, t6Vars, kdVars>>
DaemonStep     == dm!Next /\ UNCHANGED <<sfVars, t6Vars, kdVars>>
\* The TC drivers have ended.
TcDriversEnded == dpc \in {"done", "fatal"} /\ d_dpc \in {"done", "exited"}

\* A POSIX benchmark has not taken a step.
Test6Idle      == tpc = "getopt" /\ t_nopts = 0
KernelDistIdle == kpc = "getopt" /\ k_nopts = 0

Test6Step      == TcDriversEnded /\ KernelDistIdle /\ t6!Next
                  /\ UNCHANGED <<sfVars, dmVars, kdVars>>
KernelDistStep == TcDriversEnded /\ Test6Idle /\ kd!Next
                  /\ UNCHANGED <<sfVars, dmVars, t6Vars>>

Spec == /\ sf!Init /\ dm!Init /\ t6!Init /\ kd!Init
        /\ [][SingleFileStep \/ DaemonStep \/ Test6Step \/ KernelDistStep]_vars
        /\ WF_vars(SingleFileStep) /\ WF_vars(DaemonStep)

-----------------------------------------------------------------------------
(* The proxy driver, when its loop is done and LogFatal ends it, has     *)
(* requested every block                                                  *)
(* 0 .. num_ops-1 at its byte offset (tc_singlefile.c loop and offsets).  *)
SingleFileCoversAllBlocks == sf!CoversAllBlocks

(* The proxy driver ends: its loop ends and each tcread_v returns.        *)
SingleFileTermination == sf!Termination

(* The daemon, when main returns, has requested every block of the file   *)
(* (tc_daemontest.c loop bound j <= file_size / block_size and offsets).  *)
DaemonCoversAllBlocks == dm!CoversAllBlocks

(* The daemon's process ends, through LogFatal or by returning from main. *)
DaemonTermination == dm!Termination

(* test6, when it returns 0 after reading its file, has read every block  *)
(* of it (test6.c:199-212).                                               *)
Test6ReadsWholeFile == t6!ReadsWholeFile

(* kernel_dist1_bufcache, when it returns, has freed each buffer it       *)
(* allocated exactly once, on each of its paths through exit and          *)
(* main_exit (kernel_dist1_bufcache.c:183-243).                           *)
KernelDistReleasesAllAtReturn == kd!ReleasesAllAtReturn

(* The daemon never frees a block it did not allocate, or one it had     *)
(* already freed: the freeing loops at the end of its tc_singlefile       *)
(* (tc_daemontest.c:85-98) release exactly what its setup allocated,     *)
(* once.  (The proxy driver's free loops, tc_singlefile.c:125-138, come   *)
(* after its LogFatal and never run.)                                     *)
DaemonFreesOnlyLiveBlocks == dm!FreesOnlyLiveBlocks
=============================================================================
