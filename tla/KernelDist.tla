----------------------------- MODULE KernelDist -----------------------------
(***************************************************************************)
(* The buffer-cache benchmark main of                                     *)
(* src/tc_client/nfs4/kernel_dist1_bufcache.c.  After getopt and the argc *)
(* check it allocates temp_path, data_buf and op_array, fills op_array    *)
(* with num_ops file numbers drawn from a normal distribution (randn),    *)
(* then for each of them opens <path><number>, reads (writes) one block   *)
(* and closes it; an fopen failure jumps to `exit`, which frees op_array, *)
(* a failed op_array allocation to `main_exit`, which frees the other two.*)
(*                                                                         *)
(* -b, -c, -l, -r and -w only pass their check or exit(-1): block_size,   *)
(* the path and rw size buffers and pick the mode, and change no control. *)
(* -n and -m set num_files and num_ops from atoi in unsigned int.  The    *)
(* fill loop has no branch and is one step; the numbers it draws only     *)
(* name files, so which fopen fails is a free choice.  The loop writes    *)
(* num_ops unsigned ints (4 bytes) into num_files doubles' worth (8 bytes *)
(* each) of op_array, and a write past that is recorded as a fault.       *)
(***************************************************************************)
EXTENDS Integers

CONSTANTS NArgs,      \* atoi results of the -n arguments on the command line
          MArgs,      \* atoi results of the -m arguments
          MaxCount,   \* 10000, the bound of -n and -m
          MaxOpts,    \* the most options one command line holds
          WordBits    \* width of unsigned int

VARIABLES kpc,        \* where main is
          num_files, num_ops, j,
          nopts,      \* options getopt has returned
          heap,       \* temp_path, data_buf, op_array: "none", "live", "NULL", "freed"
          faults      \* memory errors the program has made

vars == <<kpc, num_files, num_ops, j, nopts, heap, faults>>

Unsigned(v) == v % 2^WordBits

Blocks == {"temp_path", "data_buf", "op_array"}

Init ==
    /\ kpc = "getopt"
    /\ num_files = 0 /\ num_ops = 0 /\ j = 0
    /\ nopts = 0
    /\ heap = [b \in Blocks |-> "none"]
    /\ faults = {}

\* if (x <= 0 || x > 10000) exit(-1), unsigned.
CountValid(x) == x > 0 /\ x <= MaxCount

(* One option returned by getopt, with its case of the switch.            *)
Getopt ==
    /\ kpc = "getopt"
    /\ nopts < MaxOpts
    /\ nopts' = nopts + 1
    /\ \/ \E v \in NArgs :                                   \* case 'n'
             /\ num_files' = Unsigned(v)
             /\ kpc' = IF CountValid(num_files') THEN kpc ELSE "exited"
             /\ UNCHANGED num_ops
       \/ \E v \in MArgs :                                   \* case 'm'
             /\ num_ops' = Unsigned(v)
             /\ kpc' = IF CountValid(num_ops') THEN kpc ELSE "exited"
             /\ UNCHANGED num_files
       \/ /\ kpc' \in {kpc, "exited"}     \* 'b', 'c', 'l', 'r', 'w'; 'h', default
          /\ UNCHANGED <<num_files, num_ops>>
    /\ UNCHANGED <<j, heap, faults>>

(* getopt returns -1; if (argc != 12) exit(-1).                           *)
EndOfOptions ==
    /\ kpc = "getopt"
    /\ kpc' \in {"alloc", "exited"}
    /\ UNCHANGED <<num_files, num_ops, j, nopts, heap, faults>>

(* temp_path and data_buf are malloc'ed; op_array =                       *)
(* malloc(num_files * sizeof(double)) may return NULL (as malloc(0) may   *)
(* when -n was not given), and then main goes to main_exit.               *)
Alloc ==
    /\ kpc = "alloc"
    /\ \E a \in {"live", "NULL"} :
          /\ heap' = [heap EXCEPT !["temp_path"] = "live", !["data_buf"] = "live",
                                  !["op_array"] = a]
          /\ kpc' = IF a = "NULL" THEN "main_exit" ELSE "fill"
    /\ UNCHANGED <<num_files, num_ops, j, nopts, faults>>

(* while (j < num_ops) op_array[j] = (unsigned int)randn(...): num_ops    *)
(* 4-byte entries written into num_files * 8 bytes; then j = 0.           *)
Fill ==
    /\ kpc = "fill"
    /\ faults' = IF num_ops * 4 > num_files * 8
                 THEN faults \cup {"op_array overflow"} ELSE faults
    /\ j' = 0
    /\ kpc' = "loop"
    /\ UNCHANGED <<num_files, num_ops, nopts, heap>>

\* Mutant: a failed fopen jumps to main_exit, past free(op_array).
OnOpenFailureMainExit == "main_exit"

\* Where a failed fopen jumps: goto exit.
OnOpenFailure == "exit"

(* One iteration: fopen the file; on failure goto exit, else fread        *)
(* (fwrite) one block, fclose and j++.                                    *)
OpenFile ==
    /\ kpc = "loop"
    /\ j < num_ops
    /\ \/ j' = j + 1 /\ UNCHANGED kpc
       \/ kpc' = OnOpenFailure /\ UNCHANGED j
    /\ UNCHANGED <<num_files, num_ops, nopts, heap, faults>>

(* The loop ends after num_ops files; the timing is printed.              *)
LoopDone ==
    /\ kpc = "loop"
    /\ j >= num_ops
    /\ kpc' = "exit"
    /\ UNCHANGED <<num_files, num_ops, j, nopts, heap, faults>>

\* free(b): no effect on NULL, a fault unless b is live.
Free(h, f, b) ==
    CASE h[b] = "live"  -> [heap |-> [h EXCEPT ![b] = "freed"], faults |-> f]
      [] h[b] = "NULL"  -> [heap |-> h, faults |-> f]
      [] OTHER          -> [heap |-> h, faults |-> f \cup {"bad free"}]

(* exit: free(op_array), and on to main_exit.                             *)
ExitLabel ==
    /\ kpc = "exit"
    /\ LET st == Free(heap, faults, "op_array")
       IN  heap' = st.heap /\ faults' = st.faults
    /\ kpc' = "main_exit"
    /\ UNCHANGED <<num_files, num_ops, j, nopts>>

(* main_exit: free(data_buf), free(temp_path), return 0.                  *)
MainExit ==
    /\ kpc = "main_exit"
    /\ LET s1 == Free(heap, faults, "data_buf")
           s2 == Free(s1.heap, s1.faults, "temp_path")
       IN  heap' = s2.heap /\ faults' = s2.faults
    /\ kpc' = "done"
    /\ UNCHANGED <<num_files, num_ops, j, nopts>>

\* The process has ended, by returning from main or in exit(-1).
Terminated == kpc \in {"done", "exited"} /\ UNCHANGED vars

Next == Getopt \/ EndOfOptions \/ Alloc \/ Fill \/ OpenFile \/ LoopDone
        \/ ExitLabel \/ MainExit \/ Terminated

Spec == Init /\ [][Next]_vars

-----------------------------------------------------------------------------
(* Whichever way main returns (after the last file, after a failed fopen  *)
(* or after a failed op_array allocation), the labels exit and main_exit  *)
(* have freed each of the three buffers it allocated exactly once, and    *)
(* nothing else.                                                          *)
ReleasesAllAtReturn ==
    kpc = "done" =>
        /\ \A b \in Blocks : heap[b] \in {"freed", "NULL"}
        /\ "bad free" \notin faults
=============================================================================
