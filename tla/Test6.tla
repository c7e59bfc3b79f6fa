-------------------------------- MODULE Test6 --------------------------------
(***************************************************************************)
(* The POSIX baseline of the single-file benchmark: main of               *)
(* src/proxy_client/nfs4/test6.c.  It parses its options with getopt,     *)
(* checks argc, opens <path>0 and reads (writes) it block by block with   *)
(* read(2) (write(2)) while j <= file_size / block_size, then closes it   *)
(* and frees its two buffers.                                             *)
(*                                                                         *)
(* An option is one getopt step.  -b and -m set block_size and file_size  *)
(* from atoi of their argument, converted to unsigned int; -n, -c, -l and *)
(* -z set variables that only the printing uses, so only whether their    *)
(* check passes or calls exit(-1) is kept; -r and -w set rw; -h and an    *)
(* unknown option print the usage and exit.  GNU getopt moves operands    *)
(* behind the options, so any set of options fits a command line of 14    *)
(* words: argc is chosen when getopt is done.  Unsigned arithmetic is     *)
(* taken modulo 2^WordBits; a division by a block_size of 0 is the        *)
(* SIGFPE that ends the process.  Formatting the file name, timing and    *)
(* printing are left out.                                                 *)
(***************************************************************************)
EXTENDS Integers

CONSTANTS BArgs,      \* atoi results of the -b arguments on the command line
          MArgs,      \* atoi results of the -m arguments
          MaxBlock,   \* 32 * 1024, the largest block_size -b accepts
          MaxOpts,    \* the most options one command line holds
          WordBits    \* width of unsigned int

VARIABLES tpc,        \* where main is
          block_size, file_size, rw, j,
          nopts,      \* options getopt has returned
          fd,         \* "none", "open", "failed" or "closed"
          issued      \* offsets read (written) at

vars == <<tpc, block_size, file_size, rw, j, nopts, fd, issued>>

WordMod == 2^WordBits

\* (unsigned int)atoi(optarg).
Unsigned(v) == v % WordMod

Init ==
    /\ tpc = "getopt"
    /\ block_size = 0 /\ file_size = 0 /\ rw = 0 /\ j = 0
    /\ nopts = 0
    /\ fd = "none"
    /\ issued = {}

\* An option's check failed, or -h: printf and exit(-1).
Exit == tpc' = "exited"

\* if (block_size <= 0 || block_size > 32 * 1024) exit(-1), unsigned.
BlockSizeValid(bs) == bs > 0 /\ bs <= MaxBlock

(* One option returned by getopt, with its case of the switch.            *)
Getopt ==
    /\ tpc = "getopt"
    /\ nopts < MaxOpts
    /\ nopts' = nopts + 1
    /\ \/ \E v \in BArgs :                                   \* case 'b'
             /\ block_size' = Unsigned(v)
             /\ IF BlockSizeValid(block_size') THEN UNCHANGED tpc ELSE Exit
             /\ UNCHANGED <<file_size, rw>>
       \/ \E v \in MArgs :                                   \* case 'm'
             /\ file_size' = Unsigned(v)
             /\ IF file_size' > 0 THEN UNCHANGED tpc ELSE Exit
             /\ UNCHANGED <<block_size, rw>>
       \/ /\ \/ UNCHANGED tpc \/ Exit       \* 'n', 'c', 'l', 'z': check passes or fails
          /\ UNCHANGED <<block_size, file_size, rw>>
       \/ \E w \in {0, 1} :                                  \* 'r', 'w'
             /\ rw' = w
             /\ UNCHANGED <<tpc, block_size, file_size>>
       \/ /\ Exit                                            \* 'h', default
          /\ UNCHANGED <<block_size, file_size, rw>>
    /\ UNCHANGED <<j, fd, issued>>

(* getopt returns -1; if (argc != 14) exit(-1).                           *)
EndOfOptions ==
    /\ tpc = "getopt"
    /\ tpc' \in {"open", "exited"}
    /\ UNCHANGED <<block_size, file_size, rw, j, nopts, fd, issued>>

(* temp_path and data_buf are allocated, temp_path becomes <path>0 and    *)
(* open(temp_path, O_RDONLY or O_WRONLY) runs; fd < 0 goes to main_exit.  *)
Open ==
    /\ tpc = "open"
    /\ \/ fd' = "open" /\ tpc' = "loop"
       \/ fd' = "failed" /\ tpc' = "main_exit"
    /\ j' = 0
    /\ UNCHANGED <<block_size, file_size, rw, nopts, issued>>

\* Mutant: the loop stops before the block holding the end of the file.
LoopContinuesStrict(jj) == jj < file_size \div block_size

\* while (j <= (file_size / block_size)), in unsigned int.
LoopContinues(jj) == jj <= file_size \div block_size

(* The loop condition divides by block_size: with 0, SIGFPE.              *)
DivideByZero ==
    /\ tpc = "loop"
    /\ block_size = 0
    /\ tpc' = "sigfpe"
    /\ UNCHANGED <<block_size, file_size, rw, j, nopts, fd, issued>>

(* One iteration: posix_fadvise and read(fd, data_buf, block_size) (or    *)
(* write) at offset j * block_size, then j++, all in unsigned int.        *)
ReadBlock ==
    /\ tpc = "loop"
    /\ block_size # 0
    /\ LoopContinues(j)
    /\ issued' = issued \cup {Unsigned(j * block_size)}
    /\ j' = Unsigned(j + 1)
    /\ UNCHANGED <<tpc, block_size, file_size, rw, nopts, fd>>

(* The loop ends: close(fd), then main_exit.                              *)
Close ==
    /\ tpc = "loop"
    /\ block_size # 0
    /\ ~LoopContinues(j)
    /\ fd' = "closed"
    /\ tpc' = "main_exit"
    /\ UNCHANGED <<block_size, file_size, rw, j, nopts, issued>>

(* main_exit: free(data_buf), free(temp_path), return 0.                  *)
MainExit ==
    /\ tpc = "main_exit"
    /\ tpc' = "done"
    /\ UNCHANGED <<block_size, file_size, rw, j, nopts, fd, issued>>

\* The process has ended: returned, exited, or killed by SIGFPE.
Terminated == tpc \in {"done", "exited", "sigfpe"} /\ UNCHANGED vars

Next == Getopt \/ EndOfOptions \/ Open \/ DivideByZero \/ ReadBlock
        \/ Close \/ MainExit \/ Terminated

Spec == Init /\ [][Next]_vars

-----------------------------------------------------------------------------
(* When test6 has read the file and returns 0, every block of the file,   *)
(* 0 .. (file_size - 1) / block_size, was read at its byte offset: the    *)
(* bound `j <= file_size / block_size` and the unsigned offset            *)
(* arithmetic of test6.c:199-212 cover the file.                          *)
ReadsWholeFile ==
    tpc = "done" /\ fd = "closed" =>
        \A b \in 0 .. (file_size - 1) \div block_size :
            Unsigned(b * block_size) \in issued
=============================================================================
