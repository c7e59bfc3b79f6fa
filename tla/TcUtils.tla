------------------------------ MODULE TcUtils ------------------------------
(***************************************************************************)
(* The vectorized read/write entry points tcread_v and tcwrite_v of       *)
(* src/proxy_client/FSAL/FSAL_PROXY/tc_utils.c, and the FSAL tc_read /    *)
(* tc_write they hand the batch to.  The FSAL's compound engine is not    *)
(* under src/: it is modelled from spec.md 4.4-4.5 (shards of at most     *)
(* MAX_OPS_PER_COMPOUND ops, each shard stops at its first failing op,    *)
(* shards after a failing one are skipped).                               *)
(*                                                                         *)
(* One calling thread goes through the steps of one call after another:   *)
(* idle -> marshal -> execute (one step per shard) -> cleanup -> done.    *)
(***************************************************************************)
EXTENDS Naturals, Sequences, SequencesExt

CONSTANTS MAX_READ_COUNT,        \* nfs4_util.h: 10
          MAX_WRITE_COUNT,       \* nfs4_util.h: 10
          MAX_OPS_PER_COMPOUND,  \* spec.md 4.3: ops per compound
          MaxBatch,              \* longest batch a caller passes
          Files,                 \* paths a caller names
          NULL,                  \* a NULL path: the current file
          Errors                 \* NFS errors the server may return

ASSUME NULL \notin Files

OK          == "OK"
NotExecuted == "NOT_EXECUTED"
NoFileHandle == "NOFILEHANDLE"   \* a current-file op with no current file
ENOENT      == "ENOENT"
ENOTSUP     == "ENOTSUP"
Uninit      == "uninitialized"   \* a malloc'ed kern_arg entry never written
Set         == "set"             \* an entry the marshalling loop wrote
Statuses    == {OK, NoFileHandle} \cup Errors

VARIABLES pc,       \* step of the call in progress
          kind,     \* "read" (tcread_v) or "write" (tcwrite_v)
          batch,    \* the caller's tc_iovec array: the path of each op
          kern,     \* the kern_arg array: Set or Uninit per entry
          copies,   \* indices whose path was strdup'ed and not yet freed
          results,  \* per-op status reported by the compound engine
          next,     \* first op of the next shard to execute
          fsal,     \* fsal_status.major returned by tc_read / tc_write
          res       \* the tc_res returned to the caller

vars == <<pc, kind, batch, kern, copies, results, next, fsal, res>>

Batches == UNION {[1 .. n -> Files \cup {NULL}] : n \in 1 .. MaxBatch}

MaxCount(k) == IF k = "read" THEN MAX_READ_COUNT ELSE MAX_WRITE_COUNT

Idle == [okay |-> FALSE, index |-> 0, err_no |-> ENOENT]

Init ==
    /\ pc = "idle"
    /\ kind = "read"
    /\ batch = <<>>
    /\ kern = <<>>
    /\ copies = {}
    /\ results = <<>>
    /\ next = 1
    /\ fsal = OK
    /\ res = Idle

-----------------------------------------------------------------------------
(* tcread_v / tcwrite_v entry: op_ctx->export is NULL, so the call       *)
(* returns the initial result { okay = false, index = 0, err_no = ENOENT }*)
CallNoExport ==
    /\ pc = "idle"
    /\ \E k \in {"read", "write"}, b \in Batches :
          /\ kind' = k /\ batch' = b
    /\ res' = Idle
    /\ pc' = "done"
    /\ UNCHANGED <<kern, copies, results, next, fsal>>

(* The export's FSAL has no tc_read / tc_write method: ENOTSUP.          *)
CallNotSupported ==
    /\ pc = "idle"
    /\ \E k \in {"read", "write"}, b \in Batches :
          /\ kind' = k /\ batch' = b
    /\ res' = [Idle EXCEPT !.err_no = ENOTSUP]
    /\ pc' = "done"
    /\ UNCHANGED <<kern, copies, results, next, fsal>>

(* The call proceeds to build kern_arg.                                   *)
Call ==
    /\ pc = "idle"
    /\ \E k \in {"read", "write"}, b \in Batches :
          /\ kind' = k /\ batch' = b
          /\ results' = [i \in 1 .. Len(b) |-> NotExecuted]
    /\ pc' = "marshal"
    /\ UNCHANGED <<kern, copies, next, fsal, res>>

\* The indices the marshalling and the freeing loops visit:
\* while (i < count && i < MAX_*_COUNT).
Filled(k, n) == 1 .. (IF n < MaxCount(k) THEN n ELSE MaxCount(k))

(* kern_arg = malloc(count entries); the loop fills the first MAX_*_COUNT *)
(* entries and strdup's each non-NULL path; the rest stay uninitialized.  *)
Marshal ==
    /\ pc = "marshal"
    /\ kern' = [i \in 1 .. Len(batch) |-> IF i \in Filled(kind, Len(batch))
                                          THEN Set ELSE Uninit]
    /\ copies' = {i \in Filled(kind, Len(batch)) : batch[i] # NULL}
    /\ next' = 1
    /\ pc' = "execute"
    /\ UNCHANGED <<kind, batch, results, fsal, res>>

-----------------------------------------------------------------------------
(* The FSAL's compound engine (spec.md 4.4), one shard per step.          *)

\* The ops of the shard starting at op s.
Shard(s, n) == s .. (IF s + MAX_OPS_PER_COMPOUND - 1 < n
                     THEN s + MAX_OPS_PER_COMPOUND - 1 ELSE n)

\* The statuses the server may report for op i: a current-file op first in
\* the batch has no file handle; an uninitialized entry is undefined
\* behaviour, so any status.
PossibleStatus(i) ==
    CASE kern[i] = Uninit          -> Statuses
      [] batch[i] = NULL /\ i = 1  -> {NoFileHandle}
      [] OTHER                     -> {OK} \cup Errors

\* First failing op of outcome o over the ops of S, or 0.
FirstFailure(o, S) ==
    IF \E i \in S : o[i] # OK THEN CHOOSE i \in S : o[i] # OK /\ \A j \in S : j < i => o[j] = OK
    ELSE 0

\* The server runs the shard's ops in order and stops at the first failing
\* one f; the later ops of the shard stay NOT_EXECUTED.
RecordShard(o, S, f) ==
    [i \in 1 .. Len(batch) |-> IF i \in S /\ (f = 0 \/ i <= f) THEN o[i] ELSE results[i]]

\* Mutant: a failing shard is sent again instead of ending the batch.
NextShardRetry(s, S, f) ==
    IF f = 0 THEN s + Cardinality(S) ELSE s

\* The first op of the next shard; a failing shard ends the batch, so the
\* later shards are skipped.
NextShard(s, S, f) ==
    IF f = 0 THEN s + Cardinality(S) ELSE Len(batch) + 1

(* One compound, built from the ops of the next shard, sent and answered. *)
ExecuteShard ==
    /\ pc = "execute"
    /\ LET S == Shard(next, Len(batch)) IN
       \E o \in [S -> Statuses] :
          /\ \A i \in S : o[i] \in PossibleStatus(i)
          /\ LET f == FirstFailure(o, S) IN
             /\ results' = RecordShard(o, S, f)
             /\ fsal' = IF f = 0 THEN OK ELSE o[f]
             /\ next' = NextShard(next, S, f)
    /\ pc' = IF next' > Len(batch) THEN "cleanup" ELSE "execute"
    /\ UNCHANGED <<kind, batch, kern, copies, res>>

-----------------------------------------------------------------------------
\* Mutant: the freeing loop stops one entry short.
FreedOneShort(k, n) == 1 .. (IF n < MaxCount(k) THEN n ELSE MaxCount(k)) - 1

\* The indices whose path copy the freeing loop releases.
Freed(k, n) == Filled(k, n)

\* Mutant: an error's position is reported as -1, "not known".
ResultIndexUnknown(st) ==
    IF st # OK THEN [okay |-> FALSE, index |-> 0 - 1, err_no |-> st]
    ELSE [okay |-> TRUE, index |-> 0, err_no |-> ENOENT]

\* Mutant: the error is returned with the initial err_no ENOENT, not with
\* fsal_status.major.
ResultErrnoInitial(st) ==
    IF st # OK THEN [okay |-> FALSE, index |-> 0, err_no |-> ENOENT]
    ELSE [okay |-> TRUE, index |-> 0, err_no |-> ENOENT]

\* The tc_res built from the FSAL's status.
ResultOf(st) ==
    IF st # OK THEN [okay |-> FALSE, index |-> 0, err_no |-> st]
    ELSE [okay |-> TRUE, index |-> 0, err_no |-> ENOENT]

(* After tc_read / tc_write: free the path copies and kern_arg; an error  *)
(* is returned with index 0 and err_no = fsal_status.major, else okay.    *)
Cleanup ==
    /\ pc = "cleanup"
    /\ copies' = copies \ Freed(kind, Len(batch))
    /\ kern' = <<>>
    /\ res' = ResultOf(fsal)
    /\ pc' = "done"
    /\ UNCHANGED <<kind, batch, results, next, fsal>>

(* The caller takes the result and may start another call.               *)
Return ==
    /\ pc = "done"
    /\ pc' = "idle"
    /\ UNCHANGED <<kind, batch, kern, copies, results, next, fsal, res>>

Next == \/ CallNoExport \/ CallNotSupported \/ Call \/ Marshal
        \/ ExecuteShard \/ Cleanup \/ Return

Spec == Init /\ [][Next]_vars

(* The calling thread keeps running and the server answers every         *)
(* compound it is sent (spec.md 4.4: a compound is one RPC with a reply). *)
FairSpec == Spec /\ WF_vars(Next)

-----------------------------------------------------------------------------
TypeOK ==
    /\ pc \in {"idle", "marshal", "execute", "cleanup", "done"}
    /\ kind \in {"read", "write"}
    /\ batch \in Batches \cup {<<>>}
    /\ \A i \in DOMAIN kern : kern[i] \in {Set, Uninit}
    /\ copies \subseteq 1 .. MaxBatch
    /\ \A i \in DOMAIN results : results[i] \in Statuses \cup {NotExecuted}
    /\ next \in 1 .. MaxBatch + MAX_OPS_PER_COMPOUND + 1
    /\ fsal \in Statuses
    /\ res \in [okay : BOOLEAN, index : Nat, err_no : Statuses \cup {ENOENT, ENOTSUP}]

(* Every path tcread_v / tcwrite_v strdup'ed into kern_arg is freed      *)
(* before the call returns.                                               *)
NoPathCopyLeak == pc = "done" => copies = {}

\* The steps inside one call, which its caller cannot observe.
InCall == {"marshal", "execute", "cleanup"}

\* The call as its caller sees it: the op statuses and the tc_res are
\* observable once the call has returned, and before it returns the batch
\* is still pending.
call == INSTANCE TcCall
          WITH cpc <- IF pc \in InCall THEN "busy" ELSE pc,
               ckind <- kind, cbatch <- batch,
               cresults <- IF pc \in InCall
                           THEN [i \in DOMAIN results |-> NotExecuted]
                           ELSE results,
               cres <- [okay |-> res.okay, err_no |-> res.err_no]

(* tcread_v / tcwrite_v implement the atomic call of TcCall: marshalling *)
(* kern_arg, one compound per shard, the freeing loops and the building   *)
(* of tc_res together take the effect of running the batch up to its      *)
(* first failing op, whichever shard it is in, and the reply carries that *)
(* op's status (tc_utils.c:80-87); and every call that gets past its      *)
(* entry checks returns, as a failing shard ends the batch.               *)
ImplementsTcCall == call!Spec

(* When tc_read / tc_write runs, every kern_arg entry it is given was    *)
(* filled in by the marshalling loop (tc_utils.c passes read_count).      *)
KernArgsInitialized ==
    pc = "execute" => \A i \in DOMAIN kern : kern[i] # Uninit

=============================================================================
