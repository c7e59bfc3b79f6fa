------------------------------- MODULE TcCall -------------------------------
(***************************************************************************)
(* What one call of tcread_v / tcwrite_v promises its caller, with the    *)
(* whole batch taking effect in one atomic step (spec.md 3-4: a vectorized *)
(* call runs its ops in order, stops at the first failing op and reports  *)
(* okay only if every op succeeded, else the error of the failing op).    *)
(* The call may also be refused at its entry, with ENOENT or ENOTSUP,     *)
(* before any op is sent.  TcUtils, with its marshalling, one compound    *)
(* per shard and its cleanup, is shown to implement this specification. *)
(* The index of the failing op is not part of the promise checked here.  *)
(***************************************************************************)
EXTENDS Naturals, Sequences

CONSTANTS Files, NULL, MaxBatch,
          Statuses,     \* statuses an op may end with
          OK, NotExecuted, ENOENT, ENOTSUP

VARIABLES cpc,       \* "idle", "busy" (inside the call) or "done"
          ckind,     \* "read" or "write"
          cbatch,    \* the batch the caller passed
          cresults,  \* the status of each op, as the caller can observe it
          cres       \* okay and err_no of the returned tc_res

cvars == <<cpc, ckind, cbatch, cresults, cres>>

Batches == UNION {[1 .. n -> Files \cup {NULL}] : n \in 1 .. MaxBatch}

Failed == Statuses \ {OK}

\* The outcomes a batch of n ops may end with: the ops before the first
\* failing one succeeded, the ops after it were never executed.
Outcomes(n) ==
    {r \in [1 .. n -> Statuses \cup {NotExecuted}] :
        \E f \in 1 .. n + 1 :
            /\ \A i \in 1 .. f - 1 : r[i] = OK
            /\ f <= n => r[f] \in Failed
            /\ \A i \in f + 1 .. n : r[i] = NotExecuted}

\* The reply for an outcome: okay, or the status of its one failing op.
Reply(r) ==
    IF \A i \in DOMAIN r : r[i] = OK
    THEN [okay |-> TRUE, err_no |-> ENOENT]
    ELSE [okay |-> FALSE, err_no |-> r[CHOOSE f \in DOMAIN r : r[f] \in Failed]]

Init ==
    /\ cpc = "idle"
    /\ ckind = "read"
    /\ cbatch = <<>>
    /\ cresults = <<>>
    /\ cres = [okay |-> FALSE, err_no |-> ENOENT]

\* The call is refused at its entry; no op runs.
Refuse ==
    /\ cpc = "idle"
    /\ \E k \in {"read", "write"}, b \in Batches : ckind' = k /\ cbatch' = b
    /\ cres' \in {[okay |-> FALSE, err_no |-> e] : e \in {ENOENT, ENOTSUP}}
    /\ cpc' = "done"
    /\ UNCHANGED cresults

\* The call is entered with a batch; none of its ops has run yet.
Begin ==
    /\ cpc = "idle"
    /\ \E k \in {"read", "write"}, b \in Batches :
          /\ ckind' = k /\ cbatch' = b
          /\ cresults' = [i \in 1 .. Len(b) |-> NotExecuted]
    /\ cpc' = "busy"
    /\ UNCHANGED cres

\* The whole batch runs and the call returns its reply, in one step.
Complete ==
    /\ cpc = "busy"
    /\ cresults' \in Outcomes(Len(cbatch))
    /\ cres' = Reply(cresults')
    /\ cpc' = "done"
    /\ UNCHANGED <<ckind, cbatch>>

\* The caller takes the reply.
Return ==
    /\ cpc = "done"
    /\ cpc' = "idle"
    /\ UNCHANGED <<ckind, cbatch, cresults, cres>>

Next == Refuse \/ Begin \/ Complete \/ Return

\* A call that is entered returns.
Spec == Init /\ [][Next]_cvars /\ WF_cvars(Complete)
=============================================================================
