------------------------------ MODULE Submission ------------------------------
(***************************************************************************)
(* The submission of one assessment under an idempotency key, as the batch *)
(* scripts make it, and the life of the run that comes of it.  A request   *)
(* whose client has given up goes on in the server, so that the next one   *)
(* with the same key may run beside it.                                    *)
(***************************************************************************)
EXTENDS Naturals, FiniteSets

CONSTANTS
    Keys,         \* an idempotency key stands for a ticker and a date
    Posts,        \* requests the server handles at a time
    Snapshots,    \* is a transaction blind to what others commit meanwhile?
    None

VARIABLES
    run,        \* the status of the run of a key
    batches,    \* history: how many batches a key has got
    post        \* the requests

submissionVars == <<run, batches, post>>

Statuses == {"absent", "queued", "running", "succeeded", "failed", "cancelled",
             "needs_attention"}
FAILURE_STATUSES == {"failed", "cancelled", "needs_attention"}

SubmissionTypeOK ==
    /\ run \in [Keys -> Statuses]
    /\ batches \in [Keys -> Nat]
    /\ post \in [Posts -> [pc : {"free", "find", "create", "found", "error"}, key : Keys \cup {None}]]

SubmissionInit ==
    /\ run = [k \in Keys |-> "absent"]
    /\ batches = [k \in Keys |-> 0]
    /\ post = [p \in Posts |-> [pc |-> "free", key |-> None]]

At(p, pc) == post' = [post EXCEPT ![p].pc = pc]

\* find_batch, and then the items are resolved, which takes its time.
FindBatch(p) ==
    /\ post[p].pc = "find"
    /\ At(p, IF batches[post[p].key] > 0 THEN "found" ELSE "create")
    /\ UNCHANGED <<run, batches>>

InsertBatch(p) ==
    /\ batches' = [batches EXCEPT ![post[p].key] = @ + 1]
    /\ run' = [run EXCEPT ![post[p].key] = "queued"]
    /\ At(p, "found")

CreateRegardless(p) ==
    /\ post[p].pc = "create"
    /\ InsertBatch(p)

\* create_batch and the run, in one transaction.  The unique index refuses the
\* second batch of a key; the winner is then looked for, and a transaction that
\* reads from its snapshot does not see it.
Create(p) ==
    /\ post[p].pc = "create"
    /\ IF batches[post[p].key] = 0 THEN InsertBatch(p)
       ELSE /\ At(p, IF Snapshots THEN "error" ELSE "found")
            /\ UNCHANGED <<run, batches>>

\* Items cannot be resolved, or the database is away.
SubmitFails(p) ==
    /\ post[p].pc \in {"find", "create"}
    /\ At(p, "error")
    /\ UNCHANGED <<run, batches>>

Begins(p, k) ==
    /\ post[p].pc = "free"
    /\ post' = [post EXCEPT ![p] = [pc |-> "find", key |-> k]]

Over(p) == post[p].pc \in {"found", "error"}
Frees(p) == post' = [post EXCEPT ![p] = [pc |-> "free", key |-> None]]

\* What the scheduler, the workers and recovery do to a run: a parked one may
\* be resumed.
Allowed == {<<"queued", "running">>, <<"running", "succeeded">>, <<"queued", "cancelled">>}
           \cup {<<"running", s>> : s \in FAILURE_STATUSES} \cup {<<"needs_attention", "running">>}

RunMoves(k) ==
    /\ \E s \in Statuses : <<run[k], s>> \in Allowed /\ run' = [run EXCEPT ![k] = s]
    /\ UNCHANGED <<batches, post>>

Serve(p) == FindBatch(p) \/ Create(p)

SubmissionNext ==
    \/ \E p \in Posts : Serve(p) \/ SubmitFails(p)
    \/ \E k \in Keys : RunMoves(k)

\* A key never has two batches, whoever asks at the same time.
OneBatchPerKey == \A k \in Keys : batches[k] <= 1
=============================================================================
