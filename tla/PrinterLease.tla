---------------------------- MODULE PrinterLease ----------------------------
(***************************************************************************)
(* What the queue dispatch promises, without passes, workers, routes,      *)
(* callbacks or restarts: a job takes a free printer, its print command    *)
(* goes out once and only under that lease, and a job whose command went   *)
(* out takes no printer again. QueueDispatch implements this.              *)
(***************************************************************************)
CONSTANTS Jobs, Printers, NoPrinter, Submissions, NoSubmission

VARIABLES
    lease,      \* the printer a job holds
    sent        \* the submission sent for a job

vars == <<lease, sent>>

Init == /\ lease = [j \in Jobs |-> NoPrinter]
        /\ sent = [j \in Jobs |-> NoSubmission]

Take(j, p) ==
    /\ sent[j] = NoSubmission /\ lease[j] = NoPrinter
    /\ \A k \in Jobs : lease[k] # p
    /\ lease' = [lease EXCEPT ![j] = p]
    /\ UNCHANGED sent

\* A job that was stopped meanwhile is over as soon as its command is out.
Send(j, s) ==
    /\ sent[j] = NoSubmission /\ lease[j] # NoPrinter
    /\ sent' = [sent EXCEPT ![j] = s]
    /\ lease' \in {lease, [lease EXCEPT ![j] = NoPrinter]}

\* A print ended, an upload failed, or the server restarted.
Return(done) ==
    /\ lease' = [j \in Jobs |-> IF j \in done THEN NoPrinter ELSE lease[j]]
    /\ UNCHANGED sent

Next ==
    \/ \E j \in Jobs, p \in Printers : Take(j, p)
    \/ \E j \in Jobs, s \in Submissions \ {NoSubmission} : Send(j, s)
    \/ \E done \in SUBSET Jobs : Return(done)

Spec == Init /\ [][Next]_vars
=============================================================================
