-------------------------- MODULE MCStreamDelivery --------------------------
(* StreamDelivery for TLC.  SeqMax bounds the controls of one window and    *)
(* MaxFrames the frames of one turn; GrantedMax is out of reach.            *)
EXTENDS StreamDelivery, TLC

CONSTANTS turn, job1, job2, record

\* Two jobs number their frames in one domain, the turn and the journal of a
\* job each in one of its own.
MCDomainOf ==
    (turn :> "transport_event") @@ (job1 :> "job_runtime_event")
        @@ (job2 :> "job_runtime_event") @@ (record :> "job_journal_record")

JobSymmetry == Permutations({job1, job2})
=============================================================================
