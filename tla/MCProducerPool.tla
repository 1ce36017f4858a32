--------------------------- MODULE MCProducerPool ---------------------------
(* ProducerPool for TLC, on a pool of PoolThreads threads, where the jobs   *)
(* run side by side and stack, and on one of three, where there is one      *)
(* chain and the second producer only starts when the first one ended.      *)
EXTENDS ProducerPool

VARIABLE threads
mcVars == <<vars, threads>>
Single == INSTANCE ProducerPool WITH PoolThreads <- 3

MCInit == Init /\ threads \in {3, PoolThreads}
MCNext ==
    \/ threads = PoolThreads /\ Next /\ UNCHANGED threads
    \/ threads = 3 /\ Single!Next /\ UNCHANGED threads
MCKick == threads' = threads /\ IF threads = 3 THEN Single!Kick ELSE Kick
MCRunOnFreeThread(p) ==
    threads' = threads /\ IF threads = 3 THEN Single!RunOnFreeThread(p) ELSE RunOnFreeThread(p)
MCSpec ==
    /\ MCInit /\ [][MCNext]_mcVars
    /\ WF_mcVars(MCKick)
    /\ \A p \in Producer :
         /\ WF_mcVars(MCRunOnFreeThread(p))
         /\ WF_mcVars(JobStep(p) /\ UNCHANGED threads)
         /\ WF_mcVars(HopStep(p) /\ UNCHANGED threads)
         /\ WF_mcVars(DrainStep(p) /\ UNCHANGED threads)
=============================================================================
