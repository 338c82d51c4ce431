------------------------- MODULE MCQueueDispatcher -------------------------
(***************************************************************************)
(* Instances of QueueDispatcher for TLC.                                   *)
(***************************************************************************)
EXTENDS QueueDispatcher

mcSizes == {15, 16}
mcFilters == SUBSET Flows
mcTwoFilters == {{f} : f \in Flows}
mcGarbage == {0, -5000}

rloss50 == [type |-> "rloss", rloss |-> 50]
bandDrop == [type |-> "band", rate |-> 1000, burst |-> 2, max_delay |-> 1]
band0 == [type |-> "band", rate |-> 0, burst |-> 2, max_delay |-> 0]
delay1 == [type |-> "delay", delay |-> 1]

mcConfigs == {rloss50, bandDrop}
mcOtherConfigs == {rloss50, band0, delay1}
mcDelayConfigs == {delay1}
=============================================================================
