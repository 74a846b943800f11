------------------------------ MODULE MCVmBoot ------------------------------
(***************************************************************************)
(* Bringing up a machine of three vCPUs on hosts with and without limits,  *)
(* with a fault at every step.                                             *)
(***************************************************************************)
EXTENDS VmBoot

MCHostLimits == {<<0, 8>>, <<2, 8>>, <<2, 2>>, <<8, 8>>}
MCNoHardLimit == {<<0, 0>>, <<4, 0>>}
MCAllFaults == {"getKVMFD", "new", "kvmCreateVM", "tcgetattr", "initRAM"}
                 \cup {initmachine_func[k] : k \in DOMAIN initmachine_func}

=============================================================================
