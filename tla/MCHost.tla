------------------------------- MODULE MCHost -------------------------------
(***************************************************************************)
(* The safety of what keeps the platform installed and its data on disk:   *)
(* setup, the updater, releases, pull requests on their way to the branch  *)
(* that is released, and the databases.  The five share no state, so each  *)
(* behaviour is one part's, which the others watch.                        *)
(***************************************************************************)
EXTENDS HostUpdater, HostSetup, Releasing, Shipping, Storage

\* publish's order in setup/mod.rs.
MCPlacements == <<"data", "dsps", "management", "live", "config">>

\* A release that adds migrations and a kind of storage to the one before.
MCLists == << [core |-> 1, paycom |-> 1, cortex |-> 1, scorecard |-> 0],
              [core |-> 1, paycom |-> 2, cortex |-> 1, scorecard |-> 1] >>

MCLimits == [review |-> 3, unstarted |-> 1, answer |-> 1, limited |-> 2]

VARIABLE part
hostPartsVars == <<part, hostVars, setupVars, relVars, shippingVars, storageVars>>

PartsInit ==
    /\ part \in {"updater", "setup", "releases", "pull", "storage"}
    /\ HostInit /\ SetupInit /\ RelInit /\ ShippingInit /\ StorageInit
    /\ part # "updater" => env = CHOOSE e \in Environments : TRUE
    /\ part # "pull" => pr.draft /\ pr.labelled

PartsNext ==
    \/ /\ part = "updater" /\ HostNext
       /\ UNCHANGED <<part, setupVars, relVars, shippingVars, storageVars>>
    \/ /\ part = "setup" /\ SetupNext
       /\ UNCHANGED <<part, hostVars, relVars, shippingVars, storageVars>>
    \/ /\ part = "releases" /\ RelNext
       /\ UNCHANGED <<part, hostVars, setupVars, shippingVars, storageVars>>
    \/ /\ part = "pull" /\ ShippingNext
       /\ UNCHANGED <<part, hostVars, setupVars, relVars, storageVars>>
    \/ /\ part = "storage" /\ StorageNext
       /\ UNCHANGED <<part, hostVars, setupVars, relVars, shippingVars>>

PartsSpec == PartsInit /\ [][PartsNext]_hostPartsVars
=============================================================================
