---------------------------- MODULE MCInventory ----------------------------
(***************************************************************************)
(* Inventory for TLC: an AWS account whose database and function share a   *)
(* name, an Azure subscription with two databases on two servers, and    *)
(* the synthetic provider.                                                 *)
(***************************************************************************)
EXTENDS Inventory, TLC

CONSTANTS s1, s2, aws, azure, demo

MCProviderOf == aws :> "aws" @@ azure :> "azure" @@ demo :> "synthetic"
MCServerOf == <<1, 2>>
Nowhere == [i \in Slots |-> {}]
MCGiven == aws   :> [Nowhere EXCEPT ![2] = {2}, ![4] = {1, 2}]
        @@ azure :> [Nowhere EXCEPT ![2] = {1, 2}]
        @@ demo  :> Nowhere
MCChurn == {<<aws, 4, 1>>, <<azure, 2, 2>>}
MCConfigured == {s1 :> aws @@ s2 :> aws, s1 :> aws @@ s2 :> azure, s1 :> azure @@ s2 :> demo}
=============================================================================
