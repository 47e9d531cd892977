----------------------------- MODULE CloudGroups -----------------------------
(***************************************************************************)
(* The node groups of the cloud, as the provider interface of              *)
(* pkg/cloudprovider shows them and the AWS provider changes them.  Every  *)
(* call reads and writes the cloud's current record of one group; a call   *)
(* may also fail and change nothing.                                       *)
(***************************************************************************)
EXTENDS Integers

CONSTANTS
  Groups,    \* node group IDs
  MaxSize    \* MaxCount, the same for every group

ASSUME MaxSizeAssumption == MaxSize \in Nat \ {0}

VARIABLE cloud   \* [Groups -> GroupRecord]

Sizes == 0 .. MaxSize
GroupRecord == [min : Sizes, desired : Sizes]

CloudTypeOK == cloud \in [Groups -> GroupRecord]

CloudInit ==
  /\ CloudTypeOK
  /\ \A g \in Groups : cloud[g].min <= cloud[g].desired

\* The provider's own check of the bounds, made before each scaling.
WithinBounds(g, n) == cloud[g].min <= n /\ n <= MaxSize

ScaleNodeGroup(g, n) ==
  /\ WithinBounds(g, n)
  /\ cloud' = [cloud EXCEPT ![g].desired = n]

\* The minimum is passed on unchecked.
SetNodeGroupMinCount(g, n) == cloud' = [cloud EXCEPT ![g].min = n]

\* The cloud brings a group up to its minimum.
EnforceMin(g) ==
  /\ cloud[g].desired < cloud[g].min
  /\ cloud' = [cloud EXCEPT ![g].desired = cloud[g].min]

\* An autoscaler or an operator scales a group or moves its minimum.
OutsideChange(g) ==
  \E n \in Sizes :
    \/ n # cloud[g].desired /\ ScaleNodeGroup(g, n)
    \/ n # cloud[g].min /\ SetNodeGroupMinCount(g, n)

=============================================================================
