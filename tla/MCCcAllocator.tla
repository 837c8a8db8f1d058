-------------------------- MODULE MCCcAllocator --------------------------
(* A region of two levels, whose root has three elements, and one of a     *)
(* single level with two.  The first one is at an odd address.  And one    *)
(* region of wider areas, at an address that no alignment divides.         *)
EXTENDS CcAllocator, TLC

CONSTANTS s1, s2, s3

TwoRegionLevels == <<1, 0>>
TwoRegionCounts == <<3, 2>>
TwoRegionAddresses == <<1, 0>>
OneRegionLevel == <<1>>
OneRegionCount == <<8>>
OneRegionAddress == <<9>>
Symmetry == Permutations(Slots)
=============================================================================
