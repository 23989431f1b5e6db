-------------------------- MODULE MCStoreVisibility ---------------------------
(* Instances of StoreVisibility for TLC.                                   *)
EXTENDS StoreVisibility

\* Every size, at the addresses where the elements and the bytes agree.
Overlapping == {<<0, 1>>, <<1, 1>>, <<0, 2>>, <<0, 4>>}

\* The run is about accesses that agree.
ASSUME OverlappingAgree == ElementsAgree

CpuSymmetry == Permutations(Cpus)
===============================================================================
