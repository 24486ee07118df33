------------------------------ MODULE MCSgList ------------------------------
(***************************************************************************)
(* Instances of SgList for TLC.                                            *)
(***************************************************************************)
EXTENDS SgList

\* Two addresses on a page boundary and one that is not.
SomeAddresses == {0, 1, PageSize}

=============================================================================
