-------------------------------- MODULE Common --------------------------------
(***************************************************************************)
(* What several modules of one instance share.                             *)
(***************************************************************************)
CONSTANT None   \* no value: nil, an empty string, a file that is not there
=============================================================================
