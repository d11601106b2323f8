--------------------------------- MODULE Desk ---------------------------------
(***************************************************************************)
(* The desk's two record books in one server: every call is a transaction  *)
(* of its own, the calls come in any order, and no call writes both books. *)
(***************************************************************************)
EXTENDS GuestDocuments, OperationRequests

DeskVars == <<documentVars, requests>>

DeskInit == DocumentsInit /\ RequestsInit

DeskNext ==
  \/ DocumentsNext /\ UNCHANGED requests
  \/ RequestsNext /\ UNCHANGED documentVars

DeskSpec == DeskInit /\ [][DeskNext]_DeskVars
=============================================================================
