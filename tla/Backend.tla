------------------------------- MODULE Backend -------------------------------
(***************************************************************************)
(* What the models of the request handlers share.  Express and PostgreSQL  *)
(* execute several requests at a time; a slot executes one.  Between two   *)
(* awaited calls of a request any other request may run.                   *)
(***************************************************************************)
CONSTANTS Slots,        \* requests that are executed at the same time
          SeasonNames,  \* guids of rows of seasons
          None          \* no value: a null column, a missing row

ASSUME BackendAssumption == None \notin Slots \cup SeasonNames
=============================================================================
