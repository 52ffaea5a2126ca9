------------------------------ MODULE MCArray ------------------------------
(***************************************************************************)
(* Two elements per page and up to five elements: a full page, a page that *)
(* is begun, and pages that are kept from a longer list.                   *)
(***************************************************************************)
EXTENDS Array
=============================================================================
