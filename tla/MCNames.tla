------------------------------ MODULE MCNames ------------------------------
(***************************************************************************)
(* A file of four names, "main" among them, and a module with one of them  *)
(* and an alias of its own.                                                *)
(***************************************************************************)
EXTENDS Names

MCTypeIds == {"x", "f"}
MCVarIds == {"x", "f"}
MCFuncIds == {"f", "g", "main"}
MCModuleNames == {"x"}

=============================================================================
