----------------------------- MODULE FrontendMC -----------------------------
(* Frontend on small instances, with the request ids given in the cfg. *)
EXTENDS Frontend
=============================================================================
