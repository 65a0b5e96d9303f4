----------------------------- MODULE MCDomainLock -----------------------------
(* Model-checking instance of DomainLock: two runs, two domains.               *)
EXTENDS DomainLock
===============================================================================
