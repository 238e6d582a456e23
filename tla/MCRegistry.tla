------------------------------ MODULE MCRegistry ------------------------------
(* The main goroutine, one that serves and one that may register late.  In *)
(* the run with calls that follow each other main makes two.               *)
EXTENDS Registry, TLC

CONSTANTS handler, late, basic, ldap

MCProcs    == {Main, handler, late}
MCIds      == {basic, ldap}
OneCall    == [p \in MCProcs |-> 1]
MainTwice  == [OneCall EXCEPT ![Main] = 2]
=============================================================================
