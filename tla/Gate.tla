--------------------------------- MODULE Gate ---------------------------------
(***************************************************************************)
(* What an authorizer promises a handler, without saying how: each call    *)
(* allows or denies, and it allows only if what the request claims held at *)
(* one instant between the beginning and the end of the call.  Calls are   *)
(* concurrent, and what holds changes behind them.  An authorizer may deny *)
(* for any reason.                                                         *)
(***************************************************************************)
CONSTANTS
  Requests,   (* the requests                       *)
  Claims,     (* what a request may claim           *)
  NoClaim     (* nothing                            *)

VARIABLES
  authority,  (* the claims that hold now           *)
  claim,      (* what each request claims           *)
  stage       (* "out", "in", "granted", "allowed" or "denied" *)

gvars == <<authority, claim, stage>>

GInit ==
  /\ authority \in SUBSET Claims
  /\ claim = [q \in Requests |-> NoClaim]
  /\ stage = [q \in Requests |-> "out"]

Change ==
  /\ authority' \in SUBSET Claims
  /\ UNCHANGED <<claim, stage>>

Step(q, from, to) ==
  /\ stage[q] = from
  /\ stage' = [stage EXCEPT ![q] = to]
  /\ UNCHANGED authority

Enter(q) ==
  /\ Step(q, "out", "in")
  /\ \E c \in Claims \cup {NoClaim} : claim' = [claim EXCEPT ![q] = c]

(* The instant that decides. *)
Grant(q) == Step(q, "in", "granted") /\ claim[q] \in authority /\ UNCHANGED claim

Allow(q) == Step(q, "granted", "allowed") /\ UNCHANGED claim
Deny(q)  == (Step(q, "in", "denied") \/ Step(q, "granted", "denied")) /\ UNCHANGED claim

GNext == Change \/ \E q \in Requests : Enter(q) \/ Grant(q) \/ Allow(q) \/ Deny(q)

GSpec == GInit /\ [][GNext]_gvars
=============================================================================
