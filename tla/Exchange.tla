------------------------------- MODULE Exchange -------------------------------
(***************************************************************************)
(* What the HTTP side of goexpose promises for each request, without       *)
(* saying how: a request is answered once; a request that matched a route  *)
(* either has its task run, once and after it was allowed, and is answered *)
(* with what the task made of it, or is refused without its task having    *)
(* run.  Several requests are in progress at a time.                       *)
(***************************************************************************)
EXTENDS Naturals

CONSTANTS
  Requests,   (* the requests                     *)
  Statuses,   (* HTTP statuses                    *)
  NoAnswer    (* the status of an open request    *)

VARIABLES
  stage,      (* "new", "open", "allowed", "done" or "closed" *)
  answer      (* the status each request was answered with    *)

xvars == <<stage, answer>>

XInit ==
  /\ stage = [q \in Requests |-> "new"]
  /\ answer = [q \in Requests |-> NoAnswer]

Move(q, from, to) ==
  /\ stage[q] = from
  /\ stage' = [stage EXCEPT ![q] = to]
  /\ UNCHANGED answer

Close(q, from, statuses) ==
  /\ stage[q] = from
  /\ stage' = [stage EXCEPT ![q] = "closed"]
  /\ \E s \in statuses : answer' = [answer EXCEPT ![q] = s]

(* No route. *)
Miss(q) == Close(q, "new", {404})

(* A route matched; then the request is allowed or refused. *)
Open(q)   == Move(q, "new", "open")
Allow(q)  == Move(q, "open", "allowed")
Refuse(q) == Close(q, "open", {401, 500})

(* The task ran, whatever came of it. *)
Execute(q) == Move(q, "allowed", "done")
Reply(q)   == Close(q, "done", Statuses)

XNext ==
  \E q \in Requests :
    Miss(q) \/ Open(q) \/ Allow(q) \/ Refuse(q) \/ Execute(q) \/ Reply(q)

XSpec == XInit /\ [][XNext]_xvars
=============================================================================
