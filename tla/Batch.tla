-------------------------------- MODULE Batch --------------------------------
(***************************************************************************)
(* What a task that runs a list promises: one entry for each item, in the  *)
(* order of the list, a failed item keeping its place; then an answer with *)
(* all entries or with one of them.  It may give up before the first item  *)
(* is run, or panic, and then answers with none.                           *)
(***************************************************************************)
EXTENDS Naturals, Sequences

VARIABLES
  size,      (* the length of the list                             *)
  entries,   (* "done" or "failed" for each item that was run      *)
  outcome    (* "idle", "open", "all", "one", "none" or "panicked" *)

bvars == <<size, entries, outcome>>

BInit ==
  /\ size \in Nat
  /\ entries = <<>>
  /\ outcome = "idle"

(* A request: the task can serve any number of them, one after the other. *)
Serve ==
  /\ outcome # "open"
  /\ outcome' = "open"
  /\ entries' = <<>>
  /\ UNCHANGED size

GiveUp ==
  /\ outcome = "open" /\ entries = <<>>
  /\ outcome' = "none"
  /\ UNCHANGED <<size, entries>>

Collected ==
  /\ outcome = "open" /\ Len(entries) < size
  /\ \E e \in {"done", "failed"} : entries' = Append(entries, e)
  /\ UNCHANGED <<size, outcome>>

(* An entry that is not there cannot be the answer. *)
Close ==
  /\ outcome = "open" /\ Len(entries) = size
  /\ outcome' \in {"all"} \cup (IF size > 0 THEN {"one"} ELSE {})
  /\ UNCHANGED <<size, entries>>

Panic ==
  /\ outcome = "open"
  /\ outcome' = "panicked"
  /\ UNCHANGED <<size, entries>>

BNext == Serve \/ GiveUp \/ Collected \/ Close \/ Panic

BSpec == BInit /\ [][BNext]_bvars
=============================================================================
