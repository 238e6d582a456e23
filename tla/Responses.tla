------------------------------ MODULE Responses ------------------------------
(***************************************************************************)
(* A Response of response.go as a value: its status, its JSON data as a    *)
(* function on the keys that are set, and its raw body.  The text of a     *)
(* status is the status.                                                   *)
(***************************************************************************)
CONSTANTS
  Bytes,       (* raw bodies                                               *)
  JSONBytes,   (* those whose base64 text happens to be JSON, like "1234"  *)
  NoBytes      (* raw is nil, or nothing is sent                           *)

ASSUME BytesAssumption == JSONBytes \subseteq Bytes /\ NoBytes \notin Bytes

AddValue(r, key, value) ==
  [r EXCEPT !.data = [k \in DOMAIN @ \cup {key} |-> IF k = key THEN value ELSE @[k]]]

DelValue(r, key) == [r EXCEPT !.data = [k \in DOMAIN @ \ {key} |-> @[k]]]

(* A bug would leave the data as it was. *)
StatusLineOnly(r, status) == [r EXCEPT !.status = status]

Status(r, status) ==
  AddValue(AddValue([r EXCEPT !.status = status], "status", status), "message", status)

NewResponse(status) == Status([status |-> status, data |-> <<>>, raw |-> NoBytes], status)

Result(r, result) == AddValue(r, "result", result)
Error(r, err)     == AddValue(r, "error", err)
Raw(r, bytes)     == [r EXCEPT !.raw = bytes]

(* Both branches delete "status", none deletes "message". *)
StripStatusData(r) == DelValue(r, "status")

(* MarshalJSON writes the base64 text of a raw response without quotes,    *)
(* and encoding what it is nested in fails unless that is JSON.            *)
Nests(r) == r.raw \in JSONBytes \cup {NoBytes}

(* Write: the status line, then the raw body, or the JSON of the data with *)
(* the responses nested in it, or nothing.                                 *)
Sent(r, nested) ==
  [status |-> r.status,
   body   |-> IF r.raw # NoBytes THEN "raw"
              ELSE IF \A i \in DOMAIN nested : Nests(nested[i]) THEN "json" ELSE "nothing"]
=============================================================================
