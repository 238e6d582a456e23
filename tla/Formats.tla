------------------------------- MODULE Formats -------------------------------
(***************************************************************************)
(* The formats of http and shell tasks (formats.go).  A configured format  *)
(* is the sequence of the parts that strings.Split makes of it: "" is one  *)
(* blank part.  A body is the set of the registered formats that accept    *)
(* it, so what a FormatFunc returns is kept apart from how one is chosen.  *)
(***************************************************************************)
EXTENDS Naturals, Sequences

CONSTANT FormatIds   (* the ids registered by init and by RegisterFormat *)

(* RegisterFormat admits an id once, and init has registered "text" and    *)
(* "lines".                                                                *)
ASSUME FormatsAssumption == {"text", "lines", "json"} \subseteq FormatIds

(* FormatLines and FormatText accept whatever they are given. *)
Bodies == {b \in SUBSET FormatIds : {"text", "lines"} \subseteq b}

Part(f, id) == \E i \in DOMAIN f : f[i] = id

NonBlank(part) == part # ""

(* VerifyFormat: blank parts go, unknown ones are an error, "text" is      *)
(* added at the end; forgetting it leaves formats that can fail.           *)
Verifies(f) == \A i \in DOMAIN f : f[i] = "" \/ f[i] \in FormatIds

(* The loop: ff[n] is what it has kept of the first n parts. *)
Kept(f) ==
  LET ff[n \in 0..Len(f)] ==
        IF n = 0 THEN <<>>
        ELSE IF NonBlank(f[n]) THEN Append(ff[n - 1], f[n]) ELSE ff[n - 1]
  IN  ff[Len(f)]

VerifyFormatAsIs(f) == Kept(f)
VerifyFormat(f) == IF Part(f, "text") THEN Kept(f) ELSE Append(Kept(f), "text")

(* Format stops at the first part that is unknown or accepts the body, and *)
(* fails with the error of the last part otherwise.                        *)
Stops(f, b) == {i \in DOMAIN f : f[i] \notin FormatIds \/ f[i] \in b}

FirstStop(f, b) == CHOOSE i \in Stops(f, b) : \A j \in Stops(f, b) : i <= j

FormatFails(f, b) == Stops(f, b) = {} \/ f[FirstStop(f, b)] \notin FormatIds

Format(f, b) == f[FirstStop(f, b)]
=============================================================================
