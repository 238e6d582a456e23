----------------------------- MODULE QueryParams -----------------------------
(***************************************************************************)
(* query_params of config.go and GetQueryParams of server.go.  A parameter *)
(* has a name, a regular expression, given by the values it matches, and a *)
(* default; "" is no value.  Configured parameters are a sequence, or      *)
(* Unconfigured, at the level of the endpoint and at that of the method.   *)
(***************************************************************************)
EXTENDS Naturals, Sequences

CONSTANTS
  Names,         (* names of parameters                                    *)
  Values,        (* values, "" among them                                  *)
  TrimSpace,     (* strings.TrimSpace                                      *)
  Unconfigured   (* a level without query_params                           *)

ParamConfigs == [name : Names, regexp : SUBSET Values, default : Values]

ASSUME ValuesAssumption ==
  /\ "" \in Values
  /\ TrimSpace \in [Values -> Values] /\ TrimSpace[""] = ""
  /\ Unconfigured \notin Seq(ParamConfigs)

(* What one parameter makes of the value the client sent. *)
CleanUnmatched(param, sent) ==
  IF TrimSpace[sent] = "" THEN param.default ELSE TrimSpace[sent]

Clean(param, sent) ==
  IF TrimSpace[sent] # "" /\ TrimSpace[sent] \in param.regexp
  THEN TrimSpace[sent] ELSE param.default

(* GetParams: a later parameter of the same name overwrites an earlier one *)
(* if it has a value.                                                      *)
Sets(params, query, name) ==
  {i \in DOMAIN params : params[i].name = name /\ Clean(params[i], query[name]) # ""}

LastOf(indices) == CHOOSE i \in indices : \A j \in indices : j <= i

GetParams(params, query) ==
  [name \in {n \in Names : Sets(params, query, n) # {}} |->
     Clean(params[LastOf(Sets(params, query, name))], query[name])]

(* The level of the endpoint hides that of the method. *)
Level(endpoint, method) ==
  IF endpoint # Unconfigured THEN endpoint
  ELSE IF method # Unconfigured THEN method ELSE <<>>

GetQueryParams(endpoint, method, query) == GetParams(Level(endpoint, method), query)

(* A value a task may see under a name: one a parameter of that name       *)
(* configures as its default, or the client's, trimmed, if it matches.     *)
Permitted(params, query, name) ==
  {p.default : p \in {params[i] : i \in {j \in DOMAIN params : params[j].name = name}}} \cup
  {v \in {TrimSpace[query[name]]} :
     \E i \in DOMAIN params : params[i].name = name /\ v \in params[i].regexp}
=============================================================================
