------------------------------- MODULE Handler -------------------------------
(***************************************************************************)
(* The function Server.Handle returns, run by one goroutine per request:   *)
(* authorize, read the body, collect the parameters, run the task,         *)
(* decorate and write its response; a deferred recover turns a panic into  *)
(* a 500.  Requests are served concurrently; what they share is the        *)
(* process environment.                                                    *)
(*                                                                         *)
(* Abstractions.  An authorizer answers "ok", "deny" or panics, and a task *)
(* returns any status with a result that is encodable, not encodable or    *)
(* raw bytes, or panics: both are outside this module.  Of the request     *)
(* body and the query parameters only the part the templates of a task can *)
(* see is kept.                                                            *)
(***************************************************************************)
EXTENDS Naturals, Sequences

CONSTANTS
  Requests,      (* the requests                                           *)
  Hung,          (* requests whose authorizer or task never returns        *)
  Names,         (* names of authorizers                                   *)
  Defined,       (* the names the configuration defines                    *)
  Keys,          (* keys of "methods"                                      *)
  Upper,         (* mux registers a key in upper case                      *)
  Endpoints,     (* the endpoints                                          *)
  EndpointConf,  (* the content of each EndpointConfig                     *)
  TaskStatuses,  (* the statuses tasks answer with                         *)
  MaxEnv,        (* bound on the changes of the environment                *)
  NoKey, NoEndpoint, NoAnswer

(* query_params: absent, or present with return_params off or on. *)
QueryParams == {"nil", "quiet", "returned"}

TaskConfigs == [authorizers : Seq(Names), query : QueryParams]

ASSUME HungAssumption     == Hung \subseteq Requests
ASSUME NamesAssumption    == Defined \subseteq Names
ASSUME UpperAssumption    == Upper \in [Keys -> Keys]
ASSUME EndpointAssumption ==
  \A e \in Endpoints :
    LET ec == EndpointConf[e]
    IN  /\ ec.authorizers \in Seq(Names) /\ ec.query \in QueryParams
        /\ DOMAIN ec.methods \subseteq Keys
        /\ \A k \in DOMAIN ec.methods : ec.methods[k] \in TaskConfigs
ASSUME StatusAssumption   ==
  TaskStatuses \subseteq Nat /\ NoAnswer \notin TaskStatuses \cup {200, 401, 404, 500}
ASSUME NoneAssumption     == NoKey \notin Keys /\ NoEndpoint \notin Endpoints
ASSUME EnvAssumption      == MaxEnv \in Nat

VARIABLES
  reloadEnv,   (* Config.ReloadEnv                                         *)
  osEnv,       (* the process environment, numbered by its changes         *)
  pc,          (* where each handler is                                    *)
  endpoint,    (* the endpoint of the route each request matched           *)
  key,         (* and the method the route was built for                   *)
  since,       (* history: the environment each request came upon          *)
  check,       (* authorizers Authorize still has to consult               *)
  consulted,   (* what those it consulted said, in order                   *)
  read,        (* what ReadAll returned of the body                        *)
  params,      (* the data given to the task                               *)
  runs,        (* how often the task was run for the request               *)
  reply,       (* the Response under construction                          *)
  wire         (* what was written to the client, in order                 *)

request == <<endpoint, key, since, check, consulted, read, params, runs, reply, wire>>
vars == <<reloadEnv, osEnv, pc, request>>

-----------------------------------------------------------------------------
Verdicts == {"ok", "deny", "panic"}
Results  == {"json", "unencodable", "raw"}
Bodies   == {"", "part", "whole"}

Statuses == TaskStatuses \cup {200, 401, 404, 500}

Data == [query : {"endpoint", "method", "nothing"}, body : Bodies, env : 0..MaxEnv]
NoData == [query |-> "nothing", body |-> "", env |-> 0]

Replies == [status : Statuses, result : Results, params : BOOLEAN]
NewResponseUnset(status) == [status |-> 0, result |-> "json", params |-> FALSE]
NewResponse(status) == [status |-> status, result |-> "json", params |-> FALSE]

Written ==
  [kind : {"header"}, status : Statuses] \cup
  [kind : {"body"}, status : Statuses, result : Results, params : BOOLEAN]

(* ec.Methods[r.Method], the zero TaskConfig when there is none.  r.Method *)
(* is the key in upper case: mux matched it.                               *)
ZeroTask == [authorizers |-> <<>>, query |-> "nil"]
MethodAt(e, verb) ==
  LET methods == EndpointConf[e].methods
  IN  IF verb \in DOMAIN methods THEN methods[verb] ELSE ZeroTask

Verb(q) == Upper[key[q]]
Method(q) == MethodAt(endpoint[q], Verb(q))

CheckEndpointOnly(e, verb) == EndpointConf[e].authorizers
CheckList(e, verb) ==
  EndpointConf[e].authorizers \o MethodAt(e, verb).authorizers

(* Endpoint parameters hide those of the method. *)
QueryLevel(q) ==
  IF EndpointConf[endpoint[q]].query # "nil" THEN "endpoint"
  ELSE IF Method(q).query # "nil" THEN "method" ELSE "nothing"

(* The environment Handle captured when the route was registered, or the   *)
(* current one.                                                            *)
EnvInverted == IF reloadEnv THEN 0 ELSE osEnv
Env         == IF reloadEnv THEN osEnv ELSE 0

(* The body is kept when reading it failed. *)
BodyVar(b, failed) == IF failed THEN b ELSE ""

-----------------------------------------------------------------------------
Init ==
  /\ reloadEnv \in BOOLEAN
  /\ osEnv = 0
  /\ pc = [q \in Requests |-> "idle"]
  /\ endpoint = [q \in Requests |-> NoEndpoint]
  /\ key = [q \in Requests |-> NoKey]
  /\ since = [q \in Requests |-> 0]
  /\ check = [q \in Requests |-> <<>>]
  /\ consulted = [q \in Requests |-> <<>>]
  /\ read = [q \in Requests |-> ""]
  /\ params = [q \in Requests |-> NoData]
  /\ runs = [q \in Requests |-> 0]
  /\ reply = [q \in Requests |-> NewResponse(200)]
  /\ wire = [q \in Requests |-> <<>>]

(* Moving on in Handle, and doing so as if a lock were held over task.Run. *)
AtLocked(q, from, to) ==
  /\ pc[q] = from
  /\ to = "running" => \A p \in Requests : pc[p] # "running"
  /\ pc' = [pc EXCEPT ![q] = to]
  /\ UNCHANGED <<reloadEnv, osEnv>>

At(q, from, to) ==
  /\ pc[q] = from
  /\ pc' = [pc EXCEPT ![q] = to]
  /\ UNCHANGED <<reloadEnv, osEnv>>

(* A response is ready to be written. *)
Respond(q, response) == reply' = [reply EXCEPT ![q] = response]

(* NotFoundHandler. *)
NotFound(q) ==
  /\ At(q, "idle", "writing")
  /\ Respond(q, NewResponse(404))
  /\ UNCHANGED <<endpoint, key, since, check, consulted, read, params, runs, wire>>

(* mux matched a route; Authorize lists the authorizers to consult. *)
Arrive(q, e, k) ==
  /\ At(q, "idle", "authorizing")
  /\ k \in DOMAIN EndpointConf[e].methods
  /\ endpoint' = [endpoint EXCEPT ![q] = e]
  /\ key' = [key EXCEPT ![q] = k]
  /\ since' = [since EXCEPT ![q] = osEnv]
  /\ check' = [check EXCEPT ![q] = CheckList(e, Upper[k])]
  /\ UNCHANGED <<consulted, read, params, runs, reply, wire>>

Consult(q, says) ==
  /\ check[q] # <<>> /\ Head(check[q]) \in Defined
  /\ check' = [check EXCEPT ![q] = Tail(@)]
  /\ consulted' = [consulted EXCEPT ![q] =
                     Append(@, [name |-> Head(check[q]), says |-> says])]

Accept(q) ==
  /\ At(q, "authorizing", "authorizing")
  /\ Consult(q, "ok")
  /\ UNCHANGED <<endpoint, key, since, read, params, runs, reply, wire>>

(* Authorize returns the first error, where a bug would go on. *)
DeniedGoesOn(q) == At(q, "authorizing", "authorizing")
Denied(q)       == At(q, "authorizing", "writing")

Deny(q) ==
  /\ Denied(q)
  /\ Consult(q, "deny")
  /\ Respond(q, NewResponse(401))
  /\ UNCHANGED <<endpoint, key, since, read, params, runs, wire>>

(* recover answers for an authorizer that panics, *)
ConsultPanics(q) ==
  /\ At(q, "authorizing", "writing")
  /\ Consult(q, "panic")
  /\ Respond(q, NewResponse(500))
  /\ UNCHANGED <<endpoint, key, since, read, params, runs, wire>>

(* and for one that is not defined: the map yields a nil Authorizer. *)
ConsultNil(q) ==
  /\ At(q, "authorizing", "writing")
  /\ check[q] # <<>> /\ Head(check[q]) \notin Defined
  /\ Respond(q, NewResponse(500))
  /\ UNCHANGED <<endpoint, key, since, check, consulted, read, params, runs, wire>>

ReadBody(q, b, failed) ==
  /\ At(q, "authorizing", "preparing")
  /\ check[q] = <<>>
  /\ b \in (IF failed THEN {"", "part"} ELSE {"", "whole"})
  /\ read' = [read EXCEPT ![q] = b]
  /\ params' = [params EXCEPT ![q] = [NoData EXCEPT !.body = BodyVar(b, failed)]]
  /\ UNCHANGED <<endpoint, key, since, check, consulted, runs, reply, wire>>

(* Query parameters and environment, *)
Prepare(q) ==
  /\ At(q, "preparing", "prepared")
  /\ params' = [params EXCEPT ![q].query = QueryLevel(q), ![q].env = Env]
  /\ UNCHANGED <<endpoint, key, since, check, consulted, read, runs, reply, wire>>

(* and task.Run is entered, whatever others did in between. *)
RunTask(q) ==
  /\ At(q, "prepared", "running")
  /\ runs' = [runs EXCEPT ![q] = @ + 1]
  /\ UNCHANGED <<endpoint, key, since, check, consulted, read, params, reply, wire>>

TaskReturns(q, status, result) ==
  /\ At(q, "running", "decorating")
  /\ Respond(q, [NewResponse(status) EXCEPT !.result = result])
  /\ UNCHANGED <<endpoint, key, since, check, consulted, read, params, runs, wire>>

(* recover answers for the task; it does not try again. *)
RetryTask(q) == At(q, "running", "preparing")
Recover(q)   == At(q, "running", "writing")

TaskPanics(q) ==
  /\ Recover(q)
  /\ Respond(q, NewResponse(500))
  /\ UNCHANGED <<endpoint, key, since, check, consulted, read, params, runs, wire>>

ReturnsParams(q) ==
  EndpointConf[endpoint[q]].query = "returned" \/ Method(q).query = "returned"

Decorate(q) ==
  /\ At(q, "decorating", "writing")
  /\ Respond(q, [reply[q] EXCEPT !.params = ReturnsParams(q)])
  /\ UNCHANGED <<endpoint, key, since, check, consulted, read, params, runs, wire>>

(* Response.Write sends the status line before it encodes the body. *)
WriteHeader(q) ==
  /\ At(q, "writing", "encoding")
  /\ wire' = [wire EXCEPT ![q] =
                Append(@, [kind |-> "header", status |-> reply[q].status])]
  /\ UNCHANGED <<endpoint, key, since, check, consulted, read, params, runs, reply>>

(* A raw body has no "params"; nothing is sent when encoding fails. *)
BodyOfOK(r) ==
  [kind |-> "body", status |-> 200, result |-> r.result,
   params |-> r.params /\ r.result # "raw"]
BodyOf(r) ==
  [kind |-> "body", status |-> r.status, result |-> r.result,
   params |-> r.params /\ r.result # "raw"]

WriteBody(q) ==
  /\ At(q, "encoding", "answered")
  /\ wire' = IF reply[q].result = "unencodable" THEN wire
             ELSE [wire EXCEPT ![q] = Append(@, BodyOf(reply[q]))]
  /\ UNCHANGED <<endpoint, key, since, check, consulted, read, params, runs, reply>>

(* Something in the process, a task of an embedding program, sets it. *)
EnvChanges ==
  /\ osEnv < MaxEnv
  /\ osEnv' = osEnv + 1
  /\ UNCHANGED <<reloadEnv, pc, request>>

(* Steps that wait for an authorizer or a task to come back. *)
Backend(q) ==
  \/ Accept(q) \/ Deny(q) \/ ConsultPanics(q)
  \/ TaskPanics(q)
  \/ \E s \in TaskStatuses, r \in Results : TaskReturns(q, s, r)

Local(q) ==
  \/ ConsultNil(q)
  \/ \E failed \in BOOLEAN, b \in Bodies : ReadBody(q, b, failed)
  \/ Prepare(q)
  \/ RunTask(q)
  \/ Decorate(q)
  \/ WriteHeader(q)
  \/ WriteBody(q)

Requested(q) ==
  \/ NotFound(q)
  \/ \E e \in Endpoints, k \in Keys : Arrive(q, e, k)

Next ==
  \/ EnvChanges
  \/ \E q \in Requests : Requested(q) \/ Local(q) \/ Backend(q)

(* Each handler has its own goroutine, which the Go scheduler runs.  There *)
(* is no timeout on the way: a request is answered if its authorizers and  *)
(* its task return.                                                        *)
Spec ==
  /\ Init /\ [][Next]_vars
  /\ \A q \in Requests : WF_vars(Local(q))
  /\ \A q \in Requests \ Hung : WF_vars(Backend(q))

-----------------------------------------------------------------------------
(* PROPERTIES *)

PCs == {"idle", "authorizing", "preparing", "prepared", "running",
        "decorating", "writing", "encoding", "answered"}

(* Types of what a handler keeps for its request. *)
TypeOK ==
  /\ reloadEnv \in BOOLEAN
  /\ osEnv \in 0..MaxEnv
  /\ pc \in [Requests -> PCs]
  /\ endpoint \in [Requests -> Endpoints \cup {NoEndpoint}]
  /\ key \in [Requests -> Keys \cup {NoKey}]
  /\ since \in [Requests -> 0..MaxEnv]
  /\ check \in [Requests -> Seq(Names)]
  /\ consulted \in [Requests -> Seq([name : Names, says : Verdicts])]
  /\ read \in [Requests -> Bodies]
  /\ params \in [Requests -> Data]
  /\ runs \in [Requests -> Nat]
  /\ reply \in [Requests -> Replies]
  /\ wire \in [Requests -> Seq(Written)]

Elements(s) == {s[i] : i \in DOMAIN s}

(* A key that is its own upper case: mux matches the method the handler    *)
(* looks up.                                                               *)
Canonical(q) == Upper[key[q]] = key[q]

(* The authorizers the configuration names for the task of a route. *)
Required(q) ==
  LET ec == EndpointConf[endpoint[q]]
  IN  Elements(ec.authorizers) \cup Elements(ec.methods[key[q]].authorizers)

(* A task is only run once everything its endpoint and its method name was *)
(* consulted for this very request and said ok; a name the configuration   *)
(* does not define keeps the task from running.                            *)
AuthorizedBeforeRun ==
  \A q \in Requests : runs[q] > 0 /\ Canonical(q) =>
    \A n \in Required(q) :
      n \in Defined /\ [name |-> n, says |-> "ok"] \in Elements(consulted[q])

(* The first authorizer that does not say ok is the last one consulted, it *)
(* decides the answer, and the task is not run.                            *)
FirstRefusalDecides ==
  \A q \in Requests : \A i \in DOMAIN consulted[q] :
    consulted[q][i].says # "ok" =>
      /\ i = Len(consulted[q])
      /\ runs[q] = 0
      /\ reply[q].status = IF consulted[q][i].says = "deny" THEN 401 ELSE 500

(* A client that was answered got one status line, then at most one body,  *)
(* and the status in the body is the one in the status line, also when a   *)
(* panic replaced the response.                                            *)
OneAnswer ==
  \A q \in Requests : pc[q] = "answered" =>
    /\ Len(wire[q]) \in {1, 2}
    /\ wire[q][1].kind = "header"
    /\ Len(wire[q]) = 2 =>
         wire[q][2].kind = "body" /\ wire[q][2].status = wire[q][1].status

(* The task runs at most once, and a task that ran is why the answer is    *)
(* not 404 or 401 unless the task chose so.                                *)
RunExplainsAnswer ==
  \A q \in Requests :
    /\ runs[q] <= 1
    /\ wire[q] # <<>> /\ runs[q] = 0 => wire[q][1].status \in {401, 404, 500}
    /\ wire[q] # <<>> /\ runs[q] = 0 /\ wire[q][1].status = 404
         => endpoint[q] = NoEndpoint

(* Without reload_env all tasks are given one environment, however the     *)
(* process's own changes; with it a task is never given one older than its *)
(* request came upon, so no older one either than any task that was run    *)
(* before that request came.                                               *)
EnvFresh ==
  \A q \in Requests : runs[q] > 0 =>
    IF reloadEnv THEN params[q].env >= since[q]
    ELSE \A p \in Requests : runs[p] > 0 => params[p].env = params[q].env

(* A request whose authorizers and task come back is answered, however     *)
(* many others wait for ever.                                              *)
EveryRequestAnswered ==
  \A q \in Requests \ Hung : (pc[q] # "idle") ~> (pc[q] = "answered")

(* The abstract view: a request is closed when its status line is sent. *)
Stage(q) ==
  IF pc[q] \in {"encoding", "answered"} THEN "closed"
  ELSE IF runs[q] > 0 THEN (IF pc[q] = "running" THEN "allowed" ELSE "done")
  ELSE IF endpoint[q] = NoEndpoint THEN "new" ELSE "open"

Abstract == INSTANCE Exchange WITH
  stage  <- [q \in Requests |-> Stage(q)],
  answer <- [q \in Requests |-> IF wire[q] = <<>> THEN NoAnswer ELSE wire[q][1].status]

(* The handler implements the exchange it promises. *)
Refinement == Abstract!XSpec

-----------------------------------------------------------------------------
(* What the documentation says of a request, each refuted by a run. *)

(* README: the template variable body is the "body passed to request". *)
TemplatesSeeBody ==
  \A q \in Requests : runs[q] > 0 => params[q].body = read[q]
=============================================================================
