------------------------------- MODULE Startup -------------------------------
(***************************************************************************)
(* How a goexpose server comes up: Server.Run calls router, router calls   *)
(* routes, and routes builds the tasks of every endpoint through the       *)
(* registered factories.  Two factories call back: InfoTaskFactory calls   *)
(* Server.routes again (to describe the other routes) and                  *)
(* MultiTaskFactory runs the factories of its embedded tasks.  The module  *)
(* keeps the activations of Server.routes on an explicit stack.            *)
(*                                                                         *)
(* Abstractions.  The JSON text of a task is a record of TaskConf: whether *)
(* its factory accepts its "config" is the Boolean accepted.  The plain    *)
(* types (shell, http, postgres, redis, cassandra, mysql, filesystem) read *)
(* nothing but their own config while they are built, so "plain" stands    *)
(* for each of them.  Surrounding white space of a type string is the      *)
(* Boolean padded.                                                         *)
(***************************************************************************)
EXTENDS Naturals, Sequences

CONSTANTS
  Names,      (* names of authorizers                                      *)
  Keys,       (* keys of an endpoint's "methods"                           *)
  NoKey,      (* no method is being built                                  *)
  TaskIds,    (* the task configurations, embedded ones included           *)
  TaskConf,   (* the content of each task configuration                    *)
  PlainTasks, (* tasks that hide no info task, see PlainAssumption         *)
  Configs,    (* the configuration files considered                        *)
  StackLimit  (* activations of routes the Go stack has room for           *)

TypeNames  == {"", "plain", "info", "multi", "unknown"}
QueryKinds == {"none", "valid", "invalid"}
AuthorizerKinds == {"good", "unregistered", "rejected"}

TaskConfigs ==
  [type : TypeNames, padded : BOOLEAN, accepted : BOOLEAN,
   query : QueryKinds, authorizers : SUBSET Names, tasks : Seq(TaskIds)]

Endpoints ==
  [type : TypeNames, query : QueryKinds, authorizers : SUBSET Names,
   methods : UNION {[K -> TaskIds] : K \in SUBSET Keys}]

ConfigFiles ==
  [authorizers : UNION {[N -> AuthorizerKinds] : N \in SUBSET Names},
   endpoints : Seq(Endpoints)]

ASSUME TaskConfAssumption == TaskConf \in [TaskIds -> TaskConfigs]
ASSUME ConfigAssumption   == Configs \subseteq ConfigFiles
(* JSON nests: tasks are numbered so that embedded ones come first, and a  *)
(* multi task without tasks fails its own validation.                      *)
ASSUME NestingAssumption  ==
  /\ TaskIds \subseteq Nat
  /\ \A t \in TaskIds :
       /\ \A i \in DOMAIN TaskConf[t].tasks : TaskConf[t].tasks[i] < t
       /\ TaskConf[t].type = "multi" /\ TaskConf[t].accepted
            => TaskConf[t].tasks # <<>>
(* Tasks in which the literal test of routes finds every info task: none   *)
(* is padded, and no multi task embeds one, however deep.                  *)
ASSUME PlainAssumption ==
  /\ PlainTasks \subseteq TaskIds
  /\ \A t \in PlainTasks :
       /\ TaskConf[t].type = "info" => ~TaskConf[t].padded
       /\ \A i \in DOMAIN TaskConf[t].tasks :
            /\ TaskConf[t].tasks[i] \in PlainTasks
            /\ TaskConf[TaskConf[t].tasks[i]].type # "info"
ASSUME KeyAssumption      == NoKey \notin Keys
ASSUME StackAssumption    == StackLimit \in Nat /\ StackLimit > 2

VARIABLES
  config,    (* the file read by NewConfigFromFilename, never changed        *)
  phase,     (* "init", "building", "routed", "refused" or "overflow"        *)
  stack,     (* activations of Server.routes, the running one last           *)
  routes,    (* the route table the router is given                          *)
  listings   (* the routes kept by each InfoTask that was built              *)

vars == <<config, phase, stack, routes, listings>>

-----------------------------------------------------------------------------
(* A route remembers the method it was built for and the pointer to the    *)
(* loop variable taskconf.  The variable is one per range loop, so the     *)
(* pointer is represented by the method the variable holds now.            *)
Routes == [ep : Nat, method : Keys, taskconf : Keys]

Items == [task : TaskIds, embedded : BOOLEAN]

Frames ==
  [ignoring : BOOLEAN,             (* called with "info" to be ignored       *)
   ep       : Nat,                 (* endpoint of the outer loop, 0 before it *)
   todo     : SUBSET Keys,         (* methods the map range still has        *)
   cur      : Keys \cup {NoKey},   (* method whose factory is running        *)
   work     : Seq(Items),          (* tasks that factory still has to build  *)
   out      : Seq(Routes)]         (* result of this activation so far       *)

NewFrame(ignoring) ==
  [ignoring |-> ignoring, ep |-> 0, todo |-> {}, cur |-> NoKey,
   work |-> <<>>, out |-> <<>>]

Top == stack[Len(stack)]
WithTop(f) == [stack EXCEPT ![Len(stack)] = f]

(* t.Type as it is written, compared with a literal before any TrimSpace. *)
WrittenAs(t, name) == TaskConf[t].type = name /\ ~TaskConf[t].padded

(* GetAuthorizers: every defined authorizer validates and its factory      *)
(* succeeds, and every name a task uses is defined.                        *)
AuthorizersResolve(c) ==
  /\ \A an \in DOMAIN c.authorizers : c.authorizers[an] = "good"
  /\ \A i \in DOMAIN c.endpoints :
       LET methods == c.endpoints[i].methods
       IN  \A k \in DOMAIN methods :
             TaskConf[methods[k]].authorizers \subseteq DOMAIN c.authorizers

(* EndpointConfig.Validate: the type it sets is set on a copy of the map's *)
(* value, so the methods keep the type they had.                           *)
EndpointValid(ec) == ec.query # "invalid"
TypeAfterValidate(ec, t) == TaskConf[t].type

(* TaskConfig.Validate and getTaskFactory: a type is required, its query   *)
(* parameters compile and its factory is registered.                       *)
TaskValid(type, t) == type # "" /\ TaskConf[t].query # "invalid"
Registered(type) == type \in {"plain", "info", "multi"}

(* What is checked before a factory is called: MultiTaskFactory compares   *)
(* the type with "multi" before it is trimmed, then both callers validate  *)
(* the task and look its factory up.                                       *)
Callable(item, type) ==
  /\ ~(item.embedded /\ WrittenAs(item.task, "multi"))
  /\ TaskValid(type, item.task)
  /\ Registered(type)

Embedded(t) ==
  [i \in DOMAIN TaskConf[t].tasks |->
     [task |-> TaskConf[t].tasks[i], embedded |-> TRUE]]

(* Assigning the next method to taskconf changes what the routes of the    *)
(* same loop point at.                                                     *)
Rebind(out, ep, k) ==
  [i \in DOMAIN out |->
     IF out[i].ep = ep THEN [out[i] EXCEPT !.taskconf = k] ELSE out[i]]

-----------------------------------------------------------------------------
Init ==
  /\ config \in Configs
  /\ phase = "init"
  /\ stack = <<>>
  /\ routes = <<>>
  /\ listings = {}

(* An error is returned through every caller up to main, which exits. *)
Refuse ==
  /\ phase' = "refused"
  /\ stack' = <<>>
  /\ UNCHANGED <<config, routes, listings>>

(* Run calls router, which calls routes(). *)
Run ==
  /\ phase = "init"
  /\ IF AuthorizersResolve(config)
     THEN /\ phase' = "building"
          /\ stack' = <<NewFrame(FALSE)>>
          /\ UNCHANGED <<config, routes, listings>>
     ELSE Refuse

Building == phase = "building"

(* The outer loop of routes. *)
NextEndpoint ==
  /\ Building
  /\ Top.cur = NoKey /\ Top.todo = {}
  /\ Top.ep < Len(config.endpoints)
  /\ LET ec == config.endpoints[Top.ep + 1]
     IN  IF EndpointValid(ec)
         THEN /\ stack' = WithTop([Top EXCEPT !.ep = @ + 1,
                                              !.todo = DOMAIN ec.methods])
              /\ UNCHANGED <<config, phase, routes, listings>>
         ELSE Refuse

CurrentTask(k) == config.endpoints[Top.ep].methods[k]

(* The test of the ignored types in the inner loop, and two ways to get it *)
(* wrong: not looking at the argument, and never skipping.                 *)
SkipsAlways(t) == WrittenAs(t, "info")
SkipsNever(t)  == FALSE /\ WrittenAs(t, "info")
Skips(t)       == Top.ignoring /\ WrittenAs(t, "info")

(* The inner loop picks any method that is left.  An ignored task leaves   *)
(* the loop over the whole endpoint ("continue Outer").                    *)
PickMethod(k) ==
  /\ Building
  /\ Top.cur = NoKey /\ k \in Top.todo
  /\ LET t == CurrentTask(k)
         assigned == [Top EXCEPT !.out = Rebind(@, Top.ep, k)]
     IN  stack' = WithTop(
           IF Skips(t)
           THEN [assigned EXCEPT !.todo = {}]
           ELSE [assigned EXCEPT !.todo = @ \ {k}, !.cur = k,
                                 !.work = <<[task |-> t, embedded |-> FALSE]>>])
  /\ UNCHANGED <<config, phase, routes, listings>>

HasWork == Building /\ Top.work # <<>>
Item == Head(Top.work)
ItemType ==
  IF Item.embedded THEN TaskConf[Item.task].type
                   ELSE TypeAfterValidate(config.endpoints[Top.ep], Item.task)

Reject ==
  /\ HasWork
  /\ \/ ~Callable(Item, ItemType)
     \/ ItemType \in {"plain", "multi"} /\ ~TaskConf[Item.task].accepted
  /\ Refuse

BuildPlain ==
  /\ HasWork /\ Callable(Item, ItemType)
  /\ ItemType = "plain" /\ TaskConf[Item.task].accepted
  /\ stack' = WithTop([Top EXCEPT !.work = Tail(@)])
  /\ UNCHANGED <<config, phase, routes, listings>>

BuildMulti ==
  /\ HasWork /\ Callable(Item, ItemType)
  /\ ItemType = "multi" /\ TaskConf[Item.task].accepted
  /\ stack' = WithTop([Top EXCEPT !.work = Embedded(Item.task) \o Tail(@)])
  /\ UNCHANGED <<config, phase, routes, listings>>

(* InfoTaskFactory calls server.routes("info"). *)
CallRoutes ==
  /\ HasWork /\ Callable(Item, ItemType)
  /\ ItemType = "info"
  /\ Len(stack) < StackLimit
  /\ IF AuthorizersResolve(config)
     THEN /\ stack' = Append(stack, NewFrame(TRUE))
          /\ UNCHANGED <<config, phase, routes, listings>>
     ELSE Refuse

Overflow ==
  /\ HasWork /\ Callable(Item, ItemType)
  /\ ItemType = "info"
  /\ Len(stack) = StackLimit
  /\ phase' = "overflow"
  /\ stack' = <<>>
  /\ UNCHANGED <<config, routes, listings>>

(* The factory returned one task: its route is appended. *)
BuiltUnguarded == Building /\ Top.work = <<>>
Built          == Building /\ Top.cur # NoKey /\ Top.work = <<>>

AppendRoute ==
  /\ Built
  /\ stack' = WithTop(
       [Top EXCEPT !.cur = NoKey,
                   !.out = Append(@, [ep |-> Top.ep, method |-> Top.cur,
                                      taskconf |-> Top.cur])])
  /\ UNCHANGED <<config, phase, routes, listings>>

(* Both loops are done; an off-by-one would forget the last endpoint. *)
FinishedEarly ==
  /\ Building
  /\ Top.cur = NoKey /\ Top.todo = {}
  /\ Top.ep + 1 >= Len(config.endpoints)

Finished ==
  /\ Building
  /\ Top.cur = NoKey /\ Top.todo = {}
  /\ Top.ep = Len(config.endpoints)

(* The outermost activation hands its routes to the router. *)
ReturnToRouter ==
  /\ Finished /\ Len(stack) = 1
  /\ phase' = "routed"
  /\ routes' = Top.out
  /\ stack' = <<>>
  /\ UNCHANGED <<config, listings>>

(* A nested activation returns to InfoTaskFactory, which keeps the list in *)
(* the InfoTask and returns to the activation below.                       *)
ResumedUnchanged(f) == f
Resumed(f)          == [f EXCEPT !.work = Tail(@)]

ReturnToInfo ==
  /\ Finished /\ Len(stack) > 1
  /\ listings' = listings \cup {Top.out}
  /\ stack' = [i \in 1..(Len(stack) - 1) |->
                 IF i = Len(stack) - 1
                 THEN Resumed(stack[i])
                 ELSE stack[i]]
  /\ UNCHANGED <<config, phase, routes>>

Next ==
  \/ Run
  \/ NextEndpoint
  \/ \E k \in Keys : PickMethod(k)
  \/ Reject
  \/ BuildPlain
  \/ BuildMulti
  \/ CallRoutes
  \/ Overflow
  \/ AppendRoute
  \/ ReturnToRouter
  \/ ReturnToInfo

(* One goroutine runs all of this and nothing in it blocks. *)
Spec == Init /\ [][Next]_vars /\ WF_vars(Next)

-----------------------------------------------------------------------------
(* PROPERTIES *)

(* Types of the variables of Server.routes and of the table it fills. *)
TypeOK ==
  /\ config \in ConfigFiles
  /\ phase \in {"init", "building", "routed", "refused", "overflow"}
  /\ stack \in Seq(Frames)
  /\ routes \in Seq(Routes)
  /\ \A l \in listings : l \in Seq(Routes)

MethodsOf(i) == config.endpoints[i].methods
EndpointIds == DOMAIN config.endpoints

(* What a task comes to, read off the configuration with no stack and no   *)
(* order: it is built, or it is refused.  An embedded one may not be a     *)
(* multi task that is written so.                                          *)
Builds[t \in TaskIds] ==
  LET c == TaskConf[t]
  IN  /\ c.type \in {"plain", "info", "multi"}
      /\ c.query # "invalid"
      /\ c.type # "info" => c.accepted
      /\ c.type = "multi" =>
           \A i \in DOMAIN c.tasks :
             /\ ~WrittenAs(c.tasks[i], "multi")
             /\ Builds[c.tasks[i]]

Acceptable ==
  /\ AuthorizersResolve(config)
  /\ \A i \in EndpointIds :
       /\ config.endpoints[i].query # "invalid"
       /\ \A k \in DOMAIN MethodsOf(i) : Builds[MethodsOf(i)[k]]

(* Whether a server starts depends on its configuration file alone: no     *)
(* order in which the maps are ranged over, and no method that a nested    *)
(* call of routes leaves out, changes what Run answers.                    *)
OutcomeDetermined ==
  /\ phase = "routed"  => Acceptable
  /\ phase = "refused" => ~Acceptable

RoutesFor(table, i, k) ==
  {j \in DOMAIN table : table[j].ep = i /\ table[j].method = k}

(* The table router registers has exactly one route for every method of    *)
(* every endpoint, and endpoints keep the order of the file, in which mux  *)
(* tries them.                                                             *)
TableComplete ==
  phase = "routed" =>
    /\ \A i \in EndpointIds : \A k \in DOMAIN MethodsOf(i) :
         \E j \in DOMAIN routes : RoutesFor(routes, i, k) = {j}
    /\ \A j \in DOMAIN routes :
         routes[j].ep \in EndpointIds /\ routes[j].method \in DOMAIN MethodsOf(routes[j].ep)
    /\ \A j1, j2 \in DOMAIN routes : j1 < j2 => routes[j1].ep <= routes[j2].ep

PlainConfig ==
  \A i \in EndpointIds : \A k \in DOMAIN MethodsOf(i) : MethodsOf(i)[k] \in PlainTasks

(* InfoTaskFactory calls routes and routes calls the factories: passing    *)
(* "info" keeps the second call from reaching a third, for these tasks.    *)
BoundedActivations ==
  PlainConfig => Len(stack) <= 2 /\ phase # "overflow"

HasInfo(i) == \E k \in DOMAIN MethodsOf(i) : WrittenAs(MethodsOf(i)[k], "info")

(* An InfoTask never lists an info task, and it lists every method of an   *)
(* endpoint that has none exactly once, wherever in the file the info task *)
(* that asked stands.                                                      *)
ListingsComplete ==
  \A l \in listings :
    /\ \A j \in DOMAIN l : ~WrittenAs(MethodsOf(l[j].ep)[l[j].method], "info")
    /\ \A i \in EndpointIds : ~HasInfo(i) =>
         \A k \in DOMAIN MethodsOf(i) : \E j \in DOMAIN l : RoutesFor(l, i, k) = {j}

(* Run reaches http.ListenAndServe, an error or the end of the Go stack:   *)
(* the two mutually recursive functions never turn in a circle.            *)
Settles == <>(phase \in {"routed", "refused", "overflow"})

-----------------------------------------------------------------------------
(* What the documentation says of a start, each refuted by a run. *)

(* README: InfoTask returns "all registered tasks with info", so each      *)
(* entry carries the type and description of its own task.                 *)
ListingDescribesOwnTask ==
  \A l \in listings : \A j \in DOMAIN l :
    MethodsOf(l[j].ep)[l[j].taskconf] = MethodsOf(l[j].ep)[l[j].method]

(* A method's own task is an info task written with spaces around it,      *)
(* which the literal test does not find either: a circle without a multi   *)
(* task, left out of the claim about multi tasks below.                    *)
SpacedInfo ==
  \E i \in EndpointIds : \E k \in DOMAIN MethodsOf(i) :
    TaskConf[MethodsOf(i)[k]].type = "info" /\ TaskConf[MethodsOf(i)[k]].padded

(* README: the tasks of a multi task "can be any tasks (except of embedded *)
(* multi task)", so a multi task that embeds an info task can be built.    *)
AnyTaskEmbeds == phase = "overflow" => SpacedInfo
=============================================================================
