------------------------------ MODULE MCStartup ------------------------------
(* Configuration files small enough to start a server from in every order. *)
EXTENDS Startup, TLC

CONSTANTS GET, POST, basic

MCNames == {basic}
MCKeys  == {GET, POST}

Task(type, accepted) ==
  [type |-> type, padded |-> FALSE, accepted |-> accepted, query |-> "none",
   authorizers |-> {}, tasks |-> <<>>]

Multi(tasks) == [Task("multi", TRUE) EXCEPT !.tasks = tasks]

MCTaskConf == <<
  Task("plain", TRUE),                                       \*  1
  Task("info", TRUE),                                        \*  2
  [Task("plain", TRUE) EXCEPT !.authorizers = {basic}],      \*  3
  [Task("plain", TRUE) EXCEPT !.query = "invalid"],          \*  4
  Task("plain", FALSE),                                      \*  5
  Task("", TRUE),                                            \*  6
  Task("unknown", TRUE),                                     \*  7
  Multi(<<1, 3>>),                                           \*  8
  Multi(<<1, 8>>),                                           \*  9
  [Multi(<<1>>) EXCEPT !.padded = TRUE],                     \* 10
  Multi(<<10, 1>>),                                          \* 11
  Multi(<<1, 2>>),                                           \* 12
  [Task("info", TRUE) EXCEPT !.padded = TRUE],               \* 13
  Task("multi", FALSE)                                       \* 14
>>

MCTaskIds == DOMAIN MCTaskConf

MCPlainTasks == MCTaskIds \ {12, 13}

MethodMaps(tasks) == [{GET} -> tasks] \cup [{GET, POST} -> tasks]

Endpoint(type, query, methods) ==
  [type |-> type, query |-> query, authorizers |-> {}, methods |-> methods]

File(kind, first, second) ==
  [authorizers |-> basic :> kind, endpoints |-> <<first, second>>]

MCConfigs ==
  {File("good", Endpoint("", "none", m), Endpoint("", "none", n)) :
     m \in MethodMaps(MCTaskIds), n \in MethodMaps({1, 2})}
  \cup {File("good", Endpoint("plain", "none", m), Endpoint("", q, n)) :
           q \in {"valid", "invalid"}, m \in MethodMaps({1, 6}), n \in MethodMaps({1, 2})}
  \cup {File(kind, Endpoint("", "none", m), Endpoint("", "none", n)) :
           kind \in AuthorizerKinds, m \in MethodMaps({2, 3}), n \in [{GET} -> {1}]}
  \cup {[authorizers |-> <<>>, endpoints |-> <<Endpoint("", "none", m)>>] :
           m \in MethodMaps({1, 3})}
  \cup {[authorizers |-> <<>>, endpoints |-> <<>>]}
=============================================================================
