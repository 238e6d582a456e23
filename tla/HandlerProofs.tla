---------------------------- MODULE HandlerProofs ----------------------------
(* What the handler guarantees for any number of concurrent requests, any  *)
(* endpoints and any answers of authorizers and tasks, and that it         *)
(* implements the exchange.                                                *)
EXTENDS Handler, TLAPS

-----------------------------------------------------------------------------
(* THE INDUCTIVE INVARIANT, of one request: where its handler is (p), the  *)
(* route (e, k), the authorizers left and consulted (ch, co), the runs (r) *)
(* and the answer (rep, w).                                                *)

Matched(e, k) == e \in Endpoints /\ k \in DOMAIN EndpointConf[e].methods

Progress(p, e, k, r) ==
  /\ p = "idle" => e = NoEndpoint
  /\ e # NoEndpoint => Matched(e, k)
  /\ p \in {"authorizing", "preparing", "prepared", "running", "decorating"} => e # NoEndpoint
  /\ p \in {"idle", "authorizing", "preparing", "prepared"} => r = 0
  /\ p \in {"running", "decorating"} => r = 1
  /\ r \in {0, 1}
  /\ r = 1 => e # NoEndpoint

(* Every name listed for the route is still to be consulted, or it is      *)
(* defined and has said ok.                                                *)
Accounted(e, k, ch, co) ==
  \A n \in Elements(CheckList(e, Upper[k])) :
    \/ n \in Elements(ch)
    \/ n \in Defined /\ [name |-> n, says |-> "ok"] \in Elements(co)

Permission(p, e, k, ch, co, r) ==
  /\ p = "idle" => co = <<>>
  /\ p = "authorizing" => Accounted(e, k, ch, co)
  /\ p \in {"preparing", "prepared"} \/ r = 1 => Accounted(e, k, <<>>, co)

(* Only the last one consulted can have refused, and then nothing ran. *)
Refusal(p, co, r, rep) ==
  \A i \in DOMAIN co : co[i].says # "ok" =>
    /\ i = Len(co)
    /\ r = 0 /\ p \in {"writing", "encoding", "answered"}
    /\ rep.status = IF co[i].says = "deny" THEN 401 ELSE 500

Header(rep) == [kind |-> "header", status |-> rep.status]

Answer(p, e, r, rep, w) ==
  /\ p \notin {"encoding", "answered"} => w = <<>>
  /\ p = "encoding" => w = <<Header(rep)>>
  /\ p = "answered" =>
       /\ Len(w) \in {1, 2} /\ w[1] = Header(rep)
       /\ Len(w) = 2 => w[2].kind = "body" /\ w[2].status = rep.status
  /\ p \in {"writing", "encoding", "answered"} /\ r = 0 =>
       rep.status \in {401, 404, 500} /\ (rep.status = 404 <=> e = NoEndpoint)

RequestInv(p, e, k, ch, co, r, rep, w) ==
  /\ Progress(p, e, k, r)
  /\ Permission(p, e, k, ch, co, r)
  /\ Refusal(p, co, r, rep)
  /\ Answer(p, e, r, rep, w)

InvOf(q) ==
  RequestInv(pc[q], endpoint[q], key[q], check[q], consulted[q], runs[q], reply[q], wire[q])

IInv == TypeOK /\ \A q \in Requests : InvOf(q)

-----------------------------------------------------------------------------
(* LEMMAS ABOUT SEQUENCES AND THE CONFIGURATION *)

LEMMA ElementsOfTail ==
  ASSUME NEW S, NEW s \in Seq(S), s # <<>>
  PROVE  /\ Tail(s) \in Seq(S) /\ Head(s) \in S
         /\ \A x \in Elements(s) : x = Head(s) \/ x \in Elements(Tail(s))
  <1>1. Tail(s) \in Seq(S) /\ Head(s) \in S /\ Head(s) = s[1]
    OBVIOUS
  <1>2. ASSUME NEW i \in DOMAIN s, i # 1
        PROVE  i - 1 \in DOMAIN Tail(s) /\ Tail(s)[i - 1] = s[i]
    BY <1>2
  <1> QED
    BY <1>1, <1>2 DEF Elements

LEMMA ElementsOfAppend ==
  ASSUME NEW S, NEW s \in Seq(S), NEW x \in S
  PROVE  /\ Append(s, x) \in Seq(S) /\ Len(Append(s, x)) = Len(s) + 1
         /\ DOMAIN Append(s, x) = DOMAIN s \cup {Len(s) + 1}
         /\ \A i \in DOMAIN s : Append(s, x)[i] = s[i]
         /\ Append(s, x)[Len(s) + 1] = x
         /\ Elements(s) \subseteq Elements(Append(s, x))
         /\ x \in Elements(Append(s, x))
  <1>1. /\ Append(s, x) \in Seq(S) /\ Len(Append(s, x)) = Len(s) + 1
        /\ DOMAIN Append(s, x) = DOMAIN s \cup {Len(s) + 1}
        /\ \A i \in DOMAIN s : Append(s, x)[i] = s[i]
        /\ Append(s, x)[Len(s) + 1] = x
    OBVIOUS
  <1> QED
    BY <1>1 DEF Elements

LEMMA ElementsOfConcat ==
  ASSUME NEW S, NEW a \in Seq(S), NEW b \in Seq(S)
  PROVE  a \o b \in Seq(S) /\ Elements(a) \cup Elements(b) \subseteq Elements(a \o b)
  <1>1. a \o b \in Seq(S)
    OBVIOUS
  <1>2. ASSUME NEW i \in DOMAIN a
        PROVE  i \in DOMAIN (a \o b) /\ (a \o b)[i] = a[i]
    OBVIOUS
  <1>3. ASSUME NEW i \in DOMAIN b
        PROVE  Len(a) + i \in DOMAIN (a \o b) /\ (a \o b)[Len(a) + i] = b[i]
    OBVIOUS
  <1> QED
    BY <1>1, <1>2, <1>3 DEF Elements

LEMMA EmptySequence == \A S : <<>> \in Seq(S)
  OBVIOUS

LEMMA SingletonShape == \A x : Len(<<x>>) = 1 /\ DOMAIN <<x>> = {1} /\ <<x>>[1] = x
  OBVIOUS

LEMMA EmptyElements == Elements(<<>>) = {}
  BY DEF Elements

LEMMA CheckListShape ==
  ASSUME NEW e \in Endpoints, NEW k \in Keys
  PROVE  /\ EndpointConf[e].authorizers \in Seq(Names)
         /\ EndpointConf[e].query \in QueryParams
         /\ MethodAt(e, k) \in TaskConfigs
         /\ MethodAt(e, k).authorizers \in Seq(Names)
         /\ CheckList(e, k) \in Seq(Names)
  <1>1. /\ EndpointConf[e].authorizers \in Seq(Names)
        /\ EndpointConf[e].query \in QueryParams
        /\ k \in DOMAIN EndpointConf[e].methods => EndpointConf[e].methods[k] \in TaskConfigs
    BY EndpointAssumption
  <1>2. ZeroTask \in TaskConfigs
    BY DEF ZeroTask, TaskConfigs, QueryParams
  <1>3. MethodAt(e, k) \in TaskConfigs
    BY <1>1, <1>2 DEF MethodAt
  <1>4. MethodAt(e, k).authorizers \in Seq(Names)
    BY <1>3 DEF TaskConfigs
  <1> QED
    BY <1>1, <1>3, <1>4 DEF CheckList

-----------------------------------------------------------------------------
(* STEPS OF ONE REQUEST *)

(* No request but q is touched. *)
OthersKept(q) ==
  \A p \in Requests \ {q} :
    /\ pc'[p] = pc[p] /\ endpoint'[p] = endpoint[p] /\ key'[p] = key[p]
    /\ check'[p] = check[p] /\ consulted'[p] = consulted[p]
    /\ runs'[p] = runs[p] /\ reply'[p] = reply[p] /\ wire'[p] = wire[p]

LEMMA OneRequest ==
  ASSUME IInv, TypeOK', NEW q \in Requests, OthersKept(q), InvOf(q)'
  PROVE  IInv'
  <1>1. \A p \in Requests \ {q} : InvOf(p)'
    BY DEF IInv, InvOf, OthersKept
  <1> QED
    BY <1>1 DEF IInv

LEMMA ResponseShape ==
  ASSUME NEW s \in Statuses
  PROVE  /\ NewResponse(s) \in Replies /\ NewResponse(s).status = s
         /\ \A r \in Results :
              /\ [NewResponse(s) EXCEPT !.result = r] \in Replies
              /\ [NewResponse(s) EXCEPT !.result = r].status = s
  BY DEF NewResponse, Replies, Results

LEMMA InitInv == Init => IInv
  <1> SUFFICES ASSUME Init PROVE IInv
    OBVIOUS
  <1>1. NewResponse(200) \in Replies
    BY ResponseShape DEF Statuses
  <1>2. NoData \in Data
    BY EnvAssumption DEF NoData, Data, Bodies
  <1>3. TypeOK
    <2>7. osEnv = 0
      BY DEF Init
    <2>1. osEnv \in 0..MaxEnv
      BY <2>7, EnvAssumption
    <2>6. pc \in [Requests -> PCs]
      BY DEF Init, PCs
    <2>9. since = [q \in Requests |-> 0]
      BY DEF Init
    <2>8. since \in [Requests -> 0..MaxEnv]
      BY <2>9, EnvAssumption
    <2>5. reloadEnv \in BOOLEAN
      BY Zenon DEF Init
    <2>2. /\ endpoint \in [Requests -> Endpoints \cup {NoEndpoint}]
          /\ key \in [Requests -> Keys \cup {NoKey}]
          /\ runs \in [Requests -> Nat] /\ read \in [Requests -> Bodies]
      BY DEF Init, Bodies
    <2>3. /\ check \in [Requests -> Seq(Names)] /\ wire \in [Requests -> Seq(Written)]
          /\ consulted \in [Requests -> Seq([name : Names, says : Verdicts])]
      BY EmptySequence DEF Init
    <2>4. reply \in [Requests -> Replies] /\ params \in [Requests -> Data]
      BY <1>1, <1>2 DEF Init
    <2> QED
      BY <2>1, <2>2, <2>3, <2>4, <2>5, <2>6, <2>8 DEF TypeOK
  <1>4. ASSUME NEW q \in Requests PROVE InvOf(q)
    <2>1. /\ pc[q] = "idle" /\ endpoint[q] = NoEndpoint /\ consulted[q] = <<>>
          /\ runs[q] = 0 /\ wire[q] = <<>>
      BY DEF Init
    <2>2. DOMAIN consulted[q] = {}
      BY <2>1
    <2> QED
      BY <2>1, <2>2 DEF InvOf, RequestInv, Progress, Permission, Refusal, Answer
  <1> QED
    BY <1>3, <1>4 DEF IInv

LEMMA NotFoundKeeps ==
  ASSUME IInv, NEW q \in Requests, NotFound(q)
  PROVE  IInv'
  <1>1. NewResponse(404) \in Replies /\ NewResponse(404).status = 404
    BY ResponseShape DEF Statuses
  <1>2. TypeOK'
    BY <1>1 DEF IInv, TypeOK, NotFound, At, Respond, PCs
  <1>3. InvOf(q)
    BY DEF IInv
  <1>4. /\ pc[q] = "idle" /\ pc'[q] = "writing" /\ endpoint'[q] = endpoint[q] /\ key'[q] = key[q]
        /\ check'[q] = check[q] /\ consulted'[q] = consulted[q] /\ runs'[q] = runs[q]
        /\ reply'[q] = NewResponse(404) /\ wire'[q] = wire[q]
    BY DEF IInv, TypeOK, NotFound, At, Respond
  <1>5. InvOf(q)'
    BY <1>1, <1>3, <1>4 DEF InvOf, RequestInv, Progress, Permission, Refusal, Answer
  <1>6. OthersKept(q)
    BY DEF IInv, TypeOK, NotFound, At, Respond, OthersKept
  <1> QED
    BY <1>2, <1>5, <1>6, OneRequest

(* A consultation uses up the first name left and keeps what it said. *)
LEMMA ConsultShape ==
  ASSUME IInv, NEW q \in Requests, NEW says \in Verdicts, Consult(q, says)
  PROVE  LET c == [name |-> Head(check[q]), says |-> says]
         IN  /\ check' \in [Requests -> Seq(Names)]
             /\ consulted' \in [Requests -> Seq([name : Names, says : Verdicts])]
             /\ check'[q] = Tail(check[q]) /\ consulted'[q] = Append(consulted[q], c)
             /\ \A p \in Requests \ {q} : check'[p] = check[p] /\ consulted'[p] = consulted[p]
             /\ Head(check[q]) \in Defined
             /\ \A n \in Elements(check[q]) : n = c.name \/ n \in Elements(Tail(check[q]))
             /\ DOMAIN consulted'[q] = DOMAIN consulted[q] \cup {Len(consulted[q]) + 1}
             /\ Len(consulted'[q]) = Len(consulted[q]) + 1
             /\ \A i \in DOMAIN consulted[q] : consulted'[q][i] = consulted[q][i]
             /\ consulted'[q][Len(consulted[q]) + 1].says = says
             /\ Elements(consulted[q]) \cup {c} \subseteq Elements(consulted'[q])
  <1> DEFINE c == [name |-> Head(check[q]), says |-> says]
             C == [name : Names, says : Verdicts]
  <1>1. check \in [Requests -> Seq(Names)] /\ consulted \in [Requests -> Seq(C)]
    BY DEF IInv, TypeOK
  <1>2. check[q] \in Seq(Names) /\ check[q] # <<>> /\ consulted[q] \in Seq(C)
    BY <1>1 DEF Consult
  <1>3. /\ Tail(check[q]) \in Seq(Names) /\ Head(check[q]) \in Names
        /\ \A n \in Elements(check[q]) : n = Head(check[q]) \/ n \in Elements(Tail(check[q]))
    BY <1>2, ElementsOfTail
  <1>4. c \in C
    BY <1>3
  <1>5. /\ check' = [check EXCEPT ![q] = Tail(check[q])]
        /\ consulted' = [consulted EXCEPT ![q] = Append(consulted[q], c)]
        /\ Head(check[q]) \in Defined
    BY DEF Consult
  <1>6. c.name = Head(check[q]) /\ c.says = says
    OBVIOUS
  <1> HIDE DEF c, C
  <1>7. /\ Append(consulted[q], c) \in Seq(C)
        /\ Len(Append(consulted[q], c)) = Len(consulted[q]) + 1
        /\ DOMAIN Append(consulted[q], c) = DOMAIN consulted[q] \cup {Len(consulted[q]) + 1}
        /\ \A i \in DOMAIN consulted[q] : Append(consulted[q], c)[i] = consulted[q][i]
        /\ Append(consulted[q], c)[Len(consulted[q]) + 1] = c
        /\ Elements(consulted[q]) \cup {c} \subseteq Elements(Append(consulted[q], c))
    BY <1>2, <1>4, ElementsOfAppend
  <1>8. check' \in [Requests -> Seq(Names)] /\ consulted' \in [Requests -> Seq(C)]
    BY <1>1, <1>3, <1>5, <1>7
  <1>9. /\ check'[q] = Tail(check[q]) /\ consulted'[q] = Append(consulted[q], c)
        /\ \A p \in Requests \ {q} : check'[p] = check[p] /\ consulted'[p] = consulted[p]
    BY <1>1, <1>5
  <1> QED
    BY <1>3, <1>5, <1>6, <1>7, <1>8, <1>9 DEF c, C

LEMMA ArriveKeeps ==
  ASSUME IInv, NEW q \in Requests, NEW e \in Endpoints, NEW k \in Keys, Arrive(q, e, k)
  PROVE  IInv'
  <1>1. Upper[k] \in Keys /\ CheckList(e, Upper[k]) \in Seq(Names)
    BY UpperAssumption, CheckListShape
  <1>2. TypeOK'
    BY <1>1 DEF IInv, TypeOK, Arrive, At, PCs
  <1>3. InvOf(q)
    BY DEF IInv
  <1>4. /\ pc[q] = "idle" /\ pc'[q] = "authorizing" /\ endpoint'[q] = e /\ key'[q] = k
        /\ check'[q] = CheckList(e, Upper[k]) /\ consulted'[q] = consulted[q]
        /\ runs'[q] = runs[q] /\ reply'[q] = reply[q] /\ wire'[q] = wire[q]
        /\ k \in DOMAIN EndpointConf[e].methods
    BY DEF IInv, TypeOK, Arrive, At
  <1>5. Progress(pc'[q], e, k, runs'[q])
    BY <1>3, <1>4, NoneAssumption DEF InvOf, RequestInv, Progress, Matched
  <1>6. Permission(pc'[q], e, k, check'[q], consulted'[q], runs'[q])
    BY <1>3, <1>4 DEF InvOf, RequestInv, Progress, Permission, Accounted
  <1>7. Refusal(pc'[q], consulted'[q], runs'[q], reply'[q])
    BY <1>3, <1>4 DEF InvOf, RequestInv, Refusal
  <1>8. Answer(pc'[q], e, runs'[q], reply'[q], wire'[q])
    BY <1>3, <1>4 DEF InvOf, RequestInv, Answer
  <1>9. InvOf(q)'
    BY <1>4, <1>5, <1>6, <1>7, <1>8 DEF InvOf, RequestInv
  <1>10. OthersKept(q)
    BY DEF IInv, TypeOK, Arrive, At, OthersKept
  <1> QED
    BY <1>2, <1>9, <1>10, OneRequest

LEMMA AcceptKeeps ==
  ASSUME IInv, NEW q \in Requests, Accept(q)
  PROVE  IInv'
  <1>1. Consult(q, "ok") /\ "ok" \in Verdicts
    BY DEF Accept, Verdicts
  <1> DEFINE c == [name |-> Head(check[q]), says |-> "ok"]
  <1>2. /\ check' \in [Requests -> Seq(Names)]
        /\ consulted' \in [Requests -> Seq([name : Names, says : Verdicts])]
        /\ check'[q] = Tail(check[q])
        /\ \A p \in Requests \ {q} : check'[p] = check[p] /\ consulted'[p] = consulted[p]
        /\ Head(check[q]) \in Defined
        /\ \A n \in Elements(check[q]) : n = Head(check[q]) \/ n \in Elements(check'[q])
        /\ DOMAIN consulted'[q] = DOMAIN consulted[q] \cup {Len(consulted[q]) + 1}
        /\ \A i \in DOMAIN consulted[q] : consulted'[q][i] = consulted[q][i]
        /\ consulted'[q][Len(consulted[q]) + 1].says = "ok"
        /\ Elements(consulted[q]) \cup {c} \subseteq Elements(consulted'[q])
    BY <1>1, ConsultShape
  <1>3. TypeOK'
    BY <1>2 DEF IInv, TypeOK, Accept, At, PCs
  <1>4. InvOf(q)
    BY DEF IInv
  <1>5. /\ pc[q] = "authorizing" /\ pc'[q] = "authorizing" /\ endpoint'[q] = endpoint[q]
        /\ key'[q] = key[q] /\ runs'[q] = runs[q] /\ reply'[q] = reply[q] /\ wire'[q] = wire[q]
    BY DEF IInv, TypeOK, Accept, At
  <1>6. Accounted(endpoint[q], key[q], check'[q], consulted'[q])
    <2>1. Accounted(endpoint[q], key[q], check[q], consulted[q])
      BY <1>4, <1>5 DEF InvOf, RequestInv, Permission
    <2>2. ASSUME NEW n \in Elements(CheckList(endpoint[q], Upper[key[q]]))
          PROVE  \/ n \in Elements(check'[q])
                 \/ n \in Defined /\ [name |-> n, says |-> "ok"] \in Elements(consulted'[q])
      <3>1. CASE n \in Elements(check[q])
        BY <1>2, <3>1
      <3>2. CASE n \in Defined /\ [name |-> n, says |-> "ok"] \in Elements(consulted[q])
        BY <1>2, <3>2
      <3> QED
        BY <2>1, <3>1, <3>2 DEF Accounted
    <2> QED
      BY <2>2 DEF Accounted
  <1>7. Refusal(pc'[q], consulted'[q], runs'[q], reply'[q])
    <2>1. \A i \in DOMAIN consulted[q] : consulted[q][i].says = "ok"
      BY <1>4, <1>5 DEF InvOf, RequestInv, Refusal
    <2> QED
      BY <1>2, <2>1 DEF Refusal
  <1>8. InvOf(q)'
    BY <1>4, <1>5, <1>6, <1>7 DEF InvOf, RequestInv, Progress, Permission, Answer
  <1>9. OthersKept(q)
    BY <1>2 DEF IInv, TypeOK, Accept, At, OthersKept
  <1> QED
    BY <1>3, <1>8, <1>9, OneRequest

(* A refusal ends the consultation and prepares its own answer. *)
LEMMA RefuseKeeps ==
  ASSUME IInv, NEW q \in Requests, NEW says \in Verdicts, says # "ok", NEW s \in Statuses,
         s = IF says = "deny" THEN 401 ELSE 500,
         pc[q] = "authorizing", pc' = [pc EXCEPT ![q] = "writing"],
         Consult(q, says), Respond(q, NewResponse(s)),
         UNCHANGED <<reloadEnv, osEnv, endpoint, key, since, read, params, runs, wire>>
  PROVE  IInv'
  <1> DEFINE c == [name |-> Head(check[q]), says |-> says]
  <1>1. s \in {401, 500}
    OBVIOUS
  <1>2. NewResponse(s) \in Replies /\ NewResponse(s).status = s
    BY ResponseShape
  <1>3. /\ check' \in [Requests -> Seq(Names)]
        /\ consulted' \in [Requests -> Seq([name : Names, says : Verdicts])]
        /\ \A p \in Requests \ {q} : check'[p] = check[p] /\ consulted'[p] = consulted[p]
        /\ DOMAIN consulted'[q] = DOMAIN consulted[q] \cup {Len(consulted[q]) + 1}
        /\ Len(consulted'[q]) = Len(consulted[q]) + 1
        /\ \A i \in DOMAIN consulted[q] : consulted'[q][i] = consulted[q][i]
        /\ consulted'[q][Len(consulted[q]) + 1].says = says
    <2>1. Consult(q, says)
      OBVIOUS
    <2> QED
      BY <2>1, ConsultShape
  <1>4. TypeOK'
    <2>1. pc' \in [Requests -> PCs] /\ reply' \in [Requests -> Replies]
      BY <1>2 DEF IInv, TypeOK, Respond, PCs
    <2> QED
      BY <1>3, <2>1 DEF IInv, TypeOK
  <1>5. InvOf(q)
    BY DEF IInv
  <1>6. /\ pc'[q] = "writing" /\ endpoint'[q] = endpoint[q] /\ key'[q] = key[q]
        /\ runs'[q] = runs[q] /\ reply'[q] = NewResponse(s) /\ wire'[q] = wire[q]
    BY DEF IInv, TypeOK, Respond
  <1>7. runs[q] = 0 /\ endpoint[q] # NoEndpoint
    BY <1>5 DEF InvOf, RequestInv, Progress
  <1>8. Refusal(pc'[q], consulted'[q], runs'[q], reply'[q])
    <2>1. \A i \in DOMAIN consulted[q] : consulted[q][i].says = "ok"
      BY <1>5 DEF InvOf, RequestInv, Refusal
    <2> QED
      BY <1>2, <1>3, <1>6, <1>7, <2>1 DEF Refusal
  <1>9. Answer(pc'[q], endpoint'[q], runs'[q], reply'[q], wire'[q])
    BY <1>1, <1>2, <1>5, <1>6, <1>7 DEF InvOf, RequestInv, Answer
  <1>10. Progress(pc'[q], endpoint'[q], key'[q], runs'[q])
    BY <1>5, <1>6, <1>7 DEF InvOf, RequestInv, Progress
  <1>11. Permission(pc'[q], endpoint'[q], key'[q], check'[q], consulted'[q], runs'[q])
    BY <1>6, <1>7 DEF Permission
  <1>12. InvOf(q)'
    BY <1>8, <1>9, <1>10, <1>11 DEF InvOf, RequestInv
  <1>13. OthersKept(q)
    BY <1>3 DEF IInv, TypeOK, Respond, OthersKept
  <1> QED
    BY <1>4, <1>12, <1>13, OneRequest

LEMMA DenyKeeps ==
  ASSUME IInv, NEW q \in Requests, Deny(q)
  PROVE  IInv'
  <1>1. "deny" \in Verdicts /\ 401 \in Statuses
    BY DEF Verdicts, Statuses
  <1>2. /\ pc[q] = "authorizing" /\ pc' = [pc EXCEPT ![q] = "writing"]
        /\ Consult(q, "deny") /\ Respond(q, NewResponse(401))
        /\ UNCHANGED <<reloadEnv, osEnv, endpoint, key, since, read, params, runs, wire>>
    BY DEF Deny, Denied, At
  <1> QED
    BY <1>1, <1>2, RefuseKeeps

LEMMA ConsultPanicsKeeps ==
  ASSUME IInv, NEW q \in Requests, ConsultPanics(q)
  PROVE  IInv'
  <1>1. "panic" \in Verdicts /\ 500 \in Statuses
    BY DEF Verdicts, Statuses
  <1>2. /\ pc[q] = "authorizing" /\ pc' = [pc EXCEPT ![q] = "writing"]
        /\ Consult(q, "panic") /\ Respond(q, NewResponse(500))
        /\ UNCHANGED <<reloadEnv, osEnv, endpoint, key, since, read, params, runs, wire>>
    BY DEF ConsultPanics, At
  <1> QED
    BY <1>1, <1>2, RefuseKeeps

LEMMA ConsultNilKeeps ==
  ASSUME IInv, NEW q \in Requests, ConsultNil(q)
  PROVE  IInv'
  <1>1. NewResponse(500) \in Replies /\ NewResponse(500).status = 500
    BY ResponseShape DEF Statuses
  <1>2. TypeOK'
    BY <1>1 DEF IInv, TypeOK, ConsultNil, At, Respond, PCs
  <1>3. InvOf(q)
    BY DEF IInv
  <1>4. /\ pc[q] = "authorizing" /\ pc'[q] = "writing" /\ endpoint'[q] = endpoint[q]
        /\ key'[q] = key[q] /\ check'[q] = check[q] /\ consulted'[q] = consulted[q]
        /\ runs'[q] = runs[q] /\ reply'[q] = NewResponse(500) /\ wire'[q] = wire[q]
    BY DEF IInv, TypeOK, ConsultNil, At, Respond
  <1>5. InvOf(q)'
    BY <1>1, <1>3, <1>4 DEF InvOf, RequestInv, Progress, Permission, Refusal, Answer
  <1>6. OthersKept(q)
    BY DEF IInv, TypeOK, ConsultNil, At, Respond, OthersKept
  <1> QED
    BY <1>2, <1>5, <1>6, OneRequest

LEMMA ReadBodyKeeps ==
  ASSUME IInv, NEW q \in Requests, NEW b \in Bodies, NEW failed \in BOOLEAN,
         ReadBody(q, b, failed)
  PROVE  IInv'
  <1>1. BodyVar(b, failed) \in Bodies
    BY DEF BodyVar, Bodies
  <1>2. [NoData EXCEPT !.body = BodyVar(b, failed)] \in Data
    <2>1. 0 \in 0..MaxEnv
      BY EnvAssumption
    <2> HIDE DEF BodyVar
    <2> QED
      BY <1>1, <2>1 DEF NoData, Data
  <1>3. TypeOK'
    BY <1>2 DEF IInv, TypeOK, ReadBody, At, PCs
  <1>4. InvOf(q)
    BY DEF IInv
  <1>5. /\ pc[q] = "authorizing" /\ pc'[q] = "preparing" /\ endpoint'[q] = endpoint[q]
        /\ key'[q] = key[q] /\ check[q] = <<>> /\ check'[q] = <<>> /\ consulted'[q] = consulted[q]
        /\ runs'[q] = runs[q] /\ reply'[q] = reply[q] /\ wire'[q] = wire[q]
    BY DEF IInv, TypeOK, ReadBody, At
  <1>6. InvOf(q)'
    BY <1>4, <1>5 DEF InvOf, RequestInv, Progress, Permission, Refusal, Answer
  <1>7. OthersKept(q)
    BY DEF IInv, TypeOK, ReadBody, At, OthersKept
  <1> QED
    BY <1>3, <1>6, <1>7, OneRequest

LEMMA PrepareKeeps ==
  ASSUME IInv, NEW q \in Requests, Prepare(q)
  PROVE  IInv'
  <1>1. QueryLevel(q) \in {"endpoint", "method", "nothing"} /\ Env \in 0..MaxEnv
    BY EnvAssumption DEF QueryLevel, Env, IInv, TypeOK
  <1>2. params' \in [Requests -> Data]
    <2>1. params \in [Requests -> Data]
      BY DEF IInv, TypeOK
    <2> HIDE DEF QueryLevel, Env
    <2> QED
      BY <1>1, <2>1 DEF Prepare, Data
  <1>3. TypeOK'
    <2>1. pc' \in [Requests -> PCs]
      BY DEF IInv, TypeOK, Prepare, At, PCs
    <2>2. UNCHANGED <<reloadEnv, osEnv, endpoint, key, since, check, consulted, read, runs, reply, wire>>
      BY DEF Prepare, At
    <2> QED
      BY <1>2, <2>1, <2>2 DEF IInv, TypeOK
  <1>4. InvOf(q)
    BY DEF IInv
  <1>5. /\ pc[q] = "preparing" /\ pc'[q] = "prepared" /\ endpoint'[q] = endpoint[q]
        /\ key'[q] = key[q] /\ check'[q] = check[q] /\ consulted'[q] = consulted[q]
        /\ runs'[q] = runs[q] /\ reply'[q] = reply[q] /\ wire'[q] = wire[q]
    BY DEF IInv, TypeOK, Prepare, At
  <1>6. runs[q] = 0
    BY <1>4, <1>5 DEF InvOf, RequestInv, Progress
  <1>7. Refusal(pc'[q], consulted'[q], runs'[q], reply'[q])
    BY <1>4, <1>5 DEF InvOf, RequestInv, Refusal
  <1>8. InvOf(q)'
    BY <1>4, <1>5, <1>6, <1>7 DEF InvOf, RequestInv, Progress, Permission, Answer
  <1>9. OthersKept(q)
    BY DEF IInv, TypeOK, Prepare, At, OthersKept
  <1> QED
    BY <1>3, <1>8, <1>9, OneRequest

LEMMA RunTaskKeeps ==
  ASSUME IInv, NEW q \in Requests, RunTask(q)
  PROVE  IInv'
  <1>1. TypeOK'
    <2>1. pc' \in [Requests -> PCs] /\ runs' \in [Requests -> Nat]
      BY DEF IInv, TypeOK, RunTask, At, PCs
    <2>2. UNCHANGED <<reloadEnv, osEnv, endpoint, key, since, check, consulted, read, params, reply, wire>>
      BY DEF RunTask, At
    <2> QED
      BY <2>1, <2>2 DEF IInv, TypeOK
  <1>2. InvOf(q)
    BY DEF IInv
  <1>3. /\ pc[q] = "prepared" /\ pc'[q] = "running" /\ endpoint'[q] = endpoint[q]
        /\ key'[q] = key[q] /\ check'[q] = check[q] /\ consulted'[q] = consulted[q]
        /\ runs'[q] = runs[q] + 1 /\ reply'[q] = reply[q] /\ wire'[q] = wire[q]
    BY DEF IInv, TypeOK, RunTask, At
  <1>4. runs[q] = 0
    BY <1>2, <1>3 DEF InvOf, RequestInv, Progress
  <1>5. Refusal(pc'[q], consulted'[q], runs'[q], reply'[q])
    BY <1>2, <1>3 DEF InvOf, RequestInv, Refusal
  <1>6. InvOf(q)'
    BY <1>2, <1>3, <1>4, <1>5 DEF InvOf, RequestInv, Progress, Permission, Answer
  <1>7. OthersKept(q)
    BY DEF IInv, TypeOK, RunTask, At, OthersKept
  <1> QED
    BY <1>1, <1>6, <1>7, OneRequest

LEMMA TaskReturnsKeeps ==
  ASSUME IInv, NEW q \in Requests, NEW s \in TaskStatuses, NEW r \in Results,
         TaskReturns(q, s, r)
  PROVE  IInv'
  <1> DEFINE response == [NewResponse(s) EXCEPT !.result = r]
  <1>1. response \in Replies
    BY ResponseShape DEF Statuses
  <1>2. /\ pc[q] = "running" /\ pc' = [pc EXCEPT ![q] = "decorating"]
        /\ reply' = [reply EXCEPT ![q] = response]
        /\ UNCHANGED <<reloadEnv, osEnv, endpoint, key, since, check, consulted, read, params, runs, wire>>
    BY DEF TaskReturns, At, Respond
  <1> HIDE DEF response
  <1>3. TypeOK'
    BY <1>1, <1>2 DEF IInv, TypeOK, PCs
  <1>4. InvOf(q)
    BY DEF IInv
  <1>5. /\ pc'[q] = "decorating" /\ endpoint'[q] = endpoint[q] /\ key'[q] = key[q]
        /\ check'[q] = check[q] /\ consulted'[q] = consulted[q]
        /\ runs'[q] = runs[q] /\ wire'[q] = wire[q]
    BY <1>2 DEF IInv, TypeOK
  <1>6. runs[q] = 1
    BY <1>2, <1>4 DEF InvOf, RequestInv, Progress
  <1>7. Refusal(pc'[q], consulted'[q], runs'[q], reply'[q])
    BY <1>2, <1>4, <1>5 DEF InvOf, RequestInv, Refusal
  <1>8. InvOf(q)'
    BY <1>2, <1>4, <1>5, <1>6, <1>7 DEF InvOf, RequestInv, Progress, Permission, Answer
  <1>9. OthersKept(q)
    BY <1>2 DEF IInv, TypeOK, OthersKept
  <1> QED
    BY <1>3, <1>8, <1>9, OneRequest

LEMMA TaskPanicsKeeps ==
  ASSUME IInv, NEW q \in Requests, TaskPanics(q)
  PROVE  IInv'
  <1>1. NewResponse(500) \in Replies
    BY ResponseShape DEF Statuses
  <1>2. TypeOK'
    BY <1>1 DEF IInv, TypeOK, TaskPanics, Recover, At, Respond, PCs
  <1>3. InvOf(q)
    BY DEF IInv
  <1>4. /\ pc[q] = "running" /\ pc'[q] = "writing" /\ endpoint'[q] = endpoint[q]
        /\ key'[q] = key[q] /\ check'[q] = check[q] /\ consulted'[q] = consulted[q]
        /\ runs'[q] = runs[q] /\ wire'[q] = wire[q]
    BY DEF IInv, TypeOK, TaskPanics, Recover, At, Respond
  <1>5. runs[q] = 1
    BY <1>3, <1>4 DEF InvOf, RequestInv, Progress
  <1>6. Refusal(pc'[q], consulted'[q], runs'[q], reply'[q])
    BY <1>3, <1>4 DEF InvOf, RequestInv, Refusal
  <1>7. InvOf(q)'
    BY <1>3, <1>4, <1>5, <1>6 DEF InvOf, RequestInv, Progress, Permission, Answer
  <1>8. OthersKept(q)
    BY DEF IInv, TypeOK, TaskPanics, Recover, At, Respond, OthersKept
  <1> QED
    BY <1>2, <1>7, <1>8, OneRequest

LEMMA DecorateKeeps ==
  ASSUME IInv, NEW q \in Requests, Decorate(q)
  PROVE  IInv'
  <1> DEFINE response == [reply[q] EXCEPT !.params = ReturnsParams(q)]
  <1>1. ReturnsParams(q) \in BOOLEAN
    BY Zenon DEF ReturnsParams
  <1>2. reply[q] \in Replies
    BY DEF IInv, TypeOK
  <1>3. response \in Replies
    <2> HIDE DEF ReturnsParams
    <2> QED
      BY <1>1, <1>2 DEF Replies
  <1>4. /\ pc[q] = "decorating" /\ pc' = [pc EXCEPT ![q] = "writing"]
        /\ reply' = [reply EXCEPT ![q] = response]
        /\ UNCHANGED <<reloadEnv, osEnv, endpoint, key, since, check, consulted, read, params, runs, wire>>
    BY DEF Decorate, At, Respond
  <1> HIDE DEF response
  <1>5. TypeOK'
    BY <1>3, <1>4 DEF IInv, TypeOK, PCs
  <1>6. InvOf(q)
    BY DEF IInv
  <1>7. /\ pc'[q] = "writing" /\ endpoint'[q] = endpoint[q] /\ key'[q] = key[q]
        /\ check'[q] = check[q] /\ consulted'[q] = consulted[q]
        /\ runs'[q] = runs[q] /\ wire'[q] = wire[q]
    BY <1>4 DEF IInv, TypeOK
  <1>8. runs[q] = 1
    BY <1>4, <1>6 DEF InvOf, RequestInv, Progress
  <1>9. Refusal(pc'[q], consulted'[q], runs'[q], reply'[q])
    BY <1>4, <1>6, <1>7 DEF InvOf, RequestInv, Refusal
  <1>10. InvOf(q)'
    BY <1>4, <1>6, <1>7, <1>8, <1>9 DEF InvOf, RequestInv, Progress, Permission, Answer
  <1>11. OthersKept(q)
    BY <1>4 DEF IInv, TypeOK, OthersKept
  <1> QED
    BY <1>5, <1>10, <1>11, OneRequest

(* What is appended to the wire is well formed. *)
LEMMA WrittenShape ==
  ASSUME NEW r \in Replies
  PROVE  /\ [kind |-> "header", status |-> r.status] \in Written
         /\ BodyOf(r) \in Written
         /\ BodyOf(r).kind = "body" /\ BodyOf(r).status = r.status
  <1>1. r.status \in Statuses /\ r.result \in Results
    BY DEF Replies
  <1>2. (r.params /\ r.result # "raw") \in BOOLEAN
    BY Zenon
  <1> DEFINE p == r.params /\ r.result # "raw"
  <1>3. p \in BOOLEAN /\ BodyOf(r) = [kind |-> "body", status |-> r.status, result |-> r.result, params |-> p]
    BY <1>2, Zenon DEF BodyOf
  <1> HIDE DEF p
  <1> QED
    BY <1>1, <1>3 DEF Written

LEMMA WriteHeaderKeeps ==
  ASSUME IInv, NEW q \in Requests, WriteHeader(q)
  PROVE  IInv'
  <1> DEFINE h == [kind |-> "header", status |-> reply[q].status]
  <1>1. reply[q] \in Replies /\ wire[q] \in Seq(Written)
    BY DEF IInv, TypeOK
  <1>2. h \in Written /\ h = Header(reply[q])
    BY <1>1, WrittenShape DEF Header
  <1>3. /\ pc[q] = "writing" /\ pc' = [pc EXCEPT ![q] = "encoding"]
        /\ wire' = [wire EXCEPT ![q] = Append(wire[q], h)]
        /\ UNCHANGED <<reloadEnv, osEnv, endpoint, key, since, check, consulted, read, params, runs, reply>>
    BY DEF WriteHeader, At
  <1> HIDE DEF h
  <1>4. Append(wire[q], h) \in Seq(Written)
    BY <1>1, <1>2, ElementsOfAppend
  <1>5. TypeOK'
    BY <1>3, <1>4 DEF IInv, TypeOK, PCs
  <1>6. InvOf(q)
    BY DEF IInv
  <1>7. /\ pc'[q] = "encoding" /\ endpoint'[q] = endpoint[q] /\ key'[q] = key[q]
        /\ check'[q] = check[q] /\ consulted'[q] = consulted[q]
        /\ runs'[q] = runs[q] /\ reply'[q] = reply[q] /\ wire'[q] = Append(wire[q], h)
    BY <1>3 DEF IInv, TypeOK
  <1>8. wire'[q] = <<Header(reply[q])>>
    <2>1. wire[q] = <<>>
      BY <1>3, <1>6 DEF InvOf, RequestInv, Answer
    <2> QED
      BY <1>2, <1>7, <2>1
  <1>9. Refusal(pc'[q], consulted'[q], runs'[q], reply'[q])
    BY <1>3, <1>6, <1>7 DEF InvOf, RequestInv, Refusal
  <1>10. InvOf(q)'
    <2>1. Answer(pc'[q], endpoint'[q], runs'[q], reply'[q], wire'[q])
      BY <1>3, <1>6, <1>7, <1>8 DEF InvOf, RequestInv, Answer
    <2> QED
      BY <1>3, <1>6, <1>7, <1>9, <2>1 DEF InvOf, RequestInv, Progress, Permission
  <1>11. OthersKept(q)
    BY <1>3 DEF IInv, TypeOK, OthersKept
  <1> QED
    BY <1>5, <1>10, <1>11, OneRequest

LEMMA WriteBodyKeeps ==
  ASSUME IInv, NEW q \in Requests, WriteBody(q)
  PROVE  IInv'
  <1> DEFINE b == BodyOf(reply[q])
  <1>1. reply[q] \in Replies /\ wire \in [Requests -> Seq(Written)]
    BY DEF IInv, TypeOK
  <1>2. b \in Written /\ b.kind = "body" /\ b.status = reply[q].status
    BY <1>1, WrittenShape
  <1>3. /\ pc[q] = "encoding" /\ pc' = [pc EXCEPT ![q] = "answered"]
        /\ wire' = wire \/ wire' = [wire EXCEPT ![q] = Append(wire[q], b)]
        /\ UNCHANGED <<reloadEnv, osEnv, endpoint, key, since, check, consulted, read, params, runs, reply>>
    BY DEF WriteBody, At
  <1> HIDE DEF b
  <1>4. Append(wire[q], b) \in Seq(Written)
    BY <1>1, <1>2, ElementsOfAppend
  <1>5. /\ wire' \in [Requests -> Seq(Written)]
        /\ wire'[q] \in {wire[q], Append(wire[q], b)}
        /\ \A p \in Requests \ {q} : wire'[p] = wire[p]
    BY <1>1, <1>3, <1>4
  <1>6. TypeOK'
    BY <1>3, <1>5 DEF IInv, TypeOK, PCs
  <1>7. InvOf(q)
    BY DEF IInv
  <1>8. /\ pc'[q] = "answered" /\ endpoint'[q] = endpoint[q] /\ key'[q] = key[q]
        /\ check'[q] = check[q] /\ consulted'[q] = consulted[q]
        /\ runs'[q] = runs[q] /\ reply'[q] = reply[q]
    BY <1>3 DEF IInv, TypeOK
  <1>9. /\ Len(wire'[q]) \in {1, 2} /\ wire'[q][1] = Header(reply[q])
        /\ Len(wire'[q]) = 2 => wire'[q][2] = b
    <2>1. wire[q] = <<Header(reply[q])>>
      BY <1>3, <1>7 DEF InvOf, RequestInv, Answer
    <2>2. Len(wire[q]) = 1 /\ DOMAIN wire[q] = {1} /\ wire[q][1] = Header(reply[q])
      BY <2>1, SingletonShape
    <2> DEFINE both == Append(wire[q], b)
    <2>3. Len(both) = 2 /\ both[1] = wire[q][1] /\ both[2] = b
      BY <1>1, <1>2, <2>2, ElementsOfAppend
    <2>4. wire'[q] = wire[q] \/ wire'[q] = both
      BY <1>5
    <2> HIDE DEF both, Header
    <2> QED
      BY <2>2, <2>3, <2>4
  <1>10. Refusal(pc'[q], consulted'[q], runs'[q], reply'[q])
    BY <1>3, <1>7, <1>8 DEF InvOf, RequestInv, Refusal
  <1>11. InvOf(q)'
    <2>1. Answer(pc'[q], endpoint'[q], runs'[q], reply'[q], wire'[q])
      BY <1>2, <1>3, <1>7, <1>8, <1>9 DEF InvOf, RequestInv, Answer
    <2> QED
      BY <1>3, <1>7, <1>8, <1>10, <2>1 DEF InvOf, RequestInv, Progress, Permission
  <1>12. OthersKept(q)
    BY <1>3, <1>5 DEF IInv, TypeOK, OthersKept
  <1> QED
    BY <1>6, <1>11, <1>12, OneRequest

LEMMA EnvChangesKeeps ==
  ASSUME IInv, EnvChanges
  PROVE  IInv'
  <1>1. osEnv' \in 0..MaxEnv
    BY EnvAssumption DEF IInv, TypeOK, EnvChanges
  <1>2. TypeOK'
    BY <1>1 DEF IInv, TypeOK, EnvChanges, request
  <1>3. \A q \in Requests : InvOf(q)'
    BY DEF IInv, InvOf, EnvChanges, request
  <1> QED
    BY <1>2, <1>3 DEF IInv

LEMMA NextInv == IInv /\ [Next]_vars => IInv'
  <1> SUFFICES ASSUME IInv, [Next]_vars PROVE IInv'
    OBVIOUS
  <1>1. CASE EnvChanges
    BY <1>1, EnvChangesKeeps
  <1>2. ASSUME NEW q \in Requests, Requested(q) PROVE IInv'
    BY <1>2, NotFoundKeeps, ArriveKeeps DEF Requested
  <1>3. ASSUME NEW q \in Requests, Local(q) PROVE IInv'
    BY <1>3, ConsultNilKeeps, ReadBodyKeeps, PrepareKeeps, RunTaskKeeps, DecorateKeeps, WriteHeaderKeeps,
       WriteBodyKeeps DEF Local
  <1>4. ASSUME NEW q \in Requests, Backend(q) PROVE IInv'
    BY <1>4, AcceptKeeps, DenyKeeps, ConsultPanicsKeeps, TaskPanicsKeeps, TaskReturnsKeeps
    DEF Backend
  <1>5. CASE UNCHANGED vars
    BY <1>5 DEF vars, request, IInv, TypeOK, InvOf
  <1> QED
    BY <1>1, <1>2, <1>3, <1>4, <1>5 DEF Next

-----------------------------------------------------------------------------
(* THEOREMS *)

(* What holds of each request by itself holds of all of them at any time,  *)
(* however their steps interleave.                                         *)
THEOREM Invariance == Spec => []IInv
  BY InitInv, NextInv, PTL DEF Spec

(* Types of what each handler keeps. *)
THEOREM TypeCorrect == Spec => []TypeOK
  <1>1. IInv => TypeOK
    BY DEF IInv
  <1> QED
    BY <1>1, Invariance, PTL

(* A task runs only after every authorizer named for the endpoint and for  *)
(* the method has said ok to this very request.                            *)
THEOREM Authorization == Spec => []AuthorizedBeforeRun
  <1>1. ASSUME IInv, NEW q \in Requests, runs[q] > 0, Canonical(q), NEW n \in Required(q)
        PROVE  n \in Defined /\ [name |-> n, says |-> "ok"] \in Elements(consulted[q])
    <2> DEFINE e == endpoint[q]
               k == key[q]
               methods == EndpointConf[e].methods
    <2>1. InvOf(q) /\ runs[q] \in Nat
      BY <1>1 DEF IInv, TypeOK
    <2>2. runs[q] = 1 /\ Matched(e, k)
      BY <1>1, <2>1 DEF InvOf, RequestInv, Progress
    <2>3. Accounted(e, k, <<>>, consulted[q])
      BY <2>1, <2>2 DEF InvOf, RequestInv, Permission
    <2>4. e \in Endpoints /\ k \in Keys /\ Upper[k] = k
      BY <1>1, <2>2, EndpointAssumption DEF Matched, Canonical
    <2>5. MethodAt(e, k) = methods[k]
      BY <2>2 DEF Matched, MethodAt
    <2>6. n \in Elements(EndpointConf[e].authorizers) \cup Elements(MethodAt(e, k).authorizers)
      BY <1>1, <2>5 DEF Required
    <2>7. n \in Elements(CheckList(e, k))
      BY <2>4, <2>6, CheckListShape, ElementsOfConcat DEF CheckList
    <2> HIDE DEF e, k
    <2> QED
      BY <2>3, <2>4, <2>7, EmptyElements DEF Accounted
  <1>2. IInv => AuthorizedBeforeRun
    BY <1>1 DEF AuthorizedBeforeRun
  <1> QED
    BY <1>2, Invariance, PTL

(* Authorize stops at the first authorizer that does not say ok, and what  *)
(* that one said is the answer.                                            *)
THEOREM RefusalIsFinal == Spec => []FirstRefusalDecides
  <1>1. IInv => FirstRefusalDecides
    BY DEF IInv, InvOf, RequestInv, Refusal, FirstRefusalDecides
  <1> QED
    BY <1>1, Invariance, PTL

(* Write sends one status line, and at most one body with the status of    *)
(* that line, also when the handler recovered from a panic.                *)
THEOREM AnsweredOnce == Spec => []OneAnswer
  <1>1. ASSUME IInv, NEW q \in Requests, pc[q] = "answered"
        PROVE  /\ Len(wire[q]) \in {1, 2}
               /\ wire[q][1].kind = "header"
               /\ Len(wire[q]) = 2 =>
                    wire[q][2].kind = "body" /\ wire[q][2].status = wire[q][1].status
    <2>1. Answer(pc[q], endpoint[q], runs[q], reply[q], wire[q])
      BY <1>1 DEF IInv, InvOf, RequestInv
    <2>2. Header(reply[q]).kind = "header" /\ Header(reply[q]).status = reply[q].status
      BY DEF Header
    <2> QED
      BY <1>1, <2>1, <2>2 DEF Answer
  <1>2. IInv => OneAnswer
    BY <1>1 DEF OneAnswer
  <1> QED
    BY <1>2, Invariance, PTL

(* A task runs once at most, and an answer without a run is a refusal, an  *)
(* error or a missing route.                                               *)
THEOREM AnswerExplained == Spec => []RunExplainsAnswer
  <1>1. ASSUME IInv, NEW q \in Requests
        PROVE  /\ runs[q] <= 1
               /\ wire[q] # <<>> /\ runs[q] = 0 => wire[q][1].status \in {401, 404, 500}
               /\ wire[q] # <<>> /\ runs[q] = 0 /\ wire[q][1].status = 404
                    => endpoint[q] = NoEndpoint
    <2>1. InvOf(q)
      BY <1>1 DEF IInv
    <2>2. runs[q] <= 1
      BY <2>1 DEF InvOf, RequestInv, Progress
    <2>3. ASSUME wire[q] # <<>>
          PROVE  pc[q] \in {"encoding", "answered"} /\ wire[q][1].status = reply[q].status
      BY <2>1, <2>3 DEF InvOf, RequestInv, Answer, Header
    <2> QED
      BY <2>1, <2>2, <2>3 DEF InvOf, RequestInv, Answer
  <1>2. IInv => RunExplainsAnswer
    BY <1>1 DEF RunExplainsAnswer
  <1> QED
    BY <1>2, Invariance, PTL

-----------------------------------------------------------------------------
(* THE ENVIRONMENT: what a request came upon is no later than what there   *)
(* is, and what its task is given no earlier; without reload_env it is     *)
(* what there was in the beginning.                                        *)

EnvOf(q) == IF reloadEnv THEN params[q].env >= since[q] ELSE params[q].env = 0

EnvInv ==
  \A q \in Requests :
    /\ since[q] <= osEnv
    /\ pc[q] = "prepared" \/ runs[q] > 0 => EnvOf(q)

(* A step that leaves what q came upon and was given alone. *)
EnvKept(q) ==
  /\ since'[q] = since[q] /\ params'[q] = params[q]
  /\ pc'[q] = "prepared" \/ runs'[q] > 0 => pc[q] = "prepared" \/ runs[q] > 0

EnvNext(q) == since'[q] <= osEnv' /\ (pc'[q] = "prepared" \/ runs'[q] > 0 => EnvOf(q)')

LEMMA KeptEnv ==
  ASSUME IInv, EnvInv, NEW q \in Requests, EnvKept(q),
         reloadEnv' = reloadEnv, osEnv' \in Nat, osEnv <= osEnv'
  PROVE  EnvNext(q)
  <1>1. osEnv \in Nat /\ since[q] \in Nat
    BY EnvAssumption DEF IInv, TypeOK
  <1> QED
    BY <1>1 DEF EnvInv, EnvKept, EnvNext, EnvOf

LEMMA ArriveEnv ==
  ASSUME IInv, EnvInv, NEW r \in Requests, NEW e, NEW k, Arrive(r, e, k), NEW q \in Requests
  PROVE  EnvNext(q)
  <1>1. /\ reloadEnv' = reloadEnv /\ osEnv' = osEnv /\ osEnv \in Nat
        /\ UNCHANGED <<params, runs>> /\ pc[r] = "idle"
    BY EnvAssumption DEF IInv, TypeOK, Arrive, At
  <1>2. CASE q = r
    <2>1. InvOf(r)
      BY DEF IInv
    <2>2. runs'[r] = 0 /\ pc'[r] = "authorizing" /\ since'[r] = osEnv
      BY <1>1, <2>1 DEF InvOf, RequestInv, Progress, IInv, TypeOK, Arrive, At
    <2> QED
      BY <1>1, <1>2, <2>2 DEF EnvNext
  <1>3. CASE q # r
    <2>1. EnvKept(q)
      BY <1>3 DEF EnvKept, IInv, TypeOK, Arrive, At
    <2> QED
      BY <1>1, <2>1, KeptEnv
  <1> QED
    BY <1>2, <1>3

LEMMA ReadBodyEnv ==
  ASSUME IInv, EnvInv, NEW r \in Requests, NEW b, NEW failed, ReadBody(r, b, failed),
         NEW q \in Requests
  PROVE  EnvNext(q)
  <1>1. /\ reloadEnv' = reloadEnv /\ osEnv' = osEnv /\ osEnv \in Nat
        /\ UNCHANGED <<since, runs>> /\ pc[r] = "authorizing"
    <2>1. osEnv \in Nat
      BY EnvAssumption DEF IInv, TypeOK
    <2> QED
      BY <2>1 DEF ReadBody, At
  <1>2. CASE q = r
    <2>1. InvOf(r)
      BY DEF IInv
    <2>2. runs'[r] = 0 /\ pc'[r] = "preparing"
      BY <1>1, <2>1 DEF InvOf, RequestInv, Progress, IInv, TypeOK, ReadBody, At
    <2> QED
      BY <1>1, <1>2, <2>2 DEF EnvInv, EnvNext
  <1>3. CASE q # r
    <2>1. EnvKept(q)
      BY <1>3 DEF EnvKept, IInv, TypeOK, ReadBody, At
    <2> QED
      BY <1>1, <2>1, KeptEnv
  <1> QED
    BY <1>2, <1>3

LEMMA PrepareEnv ==
  ASSUME IInv, EnvInv, NEW r \in Requests, Prepare(r), NEW q \in Requests
  PROVE  EnvNext(q)
  <1>1. /\ reloadEnv' = reloadEnv /\ osEnv' = osEnv /\ osEnv \in Nat
        /\ since' = since /\ since[q] \in Nat
    BY EnvAssumption DEF IInv, TypeOK, Prepare, At
  <1>2. CASE q = r
    <2>1. params \in [Requests -> Data]
      BY DEF IInv, TypeOK
    <2>2. params'[r] = [params[r] EXCEPT !.query = QueryLevel(r), !.env = Env]
      BY <2>1 DEF Prepare
    <2>3. params'[r].env = Env
      <3> HIDE DEF Env
      <3> QED
        BY <2>1, <2>2 DEF Data
    <2> QED
      BY <1>1, <1>2, <2>3 DEF EnvInv, EnvNext, EnvOf, Env
  <1>3. CASE q # r
    <2>1. EnvKept(q)
      BY <1>3 DEF EnvKept, IInv, TypeOK, Prepare, At
    <2> QED
      BY <1>1, <2>1, KeptEnv
  <1> QED
    BY <1>2, <1>3

LEMMA OthersEnv ==
  ASSUME IInv, NEW r \in Requests, NEW q \in Requests,
         \/ NotFound(r) \/ RunTask(r) \/ ConsultNil(r) \/ Decorate(r)
         \/ WriteHeader(r) \/ WriteBody(r) \/ Backend(r)
  PROVE  EnvKept(q) /\ reloadEnv' = reloadEnv /\ osEnv' = osEnv /\ osEnv \in Nat
  <1>1. osEnv \in Nat /\ pc \in [Requests -> PCs] /\ runs \in [Requests -> Nat]
    BY EnvAssumption DEF IInv, TypeOK
  <1>2. CASE RunTask(r)
    BY <1>1, <1>2 DEF RunTask, At, EnvKept
  <1>3. CASE NotFound(r) \/ ConsultNil(r) \/ Decorate(r) \/ WriteHeader(r) \/ WriteBody(r)
    BY <1>1, <1>3 DEF NotFound, ConsultNil, Decorate, WriteHeader, WriteBody, At, EnvKept
  <1>4. CASE Backend(r)
    BY <1>1, <1>4 DEF Backend, Accept, Deny, Denied, ConsultPanics, TaskPanics, Recover,
       TaskReturns, At, EnvKept
  <1> QED
    BY <1>2, <1>3, <1>4

LEMMA EnvStep == IInv /\ EnvInv /\ [Next]_vars => EnvInv'
  <1> SUFFICES ASSUME IInv, EnvInv, [Next]_vars, NEW q \in Requests PROVE EnvNext(q)
    BY DEF EnvInv, EnvNext
  <1>1. osEnv \in Nat
    BY EnvAssumption DEF IInv, TypeOK
  <1>2. CASE EnvChanges \/ UNCHANGED vars
    <2>1. EnvKept(q) /\ reloadEnv' = reloadEnv /\ osEnv' \in Nat /\ osEnv <= osEnv'
      BY <1>1, <1>2 DEF EnvChanges, vars, request, EnvKept
    <2> QED
      BY <2>1, KeptEnv
  <1>3. ASSUME NEW r \in Requests,
               \/ NotFound(r) \/ RunTask(r) \/ ConsultNil(r) \/ Decorate(r)
               \/ WriteHeader(r) \/ WriteBody(r) \/ Backend(r)
        PROVE  EnvNext(q)
    <2>1. EnvKept(q) /\ reloadEnv' = reloadEnv /\ osEnv' = osEnv
      BY <1>3, OthersEnv
    <2> QED
      BY <1>1, <2>1, KeptEnv
  <1> QED
    BY <1>2, <1>3, ArriveEnv, ReadBodyEnv, PrepareEnv DEF Next, Requested, Local

(* Without reload_env all tasks are given one environment; with it none is *)
(* given one older than its request came upon.                             *)
THEOREM EnvironmentsAreFresh == Spec => []EnvFresh
  <1>1. ASSUME Init, NEW q \in Requests
        PROVE  since[q] <= osEnv /\ ~(pc[q] = "prepared" \/ runs[q] > 0)
    <2>1. since = [r \in Requests |-> 0] /\ osEnv = 0
      BY <1>1 DEF Init
    <2>2. pc = [r \in Requests |-> "idle"] /\ runs = [r \in Requests |-> 0]
      BY <1>1 DEF Init
    <2> QED
      BY <2>1, <2>2
  <1>3. Init => EnvInv
    BY <1>1 DEF EnvInv
  <1>2. IInv /\ EnvInv => EnvFresh
    BY DEF EnvInv, EnvOf, EnvFresh
  <1> QED
    BY <1>3, <1>2, EnvStep, Invariance, PTL DEF Spec

-----------------------------------------------------------------------------
(* REFINEMENT: every step of a handler is one step of the exchange, or one *)
(* the exchange does not see.                                              *)

StatusOf(q) == IF wire[q] = <<>> THEN NoAnswer ELSE wire[q][1].status
stages  == [q \in Requests |-> Stage(q)]
answers == [q \in Requests |-> StatusOf(q)]

(* A step of q changes at most the view of q. *)
LEMMA ViewOfOne ==
  ASSUME NEW q \in Requests, OthersKept(q)
  PROVE  /\ stages[q] = Stage(q)
         /\ stages' = [stages EXCEPT ![q] = Stage(q)']
         /\ answers' = [answers EXCEPT ![q] = StatusOf(q)']
  <1>1. \A p \in Requests \ {q} : Stage(p)' = Stage(p) /\ StatusOf(p)' = StatusOf(p)
    BY DEF OthersKept, Stage, StatusOf
  <1> QED
    BY <1>1 DEF stages, answers

LEMMA SameView ==
  ASSUME NEW q \in Requests, OthersKept(q), Stage(q)' = Stage(q), StatusOf(q)' = StatusOf(q)
  PROVE  stages' = stages /\ answers' = answers
  BY ViewOfOne DEF stages, answers

LEMMA MoveView ==
  ASSUME NEW q \in Requests, OthersKept(q), StatusOf(q)' = StatusOf(q)
  PROVE  Abstract!Move(q, Stage(q), Stage(q)')
  <1>1. stages[q] = Stage(q) /\ stages' = [stages EXCEPT ![q] = Stage(q)'] /\ answers' = answers
    BY ViewOfOne DEF answers
  <1> QED
    BY <1>1 DEF Abstract!Move, stages, answers, StatusOf

LEMMA CloseView ==
  ASSUME NEW q \in Requests, OthersKept(q), Stage(q)' = "closed",
         NEW S, StatusOf(q)' \in S
  PROVE  Abstract!Close(q, Stage(q), S)
  <1>1. /\ stages[q] = Stage(q) /\ stages' = [stages EXCEPT ![q] = "closed"]
        /\ answers' = [answers EXCEPT ![q] = StatusOf(q)']
    BY ViewOfOne
  <1> QED
    BY <1>1 DEF Abstract!Close, stages, answers, StatusOf

(* The view of a handler, by where it is. *)
ViewOf(p, e, r, rep, stg, st) ==
  /\ p \in {"authorizing", "preparing", "prepared"} => stg = "open"
  /\ p = "idle" => stg = "new"
  /\ p = "running" => stg = "allowed"
  /\ p = "decorating" => stg = "done"
  /\ p = "writing" =>
       stg = IF r = 1 THEN "done" ELSE IF e = NoEndpoint THEN "new" ELSE "open"
  /\ p \in {"encoding", "answered"} => stg = "closed" /\ st = rep.status
  /\ p \notin {"encoding", "answered"} => st = NoAnswer

View(q) == ViewOf(pc[q], endpoint[q], runs[q], reply[q], Stage(q), StatusOf(q))

LEMMA ViewShape ==
  ASSUME NEW p, NEW e, NEW k, NEW r, NEW rep, NEW w,
         Progress(p, e, k, r), Answer(p, e, r, rep, w)
  PROVE  ViewOf(p, e, r, rep,
                IF p \in {"encoding", "answered"} THEN "closed"
                ELSE IF r > 0 THEN (IF p = "running" THEN "allowed" ELSE "done")
                ELSE IF e = NoEndpoint THEN "new" ELSE "open",
                IF w = <<>> THEN NoAnswer ELSE w[1].status)
  <1>1. p \in {"encoding", "answered"} => w # <<>> /\ w[1] = Header(rep)
    <2>1. CASE p = "encoding"
      BY <2>1, SingletonShape DEF Answer
    <2>2. CASE p = "answered"
      BY <2>2 DEF Answer
    <2> QED
      BY <2>1, <2>2
  <1>2. Header(rep).status = rep.status
    BY DEF Header
  <1> QED
    BY <1>1, <1>2 DEF Progress, Answer, ViewOf

LEMMA ViewNow ==
  ASSUME IInv, NEW q \in Requests
  PROVE  View(q)
  <1>1. InvOf(q)
    BY DEF IInv
  <1> QED
    BY <1>1, ViewShape DEF InvOf, RequestInv, View, Stage, StatusOf

LEMMA ViewNext ==
  ASSUME IInv', NEW q \in Requests
  PROVE  View(q)'
  <1>1. InvOf(q)'
    BY DEF IInv
  <1> QED
    BY <1>1, ViewShape DEF InvOf, RequestInv, View, Stage, StatusOf

(* The steps of one handler, from where it is to where it goes. *)
LEMMA ViewMoves ==
  ASSUME IInv, IInv', NEW q \in Requests, OthersKept(q),
         \/ pc[q] = "idle" /\ pc'[q] = "authorizing"
         \/ pc[q] = "prepared" /\ pc'[q] = "running"
         \/ pc[q] = "running" /\ pc'[q] = "decorating"
         \/ pc[q] = "running" /\ pc'[q] = "writing" /\ runs'[q] = 1
  PROVE  Abstract!XNext
  <1>1. StatusOf(q) = NoAnswer /\ StatusOf(q)' = NoAnswer
    BY ViewNow, ViewNext DEF View, ViewOf
  <1>2. Abstract!Move(q, Stage(q), Stage(q)')
    BY <1>1, MoveView
  <1>3. \/ Stage(q) = "new" /\ Stage(q)' = "open"
        \/ Stage(q) = "open" /\ Stage(q)' = "allowed"
        \/ Stage(q) = "allowed" /\ Stage(q)' = "done"
    BY ViewNow, ViewNext DEF View, ViewOf
  <1>4. Abstract!Open(q) \/ Abstract!Allow(q) \/ Abstract!Execute(q)
    BY <1>2, <1>3 DEF Abstract!Open, Abstract!Allow, Abstract!Execute
  <1> QED
    BY <1>4 DEF Abstract!XNext

LEMMA ViewCloses ==
  ASSUME IInv, IInv', NEW q \in Requests, OthersKept(q),
         pc[q] = "writing", pc'[q] = "encoding", reply'[q] = reply[q]
  PROVE  Abstract!XNext
  <1>1. Stage(q)' = "closed" /\ StatusOf(q)' = reply[q].status
    BY ViewNext DEF View, ViewOf
  <1>2. /\ runs[q] \in {0, 1}
        /\ runs[q] = 0 => /\ reply[q].status \in {401, 404, 500}
                          /\ reply[q].status = 404 <=> endpoint[q] = NoEndpoint
    <2>1. InvOf(q)
      BY DEF IInv
    <2> QED
      BY <2>1 DEF InvOf, RequestInv, Progress, Answer
  <1>3. reply[q].status \in Statuses
    <2>1. reply[q] \in Replies
      BY DEF IInv, TypeOK
    <2> QED
      BY <2>1 DEF Replies
  <1>4. \A S : reply[q].status \in S => Abstract!Close(q, Stage(q), S)
    BY <1>1, CloseView
  <1>5. Abstract!Miss(q) \/ Abstract!Refuse(q) \/ Abstract!Reply(q)
    <2>1. CASE runs[q] = 1
      <3>1. Stage(q) = "done"
        BY <2>1, ViewNow DEF View, ViewOf
      <3> QED
        BY <1>3, <1>4, <3>1 DEF Abstract!Reply
    <2>2. CASE runs[q] = 0 /\ endpoint[q] = NoEndpoint
      <3>1. Stage(q) = "new" /\ reply[q].status \in {404}
        BY <1>2, <2>2, ViewNow DEF View, ViewOf
      <3> QED
        BY <1>4, <3>1 DEF Abstract!Miss
    <2>3. CASE runs[q] = 0 /\ endpoint[q] # NoEndpoint
      <3>1. Stage(q) = "open" /\ reply[q].status \in {401, 500}
        BY <1>2, <2>3, ViewNow DEF View, ViewOf
      <3> QED
        BY <1>4, <3>1 DEF Abstract!Refuse
    <2> QED
      BY <1>2, <2>1, <2>2, <2>3
  <1> QED
    BY <1>5 DEF Abstract!XNext

LEMMA ViewRests ==
  ASSUME IInv, IInv', NEW q \in Requests, OthersKept(q),
         endpoint'[q] = endpoint[q], runs'[q] = runs[q],
         \/ pc[q] = "idle" /\ pc'[q] = "writing" /\ runs[q] = 0
         \/ pc[q] = "authorizing" /\ pc'[q] \in {"authorizing", "preparing", "writing"}
         \/ pc[q] = "preparing" /\ pc'[q] = "prepared"
         \/ pc[q] = "decorating" /\ pc'[q] = "writing"
         \/ pc[q] = "encoding" /\ pc'[q] = "answered" /\ reply'[q] = reply[q]
  PROVE  UNCHANGED Abstract!xvars
  <1>1. InvOf(q)
    BY DEF IInv
  <1>2. Progress(pc[q], endpoint[q], key[q], runs[q])
    BY <1>1 DEF InvOf, RequestInv
  <1>3. Stage(q)' = Stage(q)
    BY <1>2, ViewNow, ViewNext DEF Progress, View, ViewOf
  <1>4. StatusOf(q)' = StatusOf(q)
    BY ViewNow, ViewNext DEF View, ViewOf
  <1>5. stages' = stages /\ answers' = answers
    BY <1>3, <1>4, SameView
  <1> QED
    BY <1>5 DEF Abstract!xvars, stages, answers, StatusOf

(* The steps of one handler, as the exchange sees them. *)
LEMMA HandlerViewed ==
  ASSUME IInv, IInv', NEW q \in Requests, Requested(q) \/ Local(q) \/ Backend(q)
  PROVE  Abstract!XNext \/ UNCHANGED Abstract!xvars
  <1> USE DEF IInv, TypeOK, At, Respond, OthersKept
  <1>1. CASE NotFound(q)
    <2>1. InvOf(q) /\ pc[q] = "idle"
      BY <1>1 DEF NotFound
    <2>2. runs[q] = 0
      BY <2>1 DEF InvOf, RequestInv, Progress
    <2>3. /\ OthersKept(q) /\ pc'[q] = "writing"
          /\ endpoint'[q] = endpoint[q] /\ runs'[q] = runs[q]
      BY <1>1 DEF NotFound
    <2> QED
      BY <2>1, <2>2, <2>3, ViewRests
  <1>2. ASSUME NEW e \in Endpoints, NEW k \in Keys, Arrive(q, e, k) PROVE Abstract!XNext
    <2>1. OthersKept(q) /\ pc[q] = "idle" /\ pc'[q] = "authorizing"
      BY <1>2 DEF Arrive
    <2> QED
      BY <2>1, ViewMoves
  <1>3. CASE Accept(q) \/ Deny(q) \/ ConsultPanics(q) \/ ConsultNil(q)
    <2>1. /\ OthersKept(q) /\ pc[q] = "authorizing" /\ pc'[q] \in {"authorizing", "writing"}
          /\ endpoint'[q] = endpoint[q] /\ runs'[q] = runs[q]
      BY <1>3 DEF Accept, Deny, Denied, ConsultPanics, ConsultNil, Consult
    <2> QED
      BY <2>1, ViewRests
  <1>4. ASSUME NEW b \in Bodies, NEW failed \in BOOLEAN, ReadBody(q, b, failed)
        PROVE  UNCHANGED Abstract!xvars
    <2>1. /\ OthersKept(q) /\ pc[q] = "authorizing" /\ pc'[q] = "preparing"
          /\ endpoint'[q] = endpoint[q] /\ runs'[q] = runs[q]
      BY <1>4 DEF ReadBody
    <2> QED
      BY <2>1, ViewRests
  <1>5. CASE RunTask(q)
    <2>1. OthersKept(q) /\ pc[q] = "prepared" /\ pc'[q] = "running"
      BY <1>5 DEF RunTask
    <2> QED
      BY <2>1, ViewMoves
  <1>6. ASSUME NEW s \in TaskStatuses, NEW r \in Results, TaskReturns(q, s, r)
        PROVE  Abstract!XNext
    <2>1. OthersKept(q) /\ pc[q] = "running" /\ pc'[q] = "decorating"
      BY <1>6 DEF TaskReturns
    <2> QED
      BY <2>1, ViewMoves
  <1>7. CASE TaskPanics(q)
    <2>1. /\ OthersKept(q) /\ pc[q] = "running" /\ pc'[q] = "writing"
          /\ InvOf(q) /\ runs'[q] = runs[q]
      BY <1>7 DEF TaskPanics, Recover
    <2>2. runs'[q] = 1
      BY <2>1 DEF InvOf, RequestInv, Progress
    <2> QED
      BY <2>1, <2>2, ViewMoves
  <1>8. CASE Decorate(q)
    <2>1. /\ OthersKept(q) /\ pc[q] = "decorating" /\ pc'[q] = "writing"
          /\ endpoint'[q] = endpoint[q] /\ runs'[q] = runs[q]
      BY <1>8 DEF Decorate
    <2> QED
      BY <2>1, ViewRests
  <1>9. CASE WriteHeader(q)
    <2>1. /\ OthersKept(q) /\ pc[q] = "writing" /\ pc'[q] = "encoding"
          /\ reply'[q] = reply[q]
      BY <1>9 DEF WriteHeader
    <2> QED
      BY <2>1, ViewCloses
  <1>10. CASE WriteBody(q)
    <2>1. /\ OthersKept(q) /\ pc[q] = "encoding" /\ pc'[q] = "answered"
          /\ endpoint'[q] = endpoint[q] /\ runs'[q] = runs[q] /\ reply'[q] = reply[q]
      BY <1>10 DEF WriteBody
    <2> QED
      BY <2>1, ViewRests
  <1>11. CASE Prepare(q)
    <2>1. /\ OthersKept(q) /\ pc[q] = "preparing" /\ pc'[q] = "prepared"
          /\ endpoint'[q] = endpoint[q] /\ runs'[q] = runs[q]
      BY <1>11 DEF Prepare
    <2> QED
      BY <2>1, ViewRests
  <1> QED
    BY <1>1, <1>2, <1>3, <1>4, <1>5, <1>6, <1>7, <1>8, <1>9, <1>10, <1>11
    DEF Requested, Local, Backend

LEMMA StepViewed ==
  ASSUME IInv, IInv', [Next]_vars
  PROVE  [Abstract!XNext]_Abstract!xvars
  <1>1. CASE EnvChanges \/ UNCHANGED vars
    BY <1>1 DEF EnvChanges, vars, request, Abstract!xvars, Stage
  <1>2. ASSUME NEW q \in Requests, Requested(q) \/ Local(q) \/ Backend(q)
        PROVE  Abstract!XNext \/ UNCHANGED Abstract!xvars
    BY <1>2, HandlerViewed
  <1> QED
    BY <1>1, <1>2 DEF Next

(* The handler implements the exchange: whatever the configuration, the    *)
(* number of requests and the answers of authorizers and tasks, a request  *)
(* is answered once, either refused without its task having run or with    *)
(* what came of running it once.                                           *)
THEOREM Implements == Spec => Refinement
  <1>1. ASSUME Init PROVE Abstract!XInit
    <2>1. ASSUME NEW q \in Requests PROVE Stage(q) = "new" /\ wire[q] = <<>>
      <3>1. pc[q] = "idle" /\ endpoint[q] = NoEndpoint /\ runs[q] = 0 /\ wire[q] = <<>>
        BY <1>1 DEF Init
      <3> QED
        BY <3>1 DEF Stage
    <2> QED
      BY <2>1 DEF Abstract!XInit
  <1>2. IInv /\ IInv' /\ [Next]_vars => [Abstract!XNext]_Abstract!xvars
    BY StepViewed
  <1> QED
    BY <1>1, <1>2, Invariance, PTL DEF Spec, Refinement, Abstract!XSpec

-----------------------------------------------------------------------------
(* HOW LONG A HANDLER CAN TAKE *)

Ahead == [idle |-> 8, authorizing |-> 7, preparing |-> 6, prepared |-> 5, running |-> 4,
          decorating |-> 3, writing |-> 2, encoding |-> 1, answered |-> 0]

(* Steps a handler has left at most, once it knows whom to consult. *)
StepsLeft(q) == Ahead[pc[q]] + (IF pc[q] = "authorizing" THEN Len(check[q]) ELSE 0)

Untouched(q) ==
  /\ UNCHANGED <<pc[q], endpoint[q], key[q], since[q], check[q], consulted[q]>>
  /\ UNCHANGED <<read[q], params[q], runs[q], reply[q], wire[q]>>

TakesFewSteps ==
  [][\A q \in Requests :
       \/ Untouched(q)
       \/ pc[q] = "idle"
       \/ StepsLeft(q)' \in Nat /\ StepsLeft(q)' < StepsLeft(q)]_vars

(* Past the consultations each step is one of the seven. *)
LEMMA ForwardStep ==
  ASSUME IInv, IInv', NEW q \in Requests, pc[q] # "idle", pc'[q] # "authorizing",
         Ahead[pc'[q]] < Ahead[pc[q]]
  PROVE  StepsLeft(q)' \in Nat /\ StepsLeft(q)' < StepsLeft(q)
  <1>1. /\ pc[q] \in PCs /\ pc'[q] \in PCs /\ Len(check[q]) \in Nat
    BY DEF IInv, TypeOK
  <1>2. Ahead[pc[q]] \in Nat /\ Ahead[pc'[q]] \in Nat
    BY <1>1 DEF PCs, Ahead
  <1> HIDE DEF Ahead
  <1> QED
    BY <1>1, <1>2 DEF StepsLeft

LEMMA AcceptStep ==
  ASSUME IInv, NEW q \in Requests, Accept(q)
  PROVE  StepsLeft(q)' \in Nat /\ StepsLeft(q)' < StepsLeft(q)
  <1>1. /\ pc[q] = "authorizing" /\ pc'[q] = "authorizing" /\ check[q] # <<>>
        /\ check[q] \in Seq(Names) /\ check'[q] = Tail(check[q])
    BY DEF IInv, TypeOK, Accept, At, Consult
  <1>2. Len(check'[q]) \in Nat /\ Len(check'[q]) < Len(check[q]) /\ Len(check[q]) \in Nat
    BY <1>1
  <1>3. Ahead[pc[q]] = 7 /\ Ahead[pc'[q]] = 7
    BY <1>1 DEF Ahead
  <1> QED
    BY <1>1, <1>2, <1>3 DEF StepsLeft

(* A handler consults each authorizer once and then takes at most seven    *)
(* steps: whatever comes of it, nothing is repeated, so a request whose    *)
(* authorizers and task return is answered.                                *)
THEOREM HandlersEnd == Spec => TakesFewSteps
  <1> DEFINE fewer(q) == Untouched(q) \/ pc[q] = "idle"
                         \/ (StepsLeft(q)' \in Nat /\ StepsLeft(q)' < StepsLeft(q))
  <1>1. ASSUME IInv, IInv', [Next]_vars, NEW q \in Requests
        PROVE  fewer(q)
    <2>1. CASE UNCHANGED vars \/ EnvChanges
      BY <2>1 DEF vars, EnvChanges, request, Untouched
    <2>2. ASSUME NEW r \in Requests, r # q, Requested(r) \/ Local(r) \/ Backend(r)
          PROVE  Untouched(q)
      <3> TypeOK
        BY <1>1 DEF IInv
      <3> USE DEF TypeOK, Untouched, At
      <3>1. CASE Requested(r)
        BY <2>2, <3>1 DEF Requested, NotFound, Arrive, Respond
      <3>2. CASE Backend(r)
        <4>1. CASE Accept(r) \/ Deny(r) \/ ConsultPanics(r)
          BY <2>2, <4>1 DEF Accept, Deny, Denied, ConsultPanics, Consult, Respond
        <4>2. CASE TaskPanics(r) \/ \E s \in TaskStatuses, v \in Results : TaskReturns(r, s, v)
          BY <2>2, <4>2 DEF TaskPanics, Recover, TaskReturns, Respond
        <4> QED
          BY <3>2, <4>1, <4>2 DEF Backend
      <3>3. CASE Local(r)
        <4>1. CASE ConsultNil(r)
          BY <2>2, <4>1 DEF ConsultNil, Respond
        <4>2. ASSUME NEW failed \in BOOLEAN, NEW b \in Bodies, ReadBody(r, b, failed)
              PROVE  Untouched(q)
          BY <2>2, <4>2 DEF ReadBody
        <4>3. CASE Prepare(r) \/ RunTask(r)
          BY <2>2, <4>3 DEF Prepare, RunTask
        <4>4. CASE Decorate(r)
          BY <2>2, <4>4 DEF Decorate, Respond
        <4>5. CASE WriteHeader(r) \/ WriteBody(r)
          BY <2>2, <4>5 DEF WriteHeader, WriteBody
        <4> QED
          BY <3>3, <4>1, <4>2, <4>3, <4>4, <4>5 DEF Local
      <3> QED
        BY <2>2, <3>1, <3>2, <3>3
    <2>3. CASE Requested(q)
      BY <2>3 DEF Requested, NotFound, Arrive, At
    <2>4. CASE Accept(q)
      BY <1>1, <2>4, AcceptStep
    <2>5. CASE Local(q) \/ (Backend(q) /\ ~Accept(q))
      <3>1. /\ pc[q] # "idle" /\ pc'[q] # "authorizing"
            /\ Ahead[pc'[q]] < Ahead[pc[q]]
        <4>1. pc \in [Requests -> PCs]
          BY <1>1 DEF IInv, TypeOK
        <4>2. \/ pc[q] = "authorizing" /\ pc'[q] \in {"writing", "preparing"}
              \/ pc[q] = "preparing" /\ pc'[q] = "prepared"
              \/ pc[q] = "prepared" /\ pc'[q] = "running"
              \/ pc[q] = "running" /\ pc'[q] \in {"decorating", "writing"}
              \/ pc[q] = "decorating" /\ pc'[q] = "writing"
              \/ pc[q] = "writing" /\ pc'[q] = "encoding"
              \/ pc[q] = "encoding" /\ pc'[q] = "answered"
          BY <2>5, <4>1
          DEF Local, Backend, Deny, Denied, ConsultPanics, ConsultNil, ReadBody, Prepare,
              RunTask, TaskReturns, TaskPanics, Recover, Decorate, WriteHeader, WriteBody, At
        <4> QED
          BY <4>2 DEF Ahead
      <3> QED
        BY <1>1, <3>1, ForwardStep
    <2> QED
      BY <1>1, <2>1, <2>2, <2>3, <2>4, <2>5 DEF Next
  <1>2. IInv /\ IInv' /\ [Next]_vars => (\A q \in Requests : fewer(q))
    BY <1>1
  <1>3. IInv /\ IInv' /\ [Next]_vars =>
          (\A q \in Requests :
             \/ Untouched(q)
             \/ pc[q] = "idle"
             \/ StepsLeft(q)' \in Nat /\ StepsLeft(q)' < StepsLeft(q))
    BY <1>2
  <1>4. Spec => [][Next]_vars
    BY PTL DEF Spec
  <1> QED
    BY <1>3, <1>4, Invariance, PTL DEF TakesFewSteps

-----------------------------------------------------------------------------
(* WHAT TEMPLATES SEE OF THE BODY *)

BodySeen(q) == params[q].body = IF read[q] = "whole" THEN "" ELSE read[q]

TemplatesSeeNoWholeBody == \A q \in Requests : runs[q] > 0 => BodySeen(q)

HasBody(q) == pc[q] \in {"preparing", "prepared"} \/ runs[q] > 0

BodyInv == \A q \in Requests : HasBody(q) => BodySeen(q)

LEMMA BodyStep == IInv /\ BodyInv /\ [Next]_vars => BodyInv'
  <1> SUFFICES ASSUME IInv, BodyInv, [Next]_vars, NEW q \in Requests,
                      HasBody(q)'
               PROVE  BodySeen(q)'
    BY DEF BodyInv
  <1>1. pc \in [Requests -> PCs] /\ params \in [Requests -> Data] /\ read \in [Requests -> Bodies]
        /\ runs \in [Requests -> Nat] /\ InvOf(q)
    BY DEF IInv, TypeOK
  <1>2. CASE UNCHANGED <<read, params>> /\ HasBody(q)
    BY <1>2 DEF BodyInv, BodySeen
  <1>3. CASE UNCHANGED vars \/ EnvChanges
    BY <1>2, <1>3 DEF vars, EnvChanges, request, HasBody
  <1>4. ASSUME NEW r \in Requests, Requested(r) \/ Backend(r) PROVE BodySeen(q)'
    <2>1. UNCHANGED <<read, params>> /\ HasBody(q)
      BY <1>1, <1>4 DEF Requested, Backend, NotFound, Arrive, Accept, Deny, Denied, ConsultPanics,
         TaskReturns, TaskPanics, Recover, At, HasBody
    <2> QED
      BY <1>2, <2>1
  <1>5. ASSUME NEW r \in Requests, RunTask(r) \/ ConsultNil(r) \/ Decorate(r) \/ WriteHeader(r) \/ WriteBody(r)
        PROVE  BodySeen(q)'
    <2>1. UNCHANGED <<read, params>> /\ HasBody(q)
      BY <1>1, <1>5 DEF RunTask, ConsultNil, Decorate, WriteHeader, WriteBody, At, HasBody
    <2> QED
      BY <1>2, <2>1
  <1>6. ASSUME NEW r \in Requests, NEW failed \in BOOLEAN, NEW b \in Bodies, ReadBody(r, b, failed)
        PROVE  BodySeen(q)'
    <2>1. CASE r = q
      <3>1. /\ read'[q] = b /\ params'[q] = [NoData EXCEPT !.body = BodyVar(b, failed)]
            /\ b \in (IF failed THEN {"", "part"} ELSE {"", "whole"})
        BY <1>1, <1>6, <2>1 DEF ReadBody
      <3>2. params'[q].body = BodyVar(b, failed)
        BY <3>1 DEF NoData
      <3> QED
        BY <3>1, <3>2 DEF BodySeen, BodyVar
    <2>2. CASE r # q
      <3>1. read'[q] = read[q] /\ params'[q] = params[q] /\ runs'[q] = runs[q] /\ pc'[q] = pc[q]
        BY <1>1, <1>6, <2>2 DEF ReadBody, At
      <3> QED
        BY <3>1 DEF BodyInv, BodySeen, HasBody
    <2> QED
      BY <2>1, <2>2
  <1>7. ASSUME NEW r \in Requests, Prepare(r) PROVE BodySeen(q)'
    <2>1. CASE r = q
      <3>1. /\ pc[q] = "preparing" /\ read'[q] = read[q]
            /\ params'[q] = [params[q] EXCEPT !.query = QueryLevel(q), !.env = Env]
        BY <1>1, <1>7, <2>1 DEF Prepare, At
      <3> HIDE DEF QueryLevel, Env
      <3>2. params'[q].body = params[q].body
        BY <1>1, <3>1 DEF Data
      <3> QED
        BY <3>1, <3>2 DEF BodyInv, BodySeen, HasBody
    <2>2. CASE r # q
      <3>1. read'[q] = read[q] /\ params'[q] = params[q] /\ runs'[q] = runs[q] /\ pc'[q] = pc[q]
        BY <1>1, <1>7, <2>2 DEF Prepare, At
      <3> QED
        BY <3>1 DEF BodyInv, BodySeen, HasBody
    <2> QED
      BY <2>1, <2>2
  <1> QED
    BY <1>3, <1>4, <1>5, <1>6, <1>7 DEF Next, Local, HasBody

(* A template sees a body that could only be read in part as it was read,  *)
(* and never sees one that was read to its end.                            *)
THEOREM WholeBodiesUnseen == Spec => []TemplatesSeeNoWholeBody
  <1>1. Init => BodyInv
    <2>1. Init => \A q \in Requests : pc[q] = "idle" /\ runs[q] = 0
      BY DEF Init
    <2> QED
      BY <2>1 DEF BodyInv, HasBody
  <1>2. Spec => []BodyInv
    BY <1>1, BodyStep, Invariance, PTL DEF Spec
  <1>3. BodyInv => TemplatesSeeNoWholeBody
    BY DEF BodyInv, HasBody, TemplatesSeeNoWholeBody
  <1> QED
    BY <1>2, <1>3, PTL
=============================================================================
