---------------------------- MODULE StartupProofs ----------------------------
(* What routes and its two recursive factories guarantee for every         *)
(* configuration file, every order of ranging over its maps and every      *)
(* depth of embedding.                                                     *)
EXTENDS Startup, LeastNumber, TLAPS

-----------------------------------------------------------------------------
(* THE INDUCTIVE INVARIANT *)

Methods(c, i) == c.endpoints[i].methods

(* A frame in the middle of routes: what is left and what runs belongs to  *)
(* the endpoint the outer loop is at.                                      *)
Placed(c, f) ==
  /\ f.ep <= Len(c.endpoints)
  /\ f.ep = 0 => f.todo = {} /\ f.cur = NoKey
  /\ f.ep > 0 => /\ f.todo \subseteq DOMAIN Methods(c, f.ep)
                 /\ f.cur # NoKey => f.cur \in DOMAIN Methods(c, f.ep)
  /\ f.cur \notin f.todo
  /\ f.cur = NoKey => f.work = <<>>

(* The methods whose turn in f is over. *)
Past(f, i, k) == i < f.ep \/ (i = f.ep /\ k \notin f.todo /\ k # f.cur)

InfoAt(c, i) == \E k \in DOMAIN Methods(c, i) : WrittenAs(Methods(c, i)[k], "info")

(* The result so far: routes of past methods only, none twice, in order,   *)
(* none of an info task if those are ignored, and all of them but for the  *)
(* endpoints an ignored task makes the loop leave.                         *)
OnlyPast(c, f) ==
  \A j \in DOMAIN f.out :
    /\ f.out[j].ep > 0
    /\ f.out[j].method \in DOMAIN Methods(c, f.out[j].ep)
    /\ Past(f, f.out[j].ep, f.out[j].method)
NoneTwice(f) ==
  \A j1, j2 \in DOMAIN f.out :
    f.out[j1].ep = f.out[j2].ep /\ f.out[j1].method = f.out[j2].method => j1 = j2
InOrder(f) ==
  \A j1, j2 \in DOMAIN f.out : j1 < j2 => f.out[j1].ep <= f.out[j2].ep
NoInfo(c, f) ==
  f.ignoring =>
    /\ \A j \in DOMAIN f.out : ~WrittenAs(Methods(c, f.out[j].ep)[f.out[j].method], "info")
    /\ f.cur # NoKey => ~WrittenAs(Methods(c, f.ep)[f.cur], "info")
AllPast(c, f) ==
  \A i \in DOMAIN c.endpoints : \A k \in DOMAIN Methods(c, i) :
    Past(f, i, k) /\ ~(f.ignoring /\ InfoAt(c, i)) =>
      \E j \in DOMAIN f.out : f.out[j].ep = i /\ f.out[j].method = k

Table(c, f) == OnlyPast(c, f) /\ NoneTwice(f) /\ InOrder(f) /\ NoInfo(c, f) /\ AllPast(c, f)

(* In a plain configuration no frame has an info task to build but the     *)
(* outermost one.                                                          *)
FramePlain(f) ==
  \A n \in DOMAIN f.work :
    /\ f.work[n].task \in PlainTasks
    /\ f.work[n].embedded \/ f.ignoring => TaskConf[f.work[n].task].type # "info"

PlainFile(c) ==
  \A i \in DOMAIN c.endpoints : \A k \in DOMAIN Methods(c, i) : Methods(c, i)[k] \in PlainTasks

FrameInv(c, f) ==
  /\ f \in Frames
  /\ Placed(c, f)
  /\ Table(c, f)
  /\ PlainFile(c) => FramePlain(f)

StackInv ==
  /\ phase = "building" <=> stack # <<>>
  /\ \A n \in DOMAIN stack :
       /\ FrameInv(config, stack[n])
       /\ stack[n].ignoring <=> n # 1
       /\ n # Len(stack) => stack[n].work # <<>>

(* What a finished activation returned. *)
Returned(c, out, ignoring) ==
  /\ out \in Seq(Routes)
  /\ \E f \in Frames : /\ f.ep = Len(c.endpoints) /\ f.todo = {} /\ f.cur = NoKey
                       /\ f.out = out /\ f.ignoring = ignoring
                       /\ Table(c, f)

IInv ==
  /\ TypeOK
  /\ StackInv
  /\ phase = "routed" => Returned(config, routes, FALSE)
  /\ \A l \in listings : Returned(config, l, TRUE)
  /\ BoundedActivations

-----------------------------------------------------------------------------
(* LEMMAS ABOUT THE DATA *)

(* Every method of every endpoint of a configuration file is a task of it. *)
LEMMA FileShape ==
  ASSUME NEW c \in ConfigFiles, NEW i \in DOMAIN c.endpoints
  PROVE  /\ DOMAIN c.endpoints = 1..Len(c.endpoints)
         /\ Len(c.endpoints) \in Nat
         /\ DOMAIN Methods(c, i) \subseteq Keys
         /\ \A k \in DOMAIN Methods(c, i) : Methods(c, i)[k] \in TaskIds
  <1>1. c.endpoints \in Seq(Endpoints)
    BY DEF ConfigFiles
  <1>2. c.endpoints[i] \in Endpoints
    BY <1>1
  <1>3. PICK K \in SUBSET Keys : c.endpoints[i].methods \in [K -> TaskIds]
    BY <1>2 DEF Endpoints
  <1> QED
    BY <1>1, <1>3 DEF Methods

LEMMA TaskShape ==
  ASSUME NEW t \in TaskIds
  PROVE  /\ TaskConf[t] \in TaskConfigs
         /\ TaskConf[t].tasks \in Seq(TaskIds)
         /\ TaskConf[t].padded \in BOOLEAN
  BY TaskConfAssumption DEF TaskConfigs

(* The items a multi task adds are its embedded tasks, marked as such. *)
LEMMA EmbeddedShape ==
  ASSUME NEW t \in TaskIds
  PROVE  /\ Embedded(t) \in Seq(Items)
         /\ Len(Embedded(t)) = Len(TaskConf[t].tasks)
         /\ \A n \in 1..Len(TaskConf[t].tasks) :
              Embedded(t)[n] = [task |-> TaskConf[t].tasks[n], embedded |-> TRUE]
  <1>1. TaskConf[t].tasks \in Seq(TaskIds)
    BY TaskShape
  <1>2. DOMAIN TaskConf[t].tasks = 1..Len(TaskConf[t].tasks) /\ Len(TaskConf[t].tasks) \in Nat
    BY <1>1
  <1>3. \A n \in 1..Len(TaskConf[t].tasks) : TaskConf[t].tasks[n] \in TaskIds
    BY <1>1
  <1> QED
    BY <1>2, <1>3 DEF Embedded, Items

LEMMA OutShape ==
  ASSUME NEW f \in Frames
  PROVE  /\ f.out \in Seq(Routes)
         /\ Len(f.out) \in Nat /\ DOMAIN f.out = 1..Len(f.out)
         /\ \A j \in DOMAIN f.out : /\ f.out[j].ep \in Nat
                                     /\ f.out[j].method \in Keys
  <1>1. f.out \in Seq(Routes)
    BY DEF Frames
  <1>2. Len(f.out) \in Nat /\ DOMAIN f.out = 1..Len(f.out)
    BY <1>1
  <1>3. \A j \in DOMAIN f.out : f.out[j] \in Routes
    BY <1>1
  <1> QED
    BY <1>1, <1>2, <1>3 DEF Routes

LEMMA Predecessor ==
  ASSUME NEW n \in Nat, n > 1
  PROVE  /\ n - 1 \in 1..n /\ n - 1 \in 1..(n - 1) /\ n - 1 # n /\ n - 1 \in Nat
         /\ n - 1 <= n
         /\ \A i \in 1..(n - 1) : i \in 1..n /\ (i # n - 1 => i # n) /\ i # n
  OBVIOUS

LEMMA Singleton ==
  ASSUME NEW S, NEW x \in S
  PROVE  /\ <<x>> \in Seq(S) /\ DOMAIN <<x>> = {1} /\ Len(<<x>>) = 1
         /\ <<x>>[1] = x /\ <<x>> # <<>>
  OBVIOUS

LEMMA ConcatShape ==
  ASSUME NEW S, NEW a \in Seq(S), NEW b \in Seq(S)
  PROVE  /\ a \o b \in Seq(S) /\ Len(a) \in Nat
         /\ \A n \in DOMAIN (a \o b) :
              \/ n \in 1..Len(a) /\ (a \o b)[n] = a[n]
              \/ n - Len(a) \in DOMAIN b /\ (a \o b)[n] = b[n - Len(a)]
  OBVIOUS

(* The result stays right when no method's turn ends that owes a route. *)
LEMMA TableKept ==
  ASSUME NEW c \in ConfigFiles, NEW f \in Frames, NEW g \in Frames,
         Table(c, f), g.ignoring = f.ignoring, DOMAIN g.out = DOMAIN f.out,
         \A j \in DOMAIN f.out :
           g.out[j].ep = f.out[j].ep /\ g.out[j].method = f.out[j].method,
         \A i \in Nat, k \in Keys : Past(f, i, k) => Past(g, i, k),
         \A i \in DOMAIN c.endpoints : \A k \in DOMAIN Methods(c, i) :
           Past(g, i, k) /\ ~(f.ignoring /\ InfoAt(c, i)) => Past(f, i, k),
         f.ignoring /\ g.cur # NoKey => ~WrittenAs(Methods(c, g.ep)[g.cur], "info")
  PROVE  Table(c, g)
  <1>1. OnlyPast(c, g)
    BY OutShape DEF Table, OnlyPast
  <1>2. NoneTwice(g)
    BY DEF Table, NoneTwice
  <1>3. InOrder(g)
    BY DEF Table, InOrder
  <1>4. NoInfo(c, g)
    BY DEF Table, NoInfo
  <1>5. AllPast(c, g)
    BY DEF Table, AllPast
  <1> QED
    BY <1>1, <1>2, <1>3, <1>4, <1>5 DEF Table

(* Replacing the top frame leaves the others where they are. *)
LEMMA TopReplaced ==
  ASSUME stack \in Seq(Frames), stack # <<>>, NEW g \in Frames
  PROVE  /\ WithTop(g) \in Seq(Frames)
         /\ Len(WithTop(g)) = Len(stack)
         /\ WithTop(g) # <<>>
         /\ Len(stack) \in DOMAIN stack
         /\ Top = stack[Len(stack)] /\ Top \in Frames
         /\ \A n \in DOMAIN stack :
              WithTop(g)[n] = IF n = Len(stack) THEN g ELSE stack[n]
  BY DEF WithTop, Top

(* A step that only replaces the top frame keeps the stack's invariant if  *)
(* the new frame satisfies its own.                                        *)
LEMMA TopStep ==
  ASSUME TypeOK, StackInv, Building,
         NEW g, FrameInv(config, g), g.ignoring = Top.ignoring,
         stack' = WithTop(g), UNCHANGED <<config, phase>>
  PROVE  StackInv' /\ stack' \in Seq(Frames) /\ Len(stack') = Len(stack)
  <1>1. stack \in Seq(Frames) /\ stack # <<>> /\ g \in Frames
    BY DEF TypeOK, StackInv, Building, FrameInv
  <1>2. /\ stack' \in Seq(Frames) /\ Len(stack') = Len(stack) /\ stack' # <<>>
        /\ Len(stack) \in DOMAIN stack /\ Top = stack[Len(stack)]
        /\ \A n \in DOMAIN stack : stack'[n] = IF n = Len(stack) THEN g ELSE stack[n]
    BY <1>1, TopReplaced
  <1>3. DOMAIN stack' = DOMAIN stack
    BY <1>1, <1>2
  <1>4. ASSUME NEW n \in DOMAIN stack'
        PROVE  /\ FrameInv(config', stack'[n])
               /\ stack'[n].ignoring <=> n # 1
               /\ n # Len(stack') => stack'[n].work # <<>>
    BY <1>2, <1>3, <1>4 DEF StackInv
  <1> QED
    BY <1>2, <1>4 DEF StackInv, Building

-----------------------------------------------------------------------------
(* ONE LEMMA PER ACTION *)

(* A configuration that is not plain, or fewer than three activations. *)
LEMMA SameDepth ==
  ASSUME TypeOK, BoundedActivations, UNCHANGED config,
         Len(stack') = Len(stack), phase' # "overflow"
  PROVE  BoundedActivations'
  BY DEF BoundedActivations, PlainConfig, EndpointIds, MethodsOf

LEMMA RefuseKeeps == IInv /\ Refuse => IInv'
  <1> SUFFICES ASSUME IInv, Refuse PROVE IInv'
    OBVIOUS
  <1>1. /\ phase' = "refused" /\ stack' = <<>>
        /\ config' = config /\ routes' = routes /\ listings' = listings
    BY DEF Refuse
  <1>2. Len(stack') = 0
    BY <1>1
  <1>3. TypeOK'
    BY <1>1 DEF IInv, TypeOK
  <1>4. StackInv'
    BY <1>1 DEF StackInv
  <1>5. BoundedActivations'
    BY <1>1, <1>2 DEF BoundedActivations
  <1> QED
    BY <1>1, <1>3, <1>4, <1>5 DEF IInv

(* A new activation has returned nothing and is before the first endpoint. *)
LEMMA NewFrameInv ==
  ASSUME NEW c \in ConfigFiles, NEW ignoring \in BOOLEAN
  PROVE  FrameInv(c, NewFrame(ignoring))
  <1> DEFINE f == NewFrame(ignoring)
  <1>1. f \in Frames
    BY DEF NewFrame, Frames
  <1>2. Len(c.endpoints) \in Nat /\ DOMAIN c.endpoints = 1..Len(c.endpoints)
    BY DEF ConfigFiles
  <1>3. Placed(c, f)
    BY <1>2 DEF Placed, NewFrame
  <1>4. Table(c, f)
    BY <1>2 DEF Table, OnlyPast, NoneTwice, InOrder, NoInfo, AllPast, Past, NewFrame
  <1>5. FramePlain(f)
    BY DEF FramePlain, NewFrame
  <1> QED
    BY <1>1, <1>3, <1>4, <1>5 DEF FrameInv

LEMMA RunKeeps == IInv /\ Run => IInv'
  <1> SUFFICES ASSUME IInv, Run PROVE IInv'
    OBVIOUS
  <1>1. CASE Refuse
    BY <1>1, RefuseKeeps
  <1>2. CASE ~Refuse
    <2>1. /\ phase' = "building" /\ stack' = <<NewFrame(FALSE)>>
          /\ config' = config /\ routes' = routes /\ listings' = listings
      BY <1>2 DEF Run
    <2>2. config \in ConfigFiles
      BY DEF IInv, TypeOK
    <2>3. FrameInv(config, NewFrame(FALSE)) /\ NewFrame(FALSE) \in Frames
      BY <2>2, NewFrameInv DEF FrameInv
    <2>4. stack' \in Seq(Frames) /\ DOMAIN stack' = {1} /\ Len(stack') = 1
          /\ stack'[1] = NewFrame(FALSE) /\ stack' # <<>>
      BY <2>1, <2>3, Singleton
    <2>5. TypeOK'
      BY <2>1, <2>4 DEF IInv, TypeOK
    <2>6. NewFrame(FALSE).ignoring = FALSE
      BY DEF NewFrame
    <2>7. StackInv'
      BY <2>1, <2>3, <2>4, <2>6 DEF StackInv
    <2>8. BoundedActivations'
      BY <2>1, <2>4 DEF BoundedActivations
    <2> QED
      BY <2>1, <2>5, <2>7, <2>8 DEF IInv
  <1> QED
    BY <1>1, <1>2

(* The shape of every action that only replaces the top frame. *)
LEMMA TopAction ==
  ASSUME IInv, Building, NEW g, FrameInv(config, g), g.ignoring = Top.ignoring,
         stack' = WithTop(g), UNCHANGED <<config, phase, routes, listings>>
  PROVE  IInv'
  <1>1. StackInv' /\ stack' \in Seq(Frames) /\ Len(stack') = Len(stack)
    BY TopStep DEF IInv
  <1>2. TypeOK'
    BY <1>1 DEF IInv, TypeOK
  <1>3. BoundedActivations'
    BY <1>1, SameDepth DEF IInv, Building
  <1> QED
    BY <1>1, <1>2, <1>3 DEF IInv, Building

(* What the invariant says of the running activation. *)
LEMMA TopInv ==
  ASSUME IInv, Building
  PROVE  /\ FrameInv(config, Top) /\ Top \in Frames
         /\ config \in ConfigFiles
         /\ Top.ignoring <=> Len(stack) # 1
         /\ Len(stack) \in Nat \ {0}
  <1>1. stack \in Seq(Frames) /\ stack # <<>>
    BY DEF IInv, TypeOK, StackInv, Building
  <1>2. Len(stack) \in DOMAIN stack /\ Top = stack[Len(stack)] /\ Len(stack) \in Nat \ {0}
    BY <1>1 DEF Top
  <1>3. FrameInv(config, Top) /\ (Top.ignoring <=> Len(stack) # 1)
    BY <1>2 DEF IInv, StackInv
  <1>4. Top \in Frames
    BY <1>3 DEF FrameInv
  <1>5. config \in ConfigFiles
    BY DEF IInv, TypeOK
  <1> QED
    BY <1>2, <1>3, <1>4, <1>5

LEMMA NextEndpointKeeps == IInv /\ NextEndpoint => IInv'
  <1> SUFFICES ASSUME IInv, NextEndpoint PROVE IInv'
    OBVIOUS
  <1>1. CASE Refuse
    BY <1>1, RefuseKeeps
  <1>2. CASE ~Refuse
    <2> DEFINE f == Top
               e == f.ep + 1
               g == [f EXCEPT !.ep = e, !.todo = DOMAIN Methods(config, e)]
    <2>1. /\ Building /\ f.cur = NoKey /\ f.todo = {} /\ f.ep < Len(config.endpoints)
          /\ stack' = WithTop(g)
          /\ UNCHANGED <<config, phase, routes, listings>>
      BY <1>2 DEF NextEndpoint, Methods
    <2>2. /\ FrameInv(config, f) /\ f \in Frames /\ config \in ConfigFiles
      BY <2>1, TopInv
    <2>3. f.ep \in Nat /\ Len(config.endpoints) \in Nat
      BY <2>2 DEF Frames, ConfigFiles
    <2>4. e \in DOMAIN config.endpoints
      BY <2>1, <2>2, <2>3 DEF ConfigFiles
    <2>5. DOMAIN Methods(config, e) \subseteq Keys
      BY <2>2, <2>4, FileShape
    <2>6. /\ g \in Frames /\ g.ep = e /\ g.todo = DOMAIN Methods(config, e) /\ g.cur = NoKey
          /\ g.work = f.work /\ g.out = f.out /\ g.ignoring = f.ignoring
      <3> HIDE DEF f, e
      <3>1. f \in Frames /\ e \in Nat /\ DOMAIN Methods(config, e) \in SUBSET Keys /\ f.cur = NoKey
        BY <2>1, <2>2, <2>3, <2>5 DEF e
      <3> QED
        BY <3>1 DEF Frames
    <2>7. Placed(config, g)
      BY <2>1, <2>2, <2>3, <2>5, <2>6, KeyAssumption DEF Placed, FrameInv
    <2>8. Table(config, g)
      <3>1. \A i \in Nat, k \in Keys : i # e => (Past(g, i, k) <=> Past(f, i, k))
        BY <2>1, <2>3, <2>6, KeyAssumption DEF Past
      <3>2. \A k \in DOMAIN Methods(config, e) : ~Past(g, e, k)
        BY <2>3, <2>6 DEF Past
      <3>3. \A i \in DOMAIN config.endpoints :
              i \in Nat /\ DOMAIN Methods(config, i) \subseteq Keys
        BY <2>2, FileShape
      <3>4. \A j \in DOMAIN f.out : f.out[j].ep \in Nat /\ f.out[j].method \in Keys
        BY <2>2, OutShape
      <3>5. \A j \in DOMAIN f.out : f.out[j].ep <= f.ep
        BY <2>2, <2>3, <3>4 DEF FrameInv, Table, OnlyPast, Past
      <3>6. OnlyPast(config, g)
        BY <2>2, <2>3, <2>6, <3>1, <3>4, <3>5 DEF FrameInv, Table, OnlyPast
      <3>7. AllPast(config, g)
        BY <2>2, <2>6, <3>1, <3>2, <3>3 DEF FrameInv, Table, AllPast
      <3> QED
        BY <2>1, <2>2, <2>6, <3>6, <3>7 DEF FrameInv, Table, NoneTwice, InOrder, NoInfo
    <2>9. FrameInv(config, g)
      BY <2>2, <2>6, <2>7, <2>8 DEF FrameInv, FramePlain
    <2> QED
      BY <2>1, <2>6, <2>9, TopAction
  <1> QED
    BY <1>1, <1>2

(* The loop variable changes what routes point at, not what they are for. *)
LEMMA RebindShape ==
  ASSUME NEW out \in Seq(Routes), NEW ep, NEW k \in Keys
  PROVE  /\ Rebind(out, ep, k) \in Seq(Routes)
         /\ DOMAIN Rebind(out, ep, k) = DOMAIN out
         /\ \A j \in DOMAIN out : /\ Rebind(out, ep, k)[j].ep = out[j].ep
                                   /\ Rebind(out, ep, k)[j].method = out[j].method
  <1>1. DOMAIN out = 1..Len(out) /\ Len(out) \in Nat /\ \A j \in DOMAIN out : out[j] \in Routes
    OBVIOUS
  <1>2. \A j \in DOMAIN out :
          LET r == IF out[j].ep = ep THEN [out[j] EXCEPT !.taskconf = k] ELSE out[j]
          IN  r \in Routes /\ r.ep = out[j].ep /\ r.method = out[j].method
    BY <1>1 DEF Routes
  <1> QED
    BY <1>1, <1>2 DEF Rebind

LEMMA PickMethodKeeps ==
  ASSUME IInv, NEW k \in Keys, PickMethod(k)
  PROVE  IInv'
  <1> DEFINE f == Top
             t == CurrentTask(k)
             out == Rebind(f.out, f.ep, k)
             left == [[f EXCEPT !.out = out] EXCEPT !.todo = {}]
             picked == [[f EXCEPT !.out = out] EXCEPT
                          !.todo = f.todo \ {k}, !.cur = k,
                          !.work = <<[task |-> t, embedded |-> FALSE]>>]
  <1>1. /\ Building /\ f.cur = NoKey /\ k \in f.todo
        /\ UNCHANGED <<config, phase, routes, listings>>
        /\ Skips(t) => stack' = WithTop(left)
        /\ ~Skips(t) => stack' = WithTop(picked)
    BY DEF PickMethod
  <1>2. /\ FrameInv(config, f) /\ f \in Frames /\ config \in ConfigFiles
    BY <1>1, TopInv
  <1>3. f.ep \in 1..Len(config.endpoints) /\ Len(config.endpoints) \in Nat
        /\ f.ep \in DOMAIN config.endpoints
    BY <1>1, <1>2 DEF FrameInv, Placed, Frames, ConfigFiles
  <1>4. /\ k \in DOMAIN Methods(config, f.ep) /\ f.todo \subseteq DOMAIN Methods(config, f.ep)
        /\ t = Methods(config, f.ep)[k] /\ t \in TaskIds
    <2>1. k \in DOMAIN Methods(config, f.ep) /\ f.todo \subseteq DOMAIN Methods(config, f.ep)
      BY <1>1, <1>2, <1>3 DEF FrameInv, Placed
    <2> QED
      BY <2>1, <1>2, <1>3, FileShape DEF CurrentTask, Methods
  <1>5. /\ out \in Seq(Routes) /\ DOMAIN out = DOMAIN f.out
        /\ \A j \in DOMAIN f.out : out[j].ep = f.out[j].ep /\ out[j].method = f.out[j].method
    BY <1>2, OutShape, RebindShape
  <1>6. \A i \in DOMAIN config.endpoints :
          i \in Nat /\ DOMAIN Methods(config, i) \subseteq Keys
    BY <1>2, FileShape
  <1>7. CASE Skips(t)
    <2>1. /\ left \in Frames /\ left.ep = f.ep /\ left.todo = {} /\ left.cur = f.cur
          /\ left.work = f.work /\ left.out = out /\ left.ignoring = f.ignoring
      <3> HIDE DEF f, out
      <3> QED
        BY <1>2, <1>5 DEF Frames
    <2> HIDE DEF left
    <2>2. f.ignoring /\ InfoAt(config, f.ep)
      BY <1>4, <1>7 DEF Skips, InfoAt
    <2>3. \A i \in Nat, n \in Keys : Past(f, i, n) => Past(left, i, n)
      BY <1>1, <2>1 DEF Past
    <2>4. \A i \in DOMAIN config.endpoints : \A n \in DOMAIN Methods(config, i) :
            Past(left, i, n) /\ ~(f.ignoring /\ InfoAt(config, i)) => Past(f, i, n)
      BY <2>1, <2>2 DEF Past
    <2>5. Table(config, left)
      <3> HIDE DEF f, out
      <3>1. Table(config, f)
        BY <1>2 DEF FrameInv
      <3>2. left.cur = NoKey
        BY <1>1, <2>1
      <3> QED
        BY <1>2, <1>5, <2>1, <2>3, <2>4, <3>1, <3>2, TableKept
    <2>6. FrameInv(config, left)
      BY <1>1, <1>2, <1>3, <1>4, <2>1, <2>5 DEF FrameInv, Placed, FramePlain
    <2> QED
      BY <1>1, <1>7, <2>1, <2>6, TopAction
  <1>8. CASE ~Skips(t)
    <2> DEFINE item == [task |-> t, embedded |-> FALSE]
    <2>1. item \in Items /\ <<item>> \in Seq(Items) /\ DOMAIN <<item>> = {1} /\ <<item>>[1] = item
          /\ <<item>> # <<>>
      BY <1>4, Singleton DEF Items
    <2>2. /\ picked \in Frames /\ picked.ep = f.ep /\ picked.todo = f.todo \ {k}
          /\ picked.cur = k /\ picked.work = <<item>> /\ picked.out = out
          /\ picked.ignoring = f.ignoring
      <3> HIDE DEF f, out, t
      <3> QED
        BY <1>2, <1>5, <2>1 DEF Frames
    <2> HIDE DEF picked
    <2>3. \A i \in Nat, n \in Keys : Past(f, i, n) <=> Past(picked, i, n)
      BY <1>1, <2>2, KeyAssumption DEF Past
    <2>4. f.ignoring => ~WrittenAs(t, "info")
      BY <1>8 DEF Skips
    <2>5. Table(config, picked)
      <3> HIDE DEF f, out, t
      <3>1. Table(config, f)
        BY <1>2 DEF FrameInv
      <3>2. f.ignoring => ~WrittenAs(Methods(config, picked.ep)[picked.cur], "info")
        BY <1>4, <2>2, <2>4
      <3> QED
        BY <1>2, <1>5, <1>6, <2>2, <2>3, <3>1, <3>2, TableKept
    <2>6. Placed(config, picked)
      BY <1>1, <1>2, <1>3, <1>4, <2>1, <2>2 DEF FrameInv, Placed
    <2>7. PlainFile(config) => FramePlain(picked)
      <3>1. SUFFICES ASSUME PlainFile(config)
                     PROVE  t \in PlainTasks /\ (f.ignoring => TaskConf[t].type # "info")
        BY <2>1, <2>2 DEF FramePlain
      <3>2. t \in PlainTasks
        BY <1>3, <1>4, <3>1 DEF PlainFile
      <3> QED
        BY <2>4, <3>2, PlainAssumption DEF WrittenAs
    <2>8. FrameInv(config, picked)
      BY <2>2, <2>5, <2>6, <2>7 DEF FrameInv
    <2> QED
      BY <1>1, <1>8, <2>2, <2>8, TopAction
  <1> QED
    BY <1>7, <1>8

(* The frame of a running factory. *)
LEMMA WorkShape ==
  ASSUME IInv, HasWork
  PROVE  /\ Top.work \in Seq(Items) /\ Top.work # <<>>
         /\ Tail(Top.work) \in Seq(Items) /\ Item \in Items /\ Item.task \in TaskIds
         /\ Item = Top.work[1] /\ 1 \in DOMAIN Top.work
         /\ DOMAIN Tail(Top.work) = 1..Len(Tail(Top.work)) /\ Len(Tail(Top.work)) \in Nat
         /\ \A n \in DOMAIN Tail(Top.work) :
              n + 1 \in DOMAIN Top.work /\ Tail(Top.work)[n] = Top.work[n + 1]
         /\ ItemType = TaskConf[Item.task].type
  <1>1. Top.work \in Seq(Items) /\ Top.work # <<>>
    BY TopInv DEF HasWork, Frames
  <1>2. /\ Tail(Top.work) \in Seq(Items) /\ Item \in Items
        /\ Item = Top.work[1] /\ 1 \in DOMAIN Top.work
        /\ DOMAIN Tail(Top.work) = 1..Len(Tail(Top.work)) /\ Len(Tail(Top.work)) \in Nat
        /\ \A n \in DOMAIN Tail(Top.work) :
             n + 1 \in DOMAIN Top.work /\ Tail(Top.work)[n] = Top.work[n + 1]
    <2> HIDE DEF Items
    <2> QED
      BY <1>1 DEF Item
  <1>3. Item.task \in TaskIds
    BY <1>2 DEF Items
  <1> QED
    BY <1>1, <1>2, <1>3 DEF ItemType, TypeAfterValidate

(* A factory that only changes what it still has to build. *)
LEMMA WorkStep ==
  ASSUME IInv, HasWork, NEW work \in Seq(Items),
         \A n \in DOMAIN work :
           \/ \E m \in DOMAIN Top.work : work[n] = Top.work[m]
           \/ Top.work[1].task \in PlainTasks =>
                work[n].task \in PlainTasks /\ TaskConf[work[n].task].type # "info",
         stack' = WithTop([Top EXCEPT !.work = work]),
         UNCHANGED <<config, phase, routes, listings>>
  PROVE  IInv'
  <1> DEFINE f == Top
             g == [f EXCEPT !.work = work]
  <1>1. FrameInv(config, f) /\ f \in Frames /\ config \in ConfigFiles
    BY TopInv DEF HasWork
  <1>2. /\ g \in Frames /\ g.ep = f.ep /\ g.todo = f.todo /\ g.cur = f.cur
        /\ g.work = work /\ g.out = f.out /\ g.ignoring = f.ignoring
    <2> HIDE DEF f
    <2> QED
      BY <1>1 DEF Frames
  <1>3. f.work # <<>> /\ 1 \in DOMAIN f.work
    BY WorkShape
  <1> HIDE DEF g, f
  <1>4. Placed(config, g)
    BY <1>1, <1>2, <1>3 DEF FrameInv, Placed
  <1>5. Table(config, g)
    <2>1. Table(config, f)
      BY <1>1 DEF FrameInv
    <2>2. \A i, k : Past(f, i, k) <=> Past(g, i, k)
      BY <1>2 DEF Past
    <2> QED
      BY <1>2, <2>1, <2>2
      DEF Table, OnlyPast, NoneTwice, InOrder, NoInfo, AllPast
  <1>6. FramePlain(f) => FramePlain(g)
    BY <1>2, <1>3 DEF FramePlain, f
  <1>7. FrameInv(config, g)
    BY <1>1, <1>2, <1>4, <1>5, <1>6 DEF FrameInv
  <1> QED
    BY <1>2, <1>7, TopAction DEF HasWork, f, g

LEMMA BuildPlainKeeps == IInv /\ BuildPlain => IInv'
  <1> SUFFICES ASSUME IInv, BuildPlain PROVE IInv'
    OBVIOUS
  <1>1. /\ HasWork /\ stack' = WithTop([Top EXCEPT !.work = Tail(Top.work)])
        /\ UNCHANGED <<config, phase, routes, listings>>
    BY DEF BuildPlain
  <1>2. /\ Tail(Top.work) \in Seq(Items)
        /\ \A n \in DOMAIN Tail(Top.work) :
             \E m \in DOMAIN Top.work : Tail(Top.work)[n] = Top.work[m]
    BY <1>1, WorkShape
  <1> QED
    BY <1>1, <1>2, WorkStep

LEMMA BuildMultiKeeps == IInv /\ BuildMulti => IInv'
  <1> SUFFICES ASSUME IInv, BuildMulti PROVE IInv'
    OBVIOUS
  <1> DEFINE work == Embedded(Item.task) \o Tail(Top.work)
             tasks == TaskConf[Item.task].tasks
  <1>1. /\ HasWork /\ stack' = WithTop([Top EXCEPT !.work = work])
        /\ UNCHANGED <<config, phase, routes, listings>>
    BY DEF BuildMulti
  <1>2. /\ Embedded(Item.task) \in Seq(Items)
        /\ Len(Embedded(Item.task)) = Len(tasks) /\ tasks \in Seq(TaskIds)
        /\ \A n \in 1..Len(tasks) :
             Embedded(Item.task)[n] = [task |-> tasks[n], embedded |-> TRUE]
    BY <1>1, WorkShape, EmbeddedShape, TaskShape
  <1>3. Tail(Top.work) \in Seq(Items)
    BY <1>1, WorkShape
  <1>4. /\ work \in Seq(Items) /\ Len(tasks) \in Nat
        /\ \A n \in DOMAIN work :
             \/ n \in 1..Len(tasks) /\ work[n] = Embedded(Item.task)[n]
             \/ n - Len(tasks) \in DOMAIN Tail(Top.work) /\ work[n] = Tail(Top.work)[n - Len(tasks)]
    <2> DEFINE a == Embedded(Item.task)
               b == Tail(Top.work)
    <2>1. a \in Seq(Items) /\ b \in Seq(Items) /\ Len(a) = Len(tasks)
      BY <1>2, <1>3
    <2> HIDE DEF a, b, tasks
    <2>2. /\ a \o b \in Seq(Items) /\ Len(a) \in Nat
          /\ \A n \in DOMAIN (a \o b) :
               \/ n \in 1..Len(a) /\ (a \o b)[n] = a[n]
               \/ n - Len(a) \in DOMAIN b /\ (a \o b)[n] = b[n - Len(a)]
      BY <2>1, ConcatShape
    <2> QED
      BY <2>1, <2>2 DEF a, b
  <1> HIDE DEF work, tasks
  <1>5. ASSUME NEW n \in DOMAIN work
        PROVE  \/ \E m \in DOMAIN Top.work : work[n] = Top.work[m]
               \/ Top.work[1].task \in PlainTasks =>
                    work[n].task \in PlainTasks /\ TaskConf[work[n].task].type # "info"
    <2>1. CASE n \in 1..Len(tasks) /\ work[n] = Embedded(Item.task)[n]
      <3>4. work[n] = [task |-> tasks[n], embedded |-> TRUE]
        BY <2>1, <1>2, Zenon
      <3>1. work[n].task = tasks[n]
        BY <3>4
      <3>2. n \in DOMAIN tasks
        BY <2>1, <1>2
      <3>3. Item = Top.work[1]
        BY <1>1, WorkShape
      <3> QED
        BY <3>1, <3>2, <3>3, PlainAssumption DEF tasks
    <2>2. CASE n - Len(tasks) \in DOMAIN Tail(Top.work)
               /\ work[n] = Tail(Top.work)[n - Len(tasks)]
      BY <1>1, <2>2, WorkShape
    <2> QED
      BY <1>4, <2>1, <2>2
  <1> QED
    BY <1>1, <1>4, <1>5, WorkStep

LEMMA AppendRouteKeeps == IInv /\ AppendRoute => IInv'
  <1> SUFFICES ASSUME IInv, AppendRoute PROVE IInv'
    OBVIOUS
  <1> DEFINE f == Top
             r == [ep |-> f.ep, method |-> f.cur, taskconf |-> f.cur]
             out == Append(f.out, r)
             g == [f EXCEPT !.cur = NoKey, !.out = out]
  <1>1. /\ Building /\ f.cur # NoKey /\ f.work = <<>> /\ stack' = WithTop(g)
        /\ UNCHANGED <<config, phase, routes, listings>>
    BY DEF AppendRoute, Built
  <1>2. FrameInv(config, f) /\ f \in Frames /\ config \in ConfigFiles
    BY <1>1, TopInv
  <1>3. /\ f.cur \in Keys /\ f.ep \in Nat /\ f.cur \notin f.todo /\ f.ep > 0
        /\ f.cur \in DOMAIN Methods(config, f.ep)
    BY <1>1, <1>2 DEF FrameInv, Placed, Frames
  <1>4. r \in Routes
    BY <1>3 DEF Routes
  <1>5. f.out \in Seq(Routes) /\ Len(f.out) \in Nat /\ DOMAIN f.out = 1..Len(f.out)
        /\ \A j \in DOMAIN f.out : f.out[j].ep \in Nat /\ f.out[j].method \in Keys
    BY <1>2, OutShape
  <1>6. /\ out \in Seq(Routes) /\ DOMAIN out = 1..(Len(f.out) + 1)
        /\ \A j \in DOMAIN f.out : out[j] = f.out[j]
        /\ out[Len(f.out) + 1] = r
    <2> HIDE DEF f, r
    <2> QED
      BY <1>4, <1>5
  <1>7. /\ g \in Frames /\ g.ep = f.ep /\ g.todo = f.todo /\ g.cur = NoKey
        /\ g.work = f.work /\ g.out = out /\ g.ignoring = f.ignoring
    <2> HIDE DEF f, out
    <2> QED
      BY <1>2, <1>6 DEF Frames
  <1>8. r.ep = f.ep /\ r.method = f.cur
    OBVIOUS
  <1> HIDE DEF g, out, r, f
  <1>9. Placed(config, g)
    <2>1. NoKey \notin f.todo
      BY <1>2, KeyAssumption DEF Frames
    <2> QED
      BY <1>1, <1>2, <1>3, <1>7, <2>1 DEF FrameInv, Placed
  <1>10. Table(config, g)
    <2>1. Table(config, f)
      BY <1>2 DEF FrameInv
    <2>2. \A i \in Nat, k \in Keys : Past(g, i, k) <=> Past(f, i, k) \/ (i = f.ep /\ k = f.cur)
      BY <1>3, <1>7, KeyAssumption DEF Past
    <2>3. ~Past(f, f.ep, f.cur)
      BY <1>3 DEF Past
    <2>4. \A j \in DOMAIN f.out : f.out[j].ep <= f.ep
      BY <1>3, <1>5, <2>1 DEF Table, OnlyPast, Past
    <2>5. OnlyPast(config, g)
      BY <1>3, <1>5, <1>6, <1>7, <1>8, <2>1, <2>2 DEF Table, OnlyPast
    <2>6. \A j \in DOMAIN g.out :
            \/ j \in DOMAIN f.out /\ g.out[j] = f.out[j]
            \/ j = Len(f.out) + 1 /\ g.out[j].ep = f.ep /\ g.out[j].method = f.cur
      BY <1>5, <1>6, <1>7, <1>8
    <2>7. NoneTwice(g)
      <3>1. \A j \in DOMAIN f.out : ~(f.out[j].ep = f.ep /\ f.out[j].method = f.cur)
        BY <2>1, <2>3 DEF Table, OnlyPast
      <3> QED
        BY <2>1, <2>6, <3>1 DEF Table, NoneTwice
    <2>8. InOrder(g)
      BY <1>3, <1>5, <2>1, <2>4, <2>6 DEF Table, InOrder
    <2>9. NoInfo(config, g)
      BY <1>1, <1>5, <1>6, <1>7, <1>8, <2>1 DEF Table, NoInfo
    <2>10. AllPast(config, g)
      <3>1. \A i \in DOMAIN config.endpoints :
              i \in Nat /\ DOMAIN Methods(config, i) \subseteq Keys
        BY <1>2, FileShape
      <3> QED
        BY <1>5, <1>6, <1>7, <1>8, <2>1, <2>2, <3>1 DEF Table, AllPast
    <2> QED
      BY <2>5, <2>7, <2>8, <2>9, <2>10 DEF Table
  <1>11. PlainFile(config) => FramePlain(g)
    BY <1>1, <1>7 DEF FramePlain
  <1>12. FrameInv(config, g)
    BY <1>7, <1>9, <1>10, <1>11 DEF FrameInv
  <1> QED
    BY <1>1, <1>7, <1>12, TopAction DEF f

(* In a plain configuration only the outermost activation reaches an info  *)
(* task.                                                                   *)
LEMMA InfoOnlyOutermost ==
  ASSUME IInv, HasWork, ItemType = "info", PlainFile(config)
  PROVE  Len(stack) = 1
  <1>1. FrameInv(config, Top) /\ (Top.ignoring <=> Len(stack) # 1)
    BY TopInv DEF HasWork
  <1>2. FramePlain(Top)
    BY <1>1 DEF FrameInv
  <1>3. Item = Top.work[1] /\ 1 \in DOMAIN Top.work /\ TaskConf[Item.task].type = "info"
    BY WorkShape
  <1> QED
    BY <1>1, <1>2, <1>3 DEF FramePlain

LEMMA CallRoutesKeeps == IInv /\ CallRoutes => IInv'
  <1> SUFFICES ASSUME IInv, CallRoutes PROVE IInv'
    OBVIOUS
  <1>1. CASE Refuse
    BY <1>1, RefuseKeeps
  <1>2. CASE ~Refuse
    <2> DEFINE g == NewFrame(TRUE)
    <2>1. /\ HasWork /\ ItemType = "info" /\ stack' = Append(stack, g)
          /\ UNCHANGED <<config, phase, routes, listings>>
      BY <1>2 DEF CallRoutes
    <2>2. /\ stack \in Seq(Frames) /\ stack # <<>> /\ config \in ConfigFiles /\ Len(stack) \in Nat \ {0}
          /\ Len(stack) \in DOMAIN stack /\ DOMAIN stack = 1..Len(stack)
      BY <2>1 DEF IInv, TypeOK, StackInv, HasWork, Building
    <2>3. FrameInv(config, g) /\ g \in Frames
      BY <2>2, NewFrameInv DEF FrameInv
    <2>4. g.ignoring = TRUE
      BY DEF NewFrame
    <2> HIDE DEF g
    <2>5. /\ stack' \in Seq(Frames) /\ Len(stack') = Len(stack) + 1 /\ stack' # <<>>
          /\ DOMAIN stack' = 1..(Len(stack) + 1)
          /\ \A n \in DOMAIN stack : stack'[n] = stack[n]
          /\ stack'[Len(stack) + 1] = g
      BY <2>1, <2>2, <2>3
    <2>6. stack[Len(stack)].work # <<>>
      BY <2>1, WorkShape DEF Top
    <2>7. StackInv'
      <3>1. phase' = "building"
        BY <2>1 DEF HasWork, Building
      <3>2. ASSUME NEW n \in DOMAIN stack'
            PROVE  /\ FrameInv(config', stack'[n])
                   /\ stack'[n].ignoring <=> n # 1
                   /\ n # Len(stack') => stack'[n].work # <<>>
        <4>1. CASE n \in DOMAIN stack
          BY <2>1, <2>2, <2>5, <2>6, <4>1 DEF IInv, StackInv
        <4>2. CASE n = Len(stack) + 1
          BY <2>1, <2>2, <2>3, <2>4, <2>5, <4>2
        <4> QED
          BY <2>2, <2>5, <4>1, <4>2
      <3> QED
        BY <2>5, <3>1, <3>2 DEF StackInv
    <2>8. TypeOK'
      BY <2>1, <2>5 DEF IInv, TypeOK
    <2>9. BoundedActivations'
      <3>1. PlainConfig <=> PlainFile(config)
        BY DEF PlainConfig, PlainFile, EndpointIds, MethodsOf, Methods
      <3>2. PlainConfig => Len(stack) = 1
        BY <2>1, <3>1, InfoOnlyOutermost
      <3>3. PlainConfig' => PlainConfig
        BY <2>1 DEF PlainConfig, EndpointIds, MethodsOf
      <3>4. phase' # "overflow"
        BY <2>1 DEF HasWork, Building
      <3>5. PlainConfig' => Len(stack') <= 2
        BY <2>5, <3>2, <3>3
      <3> QED
        BY <3>4, <3>5 DEF BoundedActivations
    <2> QED
      BY <2>1, <2>7, <2>8, <2>9 DEF IInv, HasWork, Building
  <1> QED
    BY <1>1, <1>2

LEMMA OverflowKeeps == IInv /\ Overflow => IInv'
  <1> SUFFICES ASSUME IInv, Overflow PROVE IInv'
    OBVIOUS
  <1>1. /\ HasWork /\ ItemType = "info" /\ Len(stack) = StackLimit
        /\ phase' = "overflow" /\ stack' = <<>>
        /\ UNCHANGED <<config, routes, listings>>
    BY DEF Overflow
  <1>2. TypeOK'
    BY <1>1 DEF IInv, TypeOK
  <1>3. StackInv'
    BY <1>1 DEF StackInv
  <1>4. ~PlainConfig
    <2>1. ~PlainFile(config)
      BY <1>1, InfoOnlyOutermost, StackAssumption
    <2> QED
      BY <2>1 DEF PlainConfig, PlainFile, EndpointIds, MethodsOf, Methods
  <1>5. BoundedActivations'
    BY <1>1, <1>4 DEF BoundedActivations, PlainConfig, EndpointIds, MethodsOf
  <1> QED
    BY <1>1, <1>2, <1>3, <1>5 DEF IInv

(* A finished activation has a complete result. *)
LEMMA TopReturned ==
  ASSUME IInv, Finished
  PROVE  Returned(config, Top.out, Top.ignoring) /\ Top.out \in Seq(Routes)
  <1>1. FrameInv(config, Top) /\ Top \in Frames
    BY TopInv DEF Finished
  <1>2. Top.out \in Seq(Routes)
    BY <1>1, OutShape
  <1> QED
    BY <1>1, <1>2 DEF Returned, Finished, FrameInv

LEMMA ReturnToRouterKeeps == IInv /\ ReturnToRouter => IInv'
  <1> SUFFICES ASSUME IInv, ReturnToRouter PROVE IInv'
    OBVIOUS
  <1>1. /\ Finished /\ Len(stack) = 1 /\ phase' = "routed" /\ routes' = Top.out
        /\ stack' = <<>> /\ UNCHANGED <<config, listings>>
    BY DEF ReturnToRouter
  <1>2. Top.ignoring = FALSE
    <2>1. (Top.ignoring <=> Len(stack) # 1) /\ Top \in Frames
      BY <1>1, TopInv DEF Finished
    <2> QED
      BY <1>1, <2>1 DEF Frames
  <1>3. Returned(config, routes', FALSE) /\ routes' \in Seq(Routes)
    BY <1>1, <1>2, TopReturned
  <1>4. TypeOK'
    BY <1>1, <1>3 DEF IInv, TypeOK
  <1>5. StackInv'
    BY <1>1 DEF StackInv
  <1>6. Len(stack') = 0
    BY <1>1
  <1>7. BoundedActivations'
    BY <1>1, <1>6 DEF BoundedActivations
  <1> QED
    BY <1>1, <1>3, <1>4, <1>5, <1>7 DEF IInv

LEMMA ReturnToInfoKeeps == IInv /\ ReturnToInfo => IInv'
  <1> SUFFICES ASSUME IInv, ReturnToInfo PROVE IInv'
    OBVIOUS
  <1> DEFINE m == Len(stack) - 1
             f == stack[m]
             g == [f EXCEPT !.work = Tail(f.work)]
  <1>1. /\ Finished /\ Len(stack) > 1 /\ listings' = listings \cup {Top.out}
        /\ stack' = [n \in 1..m |-> IF n = m THEN g ELSE stack[n]]
        /\ UNCHANGED <<config, phase, routes>>
    BY DEF ReturnToInfo, Resumed
  <1>2. stack \in Seq(Frames) /\ Len(stack) \in Nat /\ DOMAIN stack = 1..Len(stack)
        /\ config \in ConfigFiles /\ phase = "building"
    BY <1>1 DEF IInv, TypeOK, Finished, Building
  <1>13. Len(stack) > 1
    BY <1>1
  <1>3. m \in DOMAIN stack /\ m \in 1..m /\ m # Len(stack) /\ m \in Nat
        /\ m <= Len(stack) /\ \A n \in 1..m : n \in DOMAIN stack /\ n # Len(stack)
    BY <1>2, <1>13, Predecessor
  <1>4. FrameInv(config, f) /\ f \in Frames /\ f.work # <<>> /\ (f.ignoring <=> m # 1)
    BY <1>3 DEF IInv, StackInv, FrameInv
  <1>5. f.work \in Seq(Items)
    BY <1>4 DEF Frames
  <1> HIDE DEF f, m
  <1>6. /\ Tail(f.work) \in Seq(Items)
        /\ \A n \in DOMAIN Tail(f.work) :
             n + 1 \in DOMAIN f.work /\ Tail(f.work)[n] = f.work[n + 1]
    <2> HIDE DEF Items
    <2> QED
      BY <1>4, <1>5
  <1>7. /\ g \in Frames /\ g.ep = f.ep /\ g.todo = f.todo /\ g.cur = f.cur
        /\ g.work = Tail(f.work) /\ g.out = f.out /\ g.ignoring = f.ignoring
    BY <1>4, <1>6 DEF Frames
  <1> HIDE DEF g
  <1>8. FrameInv(config, g)
    <2>1. Placed(config, g)
      BY <1>4, <1>7 DEF FrameInv, Placed
    <2>2. \A i, k : Past(f, i, k) <=> Past(g, i, k)
      BY <1>7 DEF Past
    <2>3. Table(config, g)
      BY <1>4, <1>7, <2>2
      DEF FrameInv, Table, OnlyPast, NoneTwice, InOrder, NoInfo, AllPast
    <2>4. FramePlain(f) => FramePlain(g)
      BY <1>6, <1>7 DEF FramePlain
    <2> QED
      BY <1>4, <1>7, <2>1, <2>3, <2>4 DEF FrameInv
  <1>9. /\ stack' \in Seq(Frames) /\ Len(stack') = m /\ DOMAIN stack' = 1..m /\ stack' # <<>>
        /\ \A n \in 1..m : stack'[n] = IF n = m THEN g ELSE stack[n]
    <2>1. ASSUME NEW n \in 1..m PROVE n \in DOMAIN stack /\ stack[n] \in Frames
      <3>1. n \in DOMAIN stack
        BY <1>3
      <3>2. stack \in Seq(Frames)
        BY <1>2
      <3> QED
        BY <3>1, <3>2
    <2> QED
      BY <1>1, <1>3, <1>7, <2>1
  <1>10. StackInv'
    <2>1. ASSUME NEW n \in DOMAIN stack'
          PROVE  /\ FrameInv(config', stack'[n])
                 /\ stack'[n].ignoring <=> n # 1
                 /\ n # Len(stack') => stack'[n].work # <<>>
      <3>1. CASE n = m
        BY <1>1, <1>4, <1>7, <1>8, <1>9, <3>1
      <3>2. CASE n # m
        <4>1. n \in DOMAIN stack /\ n # Len(stack) /\ stack'[n] = stack[n]
          BY <1>3, <1>9, <3>2
        <4> QED
          BY <1>1, <1>9, <4>1 DEF IInv, StackInv
      <3> QED
        BY <3>1, <3>2
    <2> QED
      BY <1>1, <1>2, <1>9, <2>1 DEF StackInv
  <1>11. Returned(config, Top.out, TRUE) /\ Top.out \in Seq(Routes)
    <2>1. Top.ignoring = TRUE
      <3>1. (Top.ignoring <=> Len(stack) # 1) /\ Top \in Frames
        BY <1>1, TopInv DEF Finished
      <3>2. Len(stack) # 1
        BY <1>2, <1>13
      <3>3. Top.ignoring \in BOOLEAN
        BY <3>1 DEF Frames
      <3> QED
        BY <3>1, <3>2, <3>3
    <2> QED
      BY <1>1, <2>1, TopReturned
  <1>12. TypeOK'
    BY <1>1, <1>9, <1>11 DEF IInv, TypeOK
  <1>14. BoundedActivations'
    <2>1. Len(stack') <= Len(stack) /\ Len(stack') \in Nat
      BY <1>3, <1>9
    <2>2. PlainConfig' => PlainConfig
      BY <1>1 DEF PlainConfig, EndpointIds, MethodsOf
    <2>3. PlainConfig => Len(stack) <= 2 /\ phase # "overflow"
      BY DEF IInv, BoundedActivations
    <2>4. phase' = phase
      BY <1>1
    <2>5. PlainConfig' => Len(stack') <= 2 /\ phase' # "overflow"
      BY <1>2, <2>1, <2>2, <2>3, <2>4
    <2> QED
      BY <2>5 DEF BoundedActivations
  <1> QED
    BY <1>1, <1>2, <1>10, <1>11, <1>12, <1>14 DEF IInv

-----------------------------------------------------------------------------
(* THEOREMS *)

LEMMA InitInv == Init => IInv
  <1> SUFFICES ASSUME Init PROVE IInv
    OBVIOUS
  <1>1. TypeOK
    BY ConfigAssumption DEF Init, TypeOK
  <1>2. StackInv
    BY DEF Init, StackInv
  <1>3. Len(stack) = 0 /\ phase = "init"
    BY DEF Init
  <1>4. BoundedActivations
    BY <1>3 DEF BoundedActivations
  <1> QED
    BY <1>1, <1>2, <1>3, <1>4 DEF Init, IInv

LEMMA NextInv == IInv /\ [Next]_vars => IInv'
  <1> SUFFICES ASSUME IInv, [Next]_vars PROVE IInv'
    OBVIOUS
  <1>1. CASE Run
    BY <1>1, RunKeeps
  <1>2. CASE NextEndpoint
    BY <1>2, NextEndpointKeeps
  <1>3. CASE \E k \in Keys : PickMethod(k)
    BY <1>3, PickMethodKeeps
  <1>4. CASE Reject
    BY <1>4, RefuseKeeps DEF Reject
  <1>5. CASE BuildPlain
    BY <1>5, BuildPlainKeeps
  <1>6. CASE BuildMulti
    BY <1>6, BuildMultiKeeps
  <1>7. CASE CallRoutes
    BY <1>7, CallRoutesKeeps
  <1>8. CASE Overflow
    BY <1>8, OverflowKeeps
  <1>9. CASE AppendRoute
    BY <1>9, AppendRouteKeeps
  <1>10. CASE ReturnToRouter
    BY <1>10, ReturnToRouterKeeps
  <1>11. CASE ReturnToInfo
    BY <1>11, ReturnToInfoKeeps
  <1>12. CASE UNCHANGED vars
    BY <1>12 DEF vars, IInv, TypeOK, StackInv, BoundedActivations, PlainConfig, EndpointIds, MethodsOf
  <1> QED
    BY <1>1, <1>2, <1>3, <1>4, <1>5, <1>6, <1>7, <1>8, <1>9, <1>10, <1>11, <1>12 DEF Next

(* Every activation of routes on the stack is described by the loops it is *)
(* in, whatever the order of the maps.                                     *)
THEOREM Invariance == Spec => []IInv
  BY InitInv, NextInv, PTL DEF Spec

(* The variables of routes keep their types, in every nested activation.   *)
THEOREM TypeCorrect == Spec => []TypeOK
  <1>1. IInv => TypeOK
    BY DEF IInv
  <1> QED
    BY <1>1, Invariance, PTL

(* In a configuration whose info tasks are all written so and not          *)
(* embedded, routes is never active more than twice, so the start never    *)
(* exhausts the Go stack.                                                  *)
THEOREM ActivationsBounded == Spec => []BoundedActivations
  <1>1. IInv => BoundedActivations
    BY DEF IInv
  <1> QED
    BY <1>1, Invariance, PTL

(* The route of a past method is the only one of its kind. *)
LEMMA OnlyRoute ==
  ASSUME NEW c \in ConfigFiles, NEW f \in Frames, Table(c, f),
         NEW i \in DOMAIN c.endpoints, NEW k \in DOMAIN Methods(c, i),
         Past(f, i, k), ~(f.ignoring /\ InfoAt(c, i))
  PROVE  \E j \in DOMAIN f.out : RoutesFor(f.out, i, k) = {j}
  <1>1. PICK j \in DOMAIN f.out : f.out[j].ep = i /\ f.out[j].method = k
    BY DEF Table, AllPast
  <1>2. \A n \in RoutesFor(f.out, i, k) : n = j
    BY <1>1 DEF RoutesFor, Table, NoneTwice
  <1>3. j \in RoutesFor(f.out, i, k)
    BY <1>1 DEF RoutesFor
  <1> QED
    BY <1>2, <1>3

(* Everything is past in a frame that has reached the end. *)
LEMMA EndIsPast ==
  ASSUME NEW c \in ConfigFiles, NEW f \in Frames, f.ep = Len(c.endpoints),
         f.todo = {}, f.cur = NoKey,
         NEW i \in DOMAIN c.endpoints, NEW k \in DOMAIN Methods(c, i)
  PROVE  Past(f, i, k)
  <1>1. i \in 1..Len(c.endpoints) /\ Len(c.endpoints) \in Nat /\ k \in Keys
    BY FileShape
  <1> QED
    BY <1>1, KeyAssumption DEF Past

(* Every method of every endpoint has exactly one route in the table given *)
(* to the router, whatever order the maps were ranged over in.             *)
THEOREM TableIsComplete == Spec => []TableComplete
  <1>1. IInv => TableComplete
    <2> SUFFICES ASSUME IInv, phase = "routed" PROVE TableComplete
      BY DEF TableComplete
    <2>1. PICK f \in Frames : /\ f.ep = Len(config.endpoints) /\ f.todo = {} /\ f.cur = NoKey
                              /\ f.out = routes /\ f.ignoring = FALSE
                              /\ Table(config, f)
      BY DEF IInv, Returned
    <2>2. config \in ConfigFiles
      BY DEF IInv, TypeOK
    <2>3. \A i \in DOMAIN config.endpoints : \A k \in DOMAIN Methods(config, i) :
            \E j \in DOMAIN routes : RoutesFor(routes, i, k) = {j}
      <3> TAKE i \in DOMAIN config.endpoints
      <3> TAKE k \in DOMAIN Methods(config, i)
      <3>1. Past(f, i, k)
        BY <2>1, <2>2, EndIsPast
      <3>2. \E j \in DOMAIN f.out : RoutesFor(f.out, i, k) = {j}
        BY <2>1, <2>2, <3>1, OnlyRoute
      <3> QED
        BY <2>1, <3>2
    <2>4. \A j \in DOMAIN routes :
            /\ routes[j].ep \in DOMAIN config.endpoints
            /\ routes[j].method \in DOMAIN Methods(config, routes[j].ep)
      <3>1. \A j \in DOMAIN routes : routes[j].ep \in Nat
        BY <2>1, OutShape
      <3>2. DOMAIN config.endpoints = 1..Len(config.endpoints) /\ Len(config.endpoints) \in Nat
        BY <2>2 DEF ConfigFiles
      <3> QED
        BY <2>1, <3>1, <3>2 DEF Table, OnlyPast, Past
    <2>5. \A j1, j2 \in DOMAIN routes : j1 < j2 => routes[j1].ep <= routes[j2].ep
      BY <2>1 DEF Table, InOrder
    <2> QED
      BY <2>3, <2>4, <2>5 DEF TableComplete, EndpointIds, MethodsOf, Methods
  <1> QED
    BY <1>1, Invariance, PTL

(* A listing never names an info task, and names every method of every     *)
(* endpoint without one exactly once.                                      *)
THEOREM ListingsAreComplete == Spec => []ListingsComplete
  <1>1. IInv => ListingsComplete
    <2> SUFFICES ASSUME IInv, NEW l \in listings
                 PROVE  /\ \A j \in DOMAIN l : ~WrittenAs(MethodsOf(l[j].ep)[l[j].method], "info")
                        /\ \A i \in EndpointIds : ~HasInfo(i) =>
                             \A k \in DOMAIN MethodsOf(i) :
                               \E j \in DOMAIN l : RoutesFor(l, i, k) = {j}
      BY DEF ListingsComplete
    <2>1. PICK f \in Frames : /\ f.ep = Len(config.endpoints) /\ f.todo = {} /\ f.cur = NoKey
                              /\ f.out = l /\ f.ignoring = TRUE
                              /\ Table(config, f)
      BY DEF IInv, Returned
    <2>2. config \in ConfigFiles
      BY DEF IInv, TypeOK
    <2>3. \A j \in DOMAIN l : ~WrittenAs(Methods(config, l[j].ep)[l[j].method], "info")
      BY <2>1 DEF Table, NoInfo
    <2>4. \A i \in DOMAIN config.endpoints : ~InfoAt(config, i) =>
            \A k \in DOMAIN Methods(config, i) : \E j \in DOMAIN l : RoutesFor(l, i, k) = {j}
      <3> TAKE i \in DOMAIN config.endpoints
      <3>1. SUFFICES ASSUME ~InfoAt(config, i), NEW k \in DOMAIN Methods(config, i)
                     PROVE  \E j \in DOMAIN l : RoutesFor(l, i, k) = {j}
        OBVIOUS
      <3>2. Past(f, i, k)
        BY <2>1, <2>2, EndIsPast
      <3>3. ~(f.ignoring /\ InfoAt(config, i))
        BY <3>1
      <3>4. \E j \in DOMAIN f.out : RoutesFor(f.out, i, k) = {j}
        BY <2>1, <2>2, <3>1, <3>2, <3>3, OnlyRoute
      <3> QED
        BY <2>1, <3>4
    <2> QED
      BY <2>3, <2>4 DEF EndpointIds, MethodsOf, Methods, HasInfo, InfoAt
  <1> QED
    BY <1>1, Invariance, PTL

-----------------------------------------------------------------------------
(* WHAT A TASK COMES TO *)

(* The equation of Builds; g is what is known of the embedded tasks. *)
BuildsBy(g, t) ==
  LET c == TaskConf[t]
  IN  /\ c.type \in {"plain", "info", "multi"}
      /\ c.query # "invalid"
      /\ c.type # "info" => c.accepted
      /\ c.type = "multi" =>
           \A i \in DOMAIN c.tasks :
             /\ ~WrittenAs(c.tasks[i], "multi")
             /\ g[c.tasks[i]]

Below(m) == {t \in TaskIds : t < m}

KnownBelow(g, m) == g = [t \in Below(m) |-> BuildsBy(g, t)]

(* It only asks about embedded tasks, whose numbers are less. *)
LEMMA BuildsByLess ==
  ASSUME NEW t \in TaskIds, NEW g, NEW h, \A u \in TaskIds : u < t => g[u] = h[u]
  PROVE  BuildsBy(g, t) = BuildsBy(h, t)
  <1>1. \A i \in DOMAIN TaskConf[t].tasks :
          TaskConf[t].tasks[i] \in TaskIds /\ TaskConf[t].tasks[i] < t
    <2>1. TaskConf[t].tasks \in Seq(TaskIds)
      BY TaskShape
    <2> QED
      BY <2>1, NestingAssumption
  <1>2. \A i \in DOMAIN TaskConf[t].tasks : g[TaskConf[t].tasks[i]] = h[TaskConf[t].tasks[i]]
    BY <1>1
  <1>3. BuildsBy(g, t) <=> BuildsBy(h, t)
    BY <1>2, Zenon DEF BuildsBy
  <1>4. BuildsBy(g, t) \in BOOLEAN /\ BuildsBy(h, t) \in BOOLEAN
    BY Zenon DEF BuildsBy
  <1> QED
    BY <1>3, <1>4

(* There is a solution for the tasks below any number, *)
LEMMA SolvedBelow ==
  ASSUME NEW m \in Nat
  PROVE  \E g : KnownBelow(g, m)
  <1> DEFINE S == {n \in Nat : \E g : KnownBelow(g, n)}
  <1>1. 0 \in S
    <2>1. Below(0) = {}
      <3>1. \A t \in TaskIds : t \in Nat
        BY NestingAssumption
      <3>2. \A t \in Nat : ~(t < 0)
        OBVIOUS
      <3> QED
        BY <3>1, <3>2 DEF Below
    <2>2. KnownBelow([t \in {} |-> TRUE], 0)
      BY <2>1 DEF KnownBelow
    <2> QED
      BY <2>2
  <1>2. ASSUME NEW n \in 1..m, n - 1 \in S PROVE n \in S
    <2>1. PICK g : KnownBelow(g, n - 1)
      BY <1>2
    <2> DEFINE h == [t \in Below(n) |-> BuildsBy(g, t)]
    <2>2. ASSUME NEW t \in Below(n) PROVE BuildsBy(g, t) = BuildsBy(h, t)
      <3>1. t \in TaskIds /\ t \in Nat /\ t < n
        BY NestingAssumption DEF Below
      <3>2. ASSUME NEW u \in TaskIds, u < t PROVE g[u] = h[u]
        <4>1. u \in Below(n - 1) /\ u \in Below(n)
          BY <3>1, <3>2, NestingAssumption DEF Below
        <4> QED
          BY <2>1, <4>1, Zenon DEF KnownBelow
      <3> HIDE DEF h
      <3> QED
        BY <3>1, <3>2, BuildsByLess
    <2>3. h = [t \in Below(n) |-> BuildsBy(h, t)]
      BY <2>2, Zenon
    <2>4. KnownBelow(h, n)
      BY <2>3, Zenon DEF KnownBelow
    <2> QED
      BY <2>4
  <1> HIDE DEF S
  <1>3. \A n \in 0..m : n \in S
    BY <1>1, <1>2, UpTo
  <1> QED
    BY <1>3 DEF S

(* any two agree, *)
LEMMA SolutionsAgree ==
  ASSUME NEW m \in Nat, NEW n \in Nat, NEW g, NEW h, KnownBelow(g, m), KnownBelow(h, n)
  PROVE  \A t \in Below(m) \cap Below(n) : g[t] = h[t]
  <1> DEFINE T == {t \in Below(m) \cap Below(n) : g[t] # h[t]}
  <1> SUFFICES ASSUME T # {} PROVE FALSE
    OBVIOUS
  <1>1. PICK t \in T : \A u \in T : t <= u
    <2>1. T \in SUBSET Nat
      BY NestingAssumption DEF Below
    <2> QED
      BY <2>1, LeastElement
  <1>2. t \in TaskIds /\ t \in Nat /\ t < m /\ t < n /\ t \in Below(m) /\ t \in Below(n)
    BY NestingAssumption DEF Below
  <1>3. ASSUME NEW u \in TaskIds, u < t PROVE g[u] = h[u]
    <2>1. u \in Nat /\ u \in Below(m) /\ u \in Below(n) /\ ~(t <= u)
      BY <1>2, <1>3, NestingAssumption DEF Below
    <2> QED
      BY <1>1, <2>1
  <1>4. BuildsBy(g, t) = BuildsBy(h, t)
    BY <1>2, <1>3, BuildsByLess
  <1>5. g[t] = BuildsBy(g, t) /\ h[t] = BuildsBy(h, t)
    BY <1>2, Zenon DEF KnownBelow
  <1> QED
    BY <1>4, <1>5

(* so Builds solves its equation for all tasks. *)
LEMMA BuildsEquation ==
  ASSUME NEW t \in TaskIds
  PROVE  Builds[t] <=> BuildsBy(Builds, t)
  <1> DEFINE G(u) == CHOOSE g : KnownBelow(g, u + 1)
             B == [u \in TaskIds |-> G(u)[u]]
  <1>1. ASSUME NEW u \in TaskIds PROVE KnownBelow(G(u), u + 1)
    <2>1. u + 1 \in Nat
      <3>1. u \in Nat
        BY NestingAssumption
      <3> QED
        BY <3>1
    <2>2. \E g : KnownBelow(g, u + 1)
      BY <2>1, SolvedBelow
    <2> QED
      BY <2>2, Zenon
  <1> HIDE DEF G
  <1>2. ASSUME NEW u \in TaskIds PROVE B[u] = BuildsBy(B, u)
    <2>1. u \in Below(u + 1) /\ u \in Nat
      BY NestingAssumption DEF Below
    <2>2. ASSUME NEW v \in TaskIds, v < u PROVE B[v] = G(u)[v]
      <3>1. v \in Nat /\ v \in Below(v + 1) /\ v \in Below(u + 1)
        BY <2>1, <2>2, NestingAssumption DEF Below
      <3>2. u + 1 \in Nat /\ v + 1 \in Nat
        BY <2>1, <3>1
      <3>3. G(v)[v] = G(u)[v]
        BY <1>1, <3>1, <3>2, SolutionsAgree
      <3> QED
        BY <3>3
    <2>3. B[u] = G(u)[u]
      OBVIOUS
    <2> HIDE DEF B
    <2>4. BuildsBy(B, u) = BuildsBy(G(u), u)
      BY <2>2, BuildsByLess
    <2>5. G(u)[u] = BuildsBy(G(u), u)
      BY <1>1, <2>1, Zenon DEF KnownBelow
    <2> QED
      BY <2>3, <2>4, <2>5
  <1>3. B = [u \in TaskIds |-> BuildsBy(B, u)]
    BY <1>2, Zenon
  <1> HIDE DEF B
  <1>4. Builds = [u \in TaskIds |-> BuildsBy(Builds, u)]
    BY <1>3, Zenon DEF Builds, BuildsBy
  <1>5. Builds[t] = BuildsBy(Builds, t)
    BY <1>4, Zenon
  <1> QED
    BY <1>5, Zenon
-----------------------------------------------------------------------------
(* THE OUTCOME OF A START *)

(* What a task on a factory's list comes to. *)
ItemBuilds(it) == Builds[it.task] /\ ~(it.embedded /\ WrittenAs(it.task, "multi"))

(* The method that is being built is right exactly if what its factory     *)
(* still has to build is: everything it has built was.                     *)
OnTrack(c, f) ==
  f.cur # NoKey =>
    (Builds[Methods(c, f.ep)[f.cur]] <=> \A n \in DOMAIN f.work : ItemBuilds(f.work[n]))

(* The outermost activation leaves nothing out.                            *)
PastBuilt(c, f) ==
  ~f.ignoring =>
    \A i \in DOMAIN c.endpoints :
      /\ i <= f.ep => c.endpoints[i].query # "invalid"
      /\ \A k \in DOMAIN Methods(c, i) : Past(f, i, k) => Builds[Methods(c, i)[k]]

FrameOutcome(c, f) == OnTrack(c, f) /\ PastBuilt(c, f)

(* An activation below another one waits for an info task that is right.   *)
StackOutcome ==
  \A n \in DOMAIN stack :
    /\ FrameOutcome(config, stack[n])
    /\ n # Len(stack) => ItemBuilds(stack[n].work[1])

OInv ==
  /\ IInv
  /\ phase = "building" => AuthorizersResolve(config)
  /\ StackOutcome
  /\ OutcomeDetermined

(* The tests before a factory is called, and the factory's own, are those  *)
(* of Builds; for a multi task the embedded ones are left to do.           *)
LEMMA ItemOutcome ==
  ASSUME NEW it \in Items
  PROVE  LET type == TaskConf[it.task].type
             sound == /\ Callable(it, type)
                      /\ type # "info" => TaskConf[it.task].accepted
         IN  /\ ItemBuilds(it) => sound
             /\ sound /\ type # "multi" => ItemBuilds(it)
             /\ sound /\ type = "multi" =>
                  (ItemBuilds(it) <=> \A n \in DOMAIN Embedded(it.task) :
                                        ItemBuilds(Embedded(it.task)[n]))
  <1> DEFINE t == it.task
             type == TaskConf[t].type
             c == TaskConf[t]
  <1>1. t \in TaskIds
    BY DEF Items
  <1>2. Builds[t] <=> /\ type \in {"plain", "info", "multi"}
                      /\ c.query # "invalid"
                      /\ type # "info" => c.accepted
                      /\ type = "multi" =>
                           \A i \in DOMAIN c.tasks :
                             /\ ~WrittenAs(c.tasks[i], "multi")
                             /\ Builds[c.tasks[i]]
    BY <1>1, BuildsEquation, Zenon DEF BuildsBy
  <1>3. Callable(it, type) <=> /\ ~(it.embedded /\ WrittenAs(t, "multi"))
                               /\ c.query # "invalid"
                               /\ type \in {"plain", "info", "multi"}
    BY DEF Callable, TaskValid, Registered
  <1>4. (\A i \in DOMAIN c.tasks : ~WrittenAs(c.tasks[i], "multi") /\ Builds[c.tasks[i]])
          <=> \A n \in DOMAIN Embedded(t) : ItemBuilds(Embedded(t)[n])
    <2>1. DOMAIN Embedded(t) = DOMAIN c.tasks
      BY Zenon DEF Embedded
    <2>2. ASSUME NEW n \in DOMAIN c.tasks
          PROVE  /\ Embedded(t)[n].task = c.tasks[n]
                 /\ Embedded(t)[n].embedded = TRUE
      BY DEF Embedded
    <2>3. \A n \in DOMAIN c.tasks :
            ItemBuilds(Embedded(t)[n]) <=> ~WrittenAs(c.tasks[n], "multi") /\ Builds[c.tasks[n]]
      BY <2>2, Zenon DEF ItemBuilds
    <2> QED
      BY <2>1, <2>3, Zenon
  <1>5. ItemBuilds(it) <=> Builds[t] /\ ~(it.embedded /\ WrittenAs(t, "multi"))
    BY Zenon DEF ItemBuilds
  <1> HIDE DEF type, c, t
  <1>6. "multi" # "info" /\ "multi" # "plain"
    OBVIOUS
  <1> QED
    BY <1>2, <1>3, <1>4, <1>5, <1>6, Zenon DEF t, type, c

(* A list with a task that is wrong belongs to a method that is wrong.     *)
LEMMA WrongTask ==
  ASSUME OInv, HasWork, ~ItemBuilds(Item)
  PROVE  ~Acceptable
  <1>1. /\ FrameInv(config, Top) /\ config \in ConfigFiles /\ Top \in Frames
        /\ Len(stack) \in Nat \ {0} /\ stack \in Seq(Frames)
    BY TopInv DEF OInv, HasWork, IInv, TypeOK
  <1>2. Top = stack[Len(stack)] /\ Len(stack) \in DOMAIN stack
    BY <1>1 DEF Top
  <1>3. OnTrack(config, Top)
    BY <1>2 DEF OInv, StackOutcome, FrameOutcome
  <1>4. Item = Top.work[1] /\ 1 \in DOMAIN Top.work /\ Top.work # <<>>
    BY WorkShape DEF OInv
  <1>5. Top.cur # NoKey
    BY <1>1, <1>4 DEF FrameInv, Placed
  <1>6. ~Builds[Methods(config, Top.ep)[Top.cur]]
    BY <1>3, <1>4, <1>5, Zenon DEF OnTrack
  <1>7. /\ Top.ep \in DOMAIN config.endpoints
        /\ Top.cur \in DOMAIN Methods(config, Top.ep)
    <2>1. config.endpoints \in Seq(Endpoints) /\ Top.ep \in Nat
      BY <1>1 DEF ConfigFiles, Frames
    <2> QED
      BY <1>1, <1>5, <2>1 DEF FrameInv, Placed
  <1> QED
    BY <1>6, <1>7, Zenon DEF Acceptable, EndpointIds, MethodsOf, Methods

(* A start is only refused for a reason. *)
LEMMA RefuseOutcome ==
  ASSUME OInv, Refuse, ~Acceptable, IInv'
  PROVE  OInv'
  <1>1. phase' = "refused" /\ stack' = <<>> /\ config' = config
    BY DEF Refuse
  <1>2. Acceptable' <=> Acceptable
    BY <1>1 DEF Acceptable, EndpointIds, MethodsOf
  <1>3. DOMAIN stack' = {}
    BY <1>1
  <1> QED
    BY <1>1, <1>2, <1>3 DEF OInv, StackOutcome, OutcomeDetermined

(* The shape of every action that only replaces the top frame. *)
LEMMA TopOutcome ==
  ASSUME OInv, Building, NEW g \in Frames, FrameOutcome(config, g),
         stack' = WithTop(g), UNCHANGED <<config, phase, routes, listings>>, IInv'
  PROVE  OInv'
  <1>1. stack \in Seq(Frames) /\ stack # <<>>
    BY DEF OInv, IInv, TypeOK, StackInv, Building
  <1>2. /\ Len(stack') = Len(stack) /\ stack' \in Seq(Frames)
        /\ \A n \in DOMAIN stack : stack'[n] = IF n = Len(stack) THEN g ELSE stack[n]
    BY <1>1, TopReplaced
  <1>3. DOMAIN stack' = DOMAIN stack
    BY <1>1, <1>2
  <1>4. ASSUME NEW n \in DOMAIN stack'
        PROVE  /\ FrameOutcome(config', stack'[n])
               /\ n # Len(stack') => ItemBuilds(stack'[n].work[1])
    <2>1. config' = config
      OBVIOUS
    <2>2. CASE n = Len(stack)
      BY <1>2, <1>3, <2>1, <2>2
    <2>3. CASE n # Len(stack)
      <3>1. stack'[n] = stack[n] /\ n \in DOMAIN stack
        BY <1>2, <1>3, <2>3
      <3> QED
        BY <1>2, <2>1, <2>3, <3>1 DEF OInv, StackOutcome
    <2> QED
      BY <2>2, <2>3
  <1>5. StackOutcome'
    BY <1>4 DEF StackOutcome
  <1>6. phase' = "building" /\ AuthorizersResolve(config')
    BY DEF OInv, Building
  <1> QED
    BY <1>5, <1>6 DEF OInv, OutcomeDetermined

(* What the invariant says of the running activation. *)
LEMMA TopFrame ==
  ASSUME OInv, Building
  PROVE  /\ FrameInv(config, Top) /\ Top \in Frames /\ config \in ConfigFiles
         /\ FrameOutcome(config, Top)
         /\ Top.ignoring <=> Len(stack) # 1
  <1>1. /\ FrameInv(config, Top) /\ Top \in Frames /\ config \in ConfigFiles
        /\ (Top.ignoring <=> Len(stack) # 1)
        /\ Len(stack) \in Nat \ {0} /\ stack \in Seq(Frames)
    BY TopInv DEF OInv, IInv, TypeOK
  <1>2. Top = stack[Len(stack)] /\ Len(stack) \in DOMAIN stack
    BY <1>1 DEF Top
  <1> QED
    BY <1>1, <1>2 DEF OInv, StackOutcome

LEMMA RunOutcome == OInv /\ Run /\ IInv' => OInv'
  <1> SUFFICES ASSUME OInv, Run, IInv' PROVE OInv'
    OBVIOUS
  <1>1. CASE AuthorizersResolve(config)
    <2> DEFINE g == NewFrame(FALSE)
    <2>1. phase' = "building" /\ stack' = <<g>> /\ config' = config
      BY <1>1 DEF Run
    <2>2. config \in ConfigFiles /\ Len(config.endpoints) \in Nat
          /\ DOMAIN config.endpoints = 1..Len(config.endpoints)
      BY DEF OInv, IInv, TypeOK, ConfigFiles
    <2>3. g.cur = NoKey /\ g.ep = 0
      BY DEF NewFrame
    <2>4. FrameOutcome(config, g)
      <3> HIDE DEF g
      <3>1. \A i \in DOMAIN config.endpoints : ~(i <= g.ep) /\ \A k : ~Past(g, i, k)
        <4>1. \A i \in 1..Len(config.endpoints) : ~(i <= 0) /\ ~(i < 0) /\ i # 0
          BY <2>2
        <4> QED
          BY <2>2, <2>3, <4>1 DEF Past
      <3> QED
        BY <2>3, <3>1 DEF FrameOutcome, OnTrack, PastBuilt
    <2> HIDE DEF g
    <2>5. DOMAIN stack' = {1} /\ Len(stack') = 1 /\ stack'[1] = g
      BY <2>1
    <2>6. StackOutcome'
      BY <2>1, <2>4, <2>5 DEF StackOutcome
    <2> QED
      BY <1>1, <2>1, <2>6 DEF OInv, OutcomeDetermined
  <1>2. CASE ~AuthorizersResolve(config)
    <2>1. Refuse /\ ~Acceptable
      BY <1>2 DEF Run, Acceptable
    <2> QED
      BY <2>1, RefuseOutcome
  <1> QED
    BY <1>1, <1>2

LEMMA NextEndpointOutcome == OInv /\ NextEndpoint /\ IInv' => OInv'
  <1> SUFFICES ASSUME OInv, NextEndpoint, IInv' PROVE OInv'
    OBVIOUS
  <1> DEFINE f == Top
             e == f.ep + 1
             g == [f EXCEPT !.ep = e, !.todo = DOMAIN Methods(config, e)]
  <1>1. Building /\ f.cur = NoKey /\ f.todo = {} /\ f.ep < Len(config.endpoints)
    BY DEF NextEndpoint
  <1>2. /\ f \in Frames /\ config \in ConfigFiles /\ FrameOutcome(config, f)
    BY <1>1, TopFrame
  <1>3. f.ep \in Nat /\ e \in Nat /\ e \in DOMAIN config.endpoints
    BY <1>1, <1>2 DEF Frames, ConfigFiles
  <1>4. CASE EndpointValid(config.endpoints[e])
    <2>1. stack' = WithTop(g) /\ UNCHANGED <<config, phase, routes, listings>>
      BY <1>4 DEF NextEndpoint, Methods
    <2>2. DOMAIN Methods(config, e) \in SUBSET Keys
      BY <1>2, <1>3, FileShape
    <2>3. /\ g \in Frames /\ g.ep = e /\ g.todo = DOMAIN Methods(config, e) /\ g.cur = NoKey
          /\ g.ignoring = f.ignoring
      <3> HIDE DEF f, e
      <3> QED
        BY <1>1, <1>2, <1>3, <2>2 DEF Frames
    <2> HIDE DEF g
    <2>4. OnTrack(config, g)
      BY <2>3 DEF OnTrack
    <2>5. PastBuilt(config, g)
      <3>1. SUFFICES ASSUME ~f.ignoring, NEW i \in DOMAIN config.endpoints
                     PROVE  /\ i <= e => config.endpoints[i].query # "invalid"
                            /\ \A k \in DOMAIN Methods(config, i) :
                                 Past(g, i, k) => Builds[Methods(config, i)[k]]
        BY <2>3 DEF PastBuilt
      <3>2. i \in Nat /\ (i <= e => i <= f.ep \/ i = e)
        BY <1>2, <1>3, FileShape
      <3>3. \A k \in DOMAIN Methods(config, i) : Past(g, i, k) => Past(f, i, k)
        <4>1. ASSUME NEW k \in DOMAIN Methods(config, i), Past(g, i, k) PROVE Past(f, i, k)
          <5>1. k \in Keys /\ k # f.cur
            BY <1>1, <1>2, <3>1, FileShape, KeyAssumption
          <5>2. ~(i = e)
            BY <1>3, <2>3, <3>2, <4>1 DEF Past
          <5>3. i < e
            BY <2>3, <4>1, <5>2 DEF Past
          <5>4. i < f.ep \/ i = f.ep
            BY <1>3, <3>2, <5>3
          <5> QED
            BY <1>1, <5>1, <5>4 DEF Past
        <4> QED
          BY <4>1
      <3>4. /\ i <= f.ep => config.endpoints[i].query # "invalid"
            /\ \A k \in DOMAIN Methods(config, i) : Past(f, i, k) => Builds[Methods(config, i)[k]]
        BY <1>2, <3>1, Zenon DEF FrameOutcome, PastBuilt
      <3>5. config.endpoints[e].query # "invalid"
        BY <1>4 DEF EndpointValid
      <3>6. i <= e => config.endpoints[i].query # "invalid"
        BY <3>2, <3>4, <3>5
      <3> QED
        BY <3>3, <3>4, <3>6, Zenon
    <2> QED
      BY <1>1, <2>1, <2>3, <2>4, <2>5, TopOutcome DEF FrameOutcome
  <1>5. CASE ~EndpointValid(config.endpoints[e])
    <2>1. Refuse
      BY <1>5 DEF NextEndpoint
    <2>2. ~Acceptable
      BY <1>3, <1>5 DEF Acceptable, EndpointIds, EndpointValid
    <2> QED
      BY <2>1, <2>2, RefuseOutcome
  <1> QED
    BY <1>4, <1>5

LEMMA PickMethodOutcome ==
  ASSUME OInv, NEW k \in Keys, PickMethod(k), IInv'
  PROVE  OInv'
  <1> DEFINE f == Top
             t == CurrentTask(k)
             out == Rebind(f.out, f.ep, k)
             item == [task |-> t, embedded |-> FALSE]
             left == [[f EXCEPT !.out = out] EXCEPT !.todo = {}]
             picked == [[f EXCEPT !.out = out] EXCEPT
                          !.todo = f.todo \ {k}, !.cur = k, !.work = <<item>>]
  <1>1. /\ Building /\ f.cur = NoKey /\ k \in f.todo
        /\ UNCHANGED <<config, phase, routes, listings>>
        /\ Skips(t) => stack' = WithTop(left)
        /\ ~Skips(t) => stack' = WithTop(picked)
    BY DEF PickMethod
  <1>2. /\ f \in Frames /\ config \in ConfigFiles /\ FrameOutcome(config, f)
        /\ FrameInv(config, f)
    BY <1>1, TopFrame
  <1>3. out \in Seq(Routes)
    BY <1>2, OutShape, RebindShape
  <1>4. t = Methods(config, f.ep)[k] /\ t \in TaskIds
    <2>1. f.ep \in DOMAIN config.endpoints
      BY <1>1, <1>2 DEF FrameInv, Placed, Frames, ConfigFiles
    <2>2. k \in DOMAIN Methods(config, f.ep)
      BY <1>1, <1>2, <2>1 DEF FrameInv, Placed, Frames
    <2> QED
      BY <1>2, <2>1, <2>2, FileShape DEF CurrentTask, Methods
  <1>5. CASE Skips(t)
    <2>1. left \in Frames /\ left.cur = NoKey /\ left.ignoring = f.ignoring
      <3> HIDE DEF f, out
      <3> QED
        BY <1>1, <1>2, <1>3 DEF Frames
    <2> HIDE DEF left
    <2>2. f.ignoring
      BY <1>5 DEF Skips
    <2>3. FrameOutcome(config, left)
      BY <2>1, <2>2 DEF FrameOutcome, OnTrack, PastBuilt
    <2> QED
      BY <1>1, <1>5, <2>1, <2>3, TopOutcome
  <1>6. CASE ~Skips(t)
    <2>1. item \in Items /\ <<item>> \in Seq(Items) /\ DOMAIN <<item>> = {1} /\ <<item>>[1] = item
      BY <1>4, Singleton DEF Items
    <2>2. /\ picked \in Frames /\ picked.ep = f.ep /\ picked.todo = f.todo \ {k}
          /\ picked.cur = k /\ picked.work = <<item>> /\ picked.ignoring = f.ignoring
      <3> HIDE DEF f, out, item
      <3> QED
        BY <1>2, <1>3, <2>1 DEF Frames
    <2>3. item.task = t /\ item.embedded = FALSE
      OBVIOUS
    <2> HIDE DEF picked, item
    <2>4. ItemBuilds(item) <=> Builds[t]
      BY <2>3, Zenon DEF ItemBuilds
    <2>5. (\A n \in DOMAIN picked.work : ItemBuilds(picked.work[n])) <=> ItemBuilds(item)
      <3>1. DOMAIN picked.work = {1} /\ picked.work[1] = item
        BY <2>1, <2>2
      <3> QED
        BY <3>1, Zenon
    <2>6. OnTrack(config, picked)
      BY <1>4, <2>2, <2>4, <2>5, Zenon DEF OnTrack
    <2>7. \A i \in DOMAIN config.endpoints : \A n \in DOMAIN Methods(config, i) :
            Past(picked, i, n) => Past(f, i, n)
      <3>1. \A i \in DOMAIN config.endpoints : DOMAIN Methods(config, i) \subseteq Keys
        BY <1>2, FileShape
      <3> QED
        BY <1>1, <2>2, <3>1, KeyAssumption DEF Past
    <2>8. PastBuilt(config, picked)
      BY <1>2, <2>2, <2>7, Zenon DEF FrameOutcome, PastBuilt
    <2> QED
      BY <1>1, <1>6, <2>2, <2>6, <2>8, TopOutcome DEF FrameOutcome
  <1> QED
    BY <1>5, <1>6

LEMMA RejectOutcome == OInv /\ Reject /\ IInv' => OInv'
  <1> SUFFICES ASSUME OInv, Reject, IInv' PROVE OInv'
    OBVIOUS
  <1>1. HasWork /\ Refuse
    BY DEF Reject
  <1>2. Item \in Items /\ ItemType = TaskConf[Item.task].type
    BY <1>1, WorkShape DEF OInv
  <1>3. ~(Callable(Item, ItemType) /\ (ItemType # "info" => TaskConf[Item.task].accepted))
    BY DEF Reject, Callable, Registered
  <1>4. ~ItemBuilds(Item)
    BY <1>2, <1>3, ItemOutcome
  <1> QED
    BY <1>1, <1>4, WrongTask, RefuseOutcome

(* A list is right exactly if its first item is and the others are; a      *)
(* concatenation, if both lists are.                                       *)
LEMMA HeadAndTail ==
  ASSUME IInv, HasWork
  PROVE  (\A n \in DOMAIN Top.work : ItemBuilds(Top.work[n])) <=>
           ItemBuilds(Item) /\ \A n \in DOMAIN Tail(Top.work) : ItemBuilds(Tail(Top.work)[n])
  <1> DEFINE w == Top.work
  <1>1. /\ w \in Seq(Items) /\ w # <<>> /\ Item = w[1] /\ 1 \in DOMAIN w
        /\ \A n \in DOMAIN Tail(w) : n + 1 \in DOMAIN w /\ Tail(w)[n] = w[n + 1]
    BY WorkShape
  <1> HIDE DEF w
  <1>2. \A n \in DOMAIN w : n = 1 \/ (n - 1 \in DOMAIN Tail(w) /\ Tail(w)[n - 1] = w[n])
    <2> HIDE DEF Items
    <2> QED
      BY <1>1
  <1> QED
    BY <1>1, <1>2 DEF w

LEMMA BothLists ==
  ASSUME NEW a \in Seq(Items), NEW b \in Seq(Items)
  PROVE  (\A n \in DOMAIN a : ItemBuilds(a[n])) /\ (\A n \in DOMAIN b : ItemBuilds(b[n]))
           <=> \A n \in DOMAIN (a \o b) : ItemBuilds((a \o b)[n])
  <1> HIDE DEF Items
  <1>1. \A n \in DOMAIN a : n \in DOMAIN (a \o b) /\ (a \o b)[n] = a[n]
    OBVIOUS
  <1>2. \A n \in DOMAIN b :
          Len(a) + n \in DOMAIN (a \o b) /\ (a \o b)[Len(a) + n] = b[n]
    OBVIOUS
  <1>3. \A n \in DOMAIN (a \o b) :
          \/ n \in DOMAIN a /\ (a \o b)[n] = a[n]
          \/ n - Len(a) \in DOMAIN b /\ (a \o b)[n] = b[n - Len(a)]
    OBVIOUS
  <1> QED
    BY <1>1, <1>2, <1>3, Zenon

(* A factory that finishes the first item of its list. *)
LEMMA WorkOutcome ==
  ASSUME OInv, HasWork, NEW work \in Seq(Items),
         ItemBuilds(Item) /\ (\A n \in DOMAIN Tail(Top.work) : ItemBuilds(Tail(Top.work)[n]))
           <=> \A n \in DOMAIN work : ItemBuilds(work[n]),
         stack' = WithTop([Top EXCEPT !.work = work]),
         UNCHANGED <<config, phase, routes, listings>>, IInv'
  PROVE  OInv'
  <1> DEFINE f == Top
             g == [f EXCEPT !.work = work]
  <1>1. f \in Frames /\ FrameOutcome(config, f)
    BY TopFrame DEF HasWork
  <1>2. /\ g \in Frames /\ g.ep = f.ep /\ g.todo = f.todo /\ g.cur = f.cur
        /\ g.work = work /\ g.ignoring = f.ignoring
    <2> HIDE DEF f
    <2> QED
      BY <1>1 DEF Frames
  <1> HIDE DEF g
  <1>3. (\A n \in DOMAIN f.work : ItemBuilds(f.work[n])) <=>
          ItemBuilds(Item) /\ \A n \in DOMAIN Tail(f.work) : ItemBuilds(Tail(f.work)[n])
    BY HeadAndTail DEF OInv, HasWork
  <1>4. OnTrack(config, g)
    BY <1>1, <1>2, <1>3, Zenon DEF FrameOutcome, OnTrack
  <1>5. \A i, k : Past(g, i, k) <=> Past(f, i, k)
    BY <1>2 DEF Past
  <1>6. PastBuilt(config, g)
    BY <1>1, <1>2, <1>5, Zenon DEF FrameOutcome, PastBuilt
  <1> QED
    BY <1>2, <1>4, <1>6, TopOutcome DEF HasWork, FrameOutcome, g

LEMMA BuildPlainOutcome == OInv /\ BuildPlain /\ IInv' => OInv'
  <1> SUFFICES ASSUME OInv, BuildPlain, IInv' PROVE OInv'
    OBVIOUS
  <1>1. /\ HasWork /\ stack' = WithTop([Top EXCEPT !.work = Tail(Top.work)])
        /\ UNCHANGED <<config, phase, routes, listings>>
    BY DEF BuildPlain
  <1>2. /\ Item \in Items /\ ItemType = TaskConf[Item.task].type
        /\ Tail(Top.work) \in Seq(Items)
    BY <1>1, WorkShape DEF OInv
  <1>3. ItemBuilds(Item)
    BY <1>2, ItemOutcome DEF BuildPlain
  <1> QED
    BY <1>1, <1>2, <1>3, WorkOutcome

LEMMA BuildMultiOutcome == OInv /\ BuildMulti /\ IInv' => OInv'
  <1> SUFFICES ASSUME OInv, BuildMulti, IInv' PROVE OInv'
    OBVIOUS
  <1> DEFINE a == Embedded(Item.task)
             b == Tail(Top.work)
  <1>1. /\ HasWork /\ stack' = WithTop([Top EXCEPT !.work = a \o b])
        /\ UNCHANGED <<config, phase, routes, listings>>
    BY DEF BuildMulti
  <1>2. /\ Item \in Items /\ Item.task \in TaskIds
        /\ ItemType = TaskConf[Item.task].type /\ b \in Seq(Items)
    BY <1>1, WorkShape DEF OInv
  <1>3. a \in Seq(Items)
    BY <1>2, EmbeddedShape
  <1>4. ItemBuilds(Item) <=> \A n \in DOMAIN a : ItemBuilds(a[n])
    BY <1>2, ItemOutcome DEF BuildMulti
  <1> HIDE DEF a, b
  <1>5. a \o b \in Seq(Items)
    BY <1>2, <1>3
  <1>6. (\A n \in DOMAIN a : ItemBuilds(a[n])) /\ (\A n \in DOMAIN b : ItemBuilds(b[n]))
          <=> \A n \in DOMAIN (a \o b) : ItemBuilds((a \o b)[n])
    BY <1>2, <1>3, BothLists
  <1> QED
    BY <1>1, <1>4, <1>5, <1>6, WorkOutcome DEF b

LEMMA CallRoutesOutcome == OInv /\ CallRoutes /\ IInv' => OInv'
  <1> SUFFICES ASSUME OInv, CallRoutes, IInv' PROVE OInv'
    OBVIOUS
  <1>1. HasWork /\ AuthorizersResolve(config)
    BY DEF CallRoutes, HasWork, Building, OInv
  <1> DEFINE g == NewFrame(TRUE)
  <1>2. stack' = Append(stack, g) /\ UNCHANGED <<config, phase, routes, listings>>
    BY <1>1 DEF CallRoutes
  <1>3. g.cur = NoKey /\ g.ignoring = TRUE
    BY DEF NewFrame
  <1>4. FrameOutcome(config, g)
    BY <1>3 DEF FrameOutcome, OnTrack, PastBuilt
  <1> HIDE DEF g
  <1>5. stack \in Seq(Frames) /\ Len(stack) \in Nat /\ DOMAIN stack = 1..Len(stack)
    BY DEF OInv, IInv, TypeOK
  <1>6. /\ Len(stack') = Len(stack) + 1 /\ DOMAIN stack' = 1..(Len(stack) + 1)
        /\ \A n \in DOMAIN stack : stack'[n] = stack[n]
        /\ stack'[Len(stack) + 1] = g
    BY <1>2, <1>5
  <1>7. /\ Item \in Items /\ ItemType = TaskConf[Item.task].type
        /\ Item = Top.work[1]
    BY <1>1, WorkShape DEF OInv
  <1>8. ItemBuilds(Top.work[1])
    BY <1>7, ItemOutcome DEF CallRoutes
  <1>9. ASSUME NEW n \in DOMAIN stack'
        PROVE  /\ FrameOutcome(config', stack'[n])
               /\ n # Len(stack') => ItemBuilds(stack'[n].work[1])
    <2>1. CASE n = Len(stack) + 1
      BY <1>2, <1>4, <1>6, <2>1
    <2>2. CASE n # Len(stack) + 1
      <3>1. n \in DOMAIN stack /\ stack'[n] = stack[n] /\ config' = config
        BY <1>2, <1>5, <1>6, <2>2
      <3>2. n # Len(stack) => ItemBuilds(stack[n].work[1])
        BY <3>1 DEF OInv, StackOutcome
      <3>3. n = Len(stack) => ItemBuilds(stack[n].work[1])
        BY <1>8 DEF Top
      <3> QED
        BY <3>1, <3>2, <3>3 DEF OInv, StackOutcome
    <2> QED
      BY <2>1, <2>2
  <1>10. StackOutcome'
    BY <1>9 DEF StackOutcome
  <1> QED
    BY <1>1, <1>2, <1>10 DEF OInv, OutcomeDetermined, HasWork, Building

LEMMA OverflowOutcome == OInv /\ Overflow /\ IInv' => OInv'
  <1> SUFFICES ASSUME OInv, Overflow, IInv' PROVE OInv'
    OBVIOUS
  <1>1. phase' = "overflow" /\ DOMAIN stack' = {}
    BY DEF Overflow
  <1> QED
    BY <1>1 DEF OInv, StackOutcome, OutcomeDetermined

LEMMA AppendRouteOutcome == OInv /\ AppendRoute /\ IInv' => OInv'
  <1> SUFFICES ASSUME OInv, AppendRoute, IInv' PROVE OInv'
    OBVIOUS
  <1> DEFINE f == Top
             r == [ep |-> f.ep, method |-> f.cur, taskconf |-> f.cur]
             out == Append(f.out, r)
             g == [f EXCEPT !.cur = NoKey, !.out = out]
  <1>1. /\ Building /\ f.cur # NoKey /\ f.work = <<>> /\ stack' = WithTop(g)
        /\ UNCHANGED <<config, phase, routes, listings>>
    BY DEF AppendRoute, Built
  <1>2. f \in Frames /\ FrameOutcome(config, f) /\ FrameInv(config, f) /\ config \in ConfigFiles
    BY <1>1, TopFrame
  <1>3. r \in Routes
    BY <1>1, <1>2 DEF Frames, Routes
  <1>4. out \in Seq(Routes)
    <2> HIDE DEF f, r
    <2>1. f.out \in Seq(Routes)
      BY <1>2, OutShape
    <2> QED
      BY <1>3, <2>1
  <1>5. /\ g \in Frames /\ g.ep = f.ep /\ g.todo = f.todo /\ g.cur = NoKey
        /\ g.ignoring = f.ignoring
    <2> HIDE DEF f, out
    <2> QED
      BY <1>2, <1>4 DEF Frames
  <1> HIDE DEF g, out, r, f
  <1>6. DOMAIN f.work = {}
    BY <1>1
  <1>7. Builds[Methods(config, f.ep)[f.cur]]
    BY <1>1, <1>2, <1>6, Zenon DEF FrameOutcome, OnTrack
  <1>8. \A i, k : Past(g, i, k) => Past(f, i, k) \/ (i = f.ep /\ k = f.cur)
    BY <1>5 DEF Past
  <1>9. PastBuilt(config, g)
    BY <1>2, <1>5, <1>7, <1>8, Zenon DEF FrameOutcome, PastBuilt
  <1>10. OnTrack(config, g)
    BY <1>5 DEF OnTrack
  <1> QED
    BY <1>1, <1>5, <1>9, <1>10, TopOutcome DEF FrameOutcome

LEMMA ReturnToRouterOutcome == OInv /\ ReturnToRouter /\ IInv' => OInv'
  <1> SUFFICES ASSUME OInv, ReturnToRouter, IInv' PROVE OInv'
    OBVIOUS
  <1>1. /\ Building /\ Top.cur = NoKey /\ Top.todo = {} /\ Top.ep = Len(config.endpoints)
        /\ Len(stack) = 1 /\ phase' = "routed" /\ stack' = <<>> /\ config' = config
    BY DEF ReturnToRouter, Finished
  <1>2. /\ Top \in Frames /\ config \in ConfigFiles /\ FrameOutcome(config, Top)
        /\ ~Top.ignoring
    BY <1>1, TopFrame
  <1>3. ASSUME NEW i \in DOMAIN config.endpoints
        PROVE  /\ config.endpoints[i].query # "invalid"
               /\ \A k \in DOMAIN Methods(config, i) : Builds[Methods(config, i)[k]]
    <2>1. i <= Top.ep
      BY <1>1, <1>2, FileShape
    <2>2. \A k \in DOMAIN Methods(config, i) : Past(Top, i, k)
      BY <1>1, <1>2, EndIsPast
    <2> QED
      BY <1>2, <2>1, <2>2, Zenon DEF FrameOutcome, PastBuilt
  <1>4. AuthorizersResolve(config)
    BY <1>1 DEF OInv, Building
  <1>5. Acceptable
    BY <1>3, <1>4, Zenon DEF Acceptable, EndpointIds, MethodsOf, Methods
  <1>6. Acceptable'
    BY <1>1, <1>5 DEF Acceptable, EndpointIds, MethodsOf
  <1>7. DOMAIN stack' = {}
    BY <1>1
  <1> QED
    BY <1>1, <1>6, <1>7 DEF OInv, StackOutcome, OutcomeDetermined

(* The activation below goes on with the item after its info task, which   *)
(* was right.                                                              *)
LEMMA ReturnToInfoOutcome == OInv /\ ReturnToInfo /\ IInv' => OInv'
  <1> SUFFICES ASSUME OInv, ReturnToInfo, IInv' PROVE OInv'
    OBVIOUS
  <1> DEFINE m == Len(stack) - 1
             f == stack[m]
             g == [f EXCEPT !.work = Tail(f.work)]
  <1>1. /\ Len(stack) > 1 /\ Building
        /\ stack' = [n \in 1..m |-> IF n = m THEN g ELSE stack[n]]
        /\ UNCHANGED <<config, phase, routes>>
    BY DEF ReturnToInfo, Resumed, Finished
  <1>2. stack \in Seq(Frames) /\ Len(stack) \in Nat /\ DOMAIN stack = 1..Len(stack)
    BY DEF OInv, IInv, TypeOK
  <1>3. m \in DOMAIN stack /\ m \in 1..m /\ m # Len(stack) /\ m \in Nat
        /\ \A n \in 1..m : n \in DOMAIN stack /\ n # Len(stack)
    BY <1>1, <1>2, Predecessor
  <1>4. /\ f \in Frames /\ f.work # <<>> /\ FrameOutcome(config, f) /\ ItemBuilds(f.work[1])
    BY <1>3 DEF OInv, IInv, StackInv, FrameInv, StackOutcome
  <1>5. f.work \in Seq(Items)
    BY <1>4 DEF Frames
  <1> HIDE DEF f, m
  <1>6. /\ Tail(f.work) \in Seq(Items) /\ 1 \in DOMAIN f.work
        /\ \A n \in DOMAIN Tail(f.work) :
             n + 1 \in DOMAIN f.work /\ Tail(f.work)[n] = f.work[n + 1]
        /\ \A n \in DOMAIN f.work :
             n = 1 \/ (n - 1 \in DOMAIN Tail(f.work) /\ Tail(f.work)[n - 1] = f.work[n])
    <2> DEFINE w == f.work
    <2>1. w \in Seq(Items) /\ w # <<>>
      BY <1>4, <1>5
    <2> HIDE DEF Items, w
    <2> QED
      BY <2>1 DEF w
  <1>7. /\ g \in Frames /\ g.ep = f.ep /\ g.todo = f.todo /\ g.cur = f.cur
        /\ g.work = Tail(f.work) /\ g.ignoring = f.ignoring
    BY <1>4, <1>6 DEF Frames
  <1> HIDE DEF g
  <1>8. (\A n \in DOMAIN f.work : ItemBuilds(f.work[n])) <=>
          \A n \in DOMAIN g.work : ItemBuilds(g.work[n])
    <2>1. (\A n \in DOMAIN f.work : ItemBuilds(f.work[n])) <=>
            \A n \in DOMAIN Tail(f.work) : ItemBuilds(Tail(f.work)[n])
      BY <1>4, <1>6, Zenon
    <2> QED
      BY <1>7, <2>1
  <1>9. OnTrack(config, g)
    BY <1>4, <1>7, <1>8, Zenon DEF FrameOutcome, OnTrack
  <1>10. \A i, k : Past(g, i, k) <=> Past(f, i, k)
    BY <1>7 DEF Past
  <1>11. PastBuilt(config, g)
    BY <1>4, <1>7, <1>10, Zenon DEF FrameOutcome, PastBuilt
  <1>12. /\ Len(stack') = m /\ DOMAIN stack' = 1..m
         /\ \A n \in 1..m : stack'[n] = IF n = m THEN g ELSE stack[n]
    BY <1>1, <1>3
  <1>13. ASSUME NEW n \in DOMAIN stack'
         PROVE  /\ FrameOutcome(config', stack'[n])
                /\ n # Len(stack') => ItemBuilds(stack'[n].work[1])
    <2>1. CASE n = m
      BY <1>1, <1>9, <1>11, <1>12, <2>1 DEF FrameOutcome
    <2>2. CASE n # m
      <3>1. n \in DOMAIN stack /\ n # Len(stack) /\ stack'[n] = stack[n] /\ config' = config
        BY <1>1, <1>3, <1>12, <2>2
      <3> QED
        BY <3>1 DEF OInv, StackOutcome
    <2> QED
      BY <2>1, <2>2
  <1>14. StackOutcome'
    BY <1>13 DEF StackOutcome
  <1> QED
    BY <1>1, <1>14 DEF OInv, OutcomeDetermined, Building

LEMMA InitOutcome == Init => OInv
  <1> SUFFICES ASSUME Init PROVE OInv
    OBVIOUS
  <1>1. phase = "init" /\ DOMAIN stack = {}
    BY DEF Init
  <1> QED
    BY <1>1, InitInv DEF OInv, StackOutcome, OutcomeDetermined

LEMMA NextOutcome == OInv /\ [Next]_vars => OInv'
  <1> SUFFICES ASSUME OInv, [Next]_vars PROVE OInv'
    OBVIOUS
  <1>1. IInv'
    BY NextInv DEF OInv
  <1>2. CASE Run
    BY <1>1, <1>2, RunOutcome
  <1>3. CASE NextEndpoint
    BY <1>1, <1>3, NextEndpointOutcome
  <1>4. CASE \E k \in Keys : PickMethod(k)
    BY <1>1, <1>4, PickMethodOutcome
  <1>5. CASE Reject
    BY <1>1, <1>5, RejectOutcome
  <1>6. CASE BuildPlain
    BY <1>1, <1>6, BuildPlainOutcome
  <1>7. CASE BuildMulti
    BY <1>1, <1>7, BuildMultiOutcome
  <1>8. CASE CallRoutes
    BY <1>1, <1>8, CallRoutesOutcome
  <1>9. CASE Overflow
    BY <1>1, <1>9, OverflowOutcome
  <1>10. CASE AppendRoute
    BY <1>1, <1>10, AppendRouteOutcome
  <1>11. CASE ReturnToRouter
    BY <1>1, <1>11, ReturnToRouterOutcome
  <1>12. CASE ReturnToInfo
    BY <1>1, <1>12, ReturnToInfoOutcome
  <1>13. CASE UNCHANGED vars
    <2>1. config' = config /\ phase' = phase /\ stack' = stack
      BY <1>13 DEF vars
    <2> QED
      BY <1>1, <2>1
      DEF OInv, StackOutcome, OutcomeDetermined, Acceptable, EndpointIds, MethodsOf
  <1> QED
    BY <1>2, <1>3, <1>4, <1>5, <1>6, <1>7, <1>8, <1>9, <1>10, <1>11, <1>12, <1>13 DEF Next

(* Whether a server comes up depends on its configuration file alone: not  *)
(* on the order in which routes ranges over a map, and not on a method     *)
(* that a nested call of routes left out.                                  *)
THEOREM OutcomeIsDetermined == Spec => []OutcomeDetermined
  <1>1. OInv => OutcomeDetermined
    BY DEF OInv
  <1>2. Spec => []OInv
    BY InitOutcome, NextOutcome, PTL DEF Spec
  <1> QED
    BY <1>1, <1>2, PTL

-----------------------------------------------------------------------------
(* INFO TASKS: WHAT THEY LIST, AND WHEN THEY NEVER RETURN *)

(* An info task, or a multi task in which one is embedded, however deep:   *)
(* a set of tasks leads to an info task if each of its members is one or   *)
(* embeds a member, for embedding ends.                                    *)
LeadsToInfo(S) ==
  \A t \in S :
    \/ TaskConf[t].type = "info"
    \/ /\ TaskConf[t].type = "multi"
       /\ \E n \in DOMAIN TaskConf[t].tasks : TaskConf[t].tasks[n] \in S

ReachesInfo(t) == \E S \in SUBSET TaskIds : t \in S /\ LeadsToInfo(S)

(* A method that calls routes again and that the nested call builds again: *)
(* no method of its endpoint is written "info", the only word that leaves  *)
(* an endpoint out.                                                        *)
Circular(c, i, k) == ReachesInfo(Methods(c, i)[k]) /\ ~InfoAt(c, i)

CircularFile(c) ==
  \E i \in DOMAIN c.endpoints : \E k \in DOMAIN Methods(c, i) : Circular(c, i, k)

(* The turn of such a method never ends. *)
Waits(c, f) ==
  \A i \in DOMAIN c.endpoints : \A k \in DOMAIN Methods(c, i) : Circular(c, i, k) =>
    /\ ~Past(f, i, k)
    /\ f.ep = i /\ f.cur = k => \E n \in DOMAIN f.work : ReachesInfo(f.work[n].task)

(* All routes of one endpoint point at one variable. *)
SharesTask(c, out) ==
  /\ \A j \in DOMAIN out : out[j].taskconf \in DOMAIN Methods(c, out[j].ep)
  /\ \A j1, j2 \in DOMAIN out :
       out[j1].ep = out[j2].ep => out[j1].taskconf = out[j2].taskconf

Points(c, f) ==
  /\ SharesTask(c, f.out)
  /\ f.cur # NoKey => \A j \in DOMAIN f.out : f.out[j].ep = f.ep => f.out[j].taskconf = f.cur

FrameInfo(c, f) == Waits(c, f) /\ Points(c, f)

ListingsShareTask == \A l \in listings : SharesTask(config, l)

NoReturn == CircularFile(config) => listings = {} /\ phase # "routed"

EInv ==
  /\ IInv
  /\ \A n \in DOMAIN stack : FrameInfo(config, stack[n])
  /\ ListingsShareTask
  /\ NoReturn

LEMMA EndOfStack ==
  ASSUME EInv, stack' = <<>>, UNCHANGED <<config, listings>>, phase' # "routed", IInv'
  PROVE  EInv'
  <1>1. DOMAIN stack' = {}
    OBVIOUS
  <1> QED
    BY <1>1 DEF EInv, ListingsShareTask, NoReturn

(* The shape of every action that only replaces the top frame. *)
LEMMA TopInfo ==
  ASSUME EInv, Building, NEW g \in Frames, FrameInfo(config, g),
         stack' = WithTop(g), UNCHANGED <<config, phase, routes, listings>>, IInv'
  PROVE  EInv'
  <1>1. stack \in Seq(Frames) /\ stack # <<>>
    BY DEF EInv, IInv, TypeOK, StackInv, Building
  <1>2. /\ Len(stack') = Len(stack) /\ stack' \in Seq(Frames)
        /\ \A n \in DOMAIN stack : stack'[n] = IF n = Len(stack) THEN g ELSE stack[n]
    BY <1>1, TopReplaced
  <1>3. DOMAIN stack' = DOMAIN stack
    BY <1>1, <1>2
  <1>4. \A n \in DOMAIN stack' : FrameInfo(config, stack'[n])
    BY <1>2, <1>3 DEF EInv
  <1> QED
    BY <1>4 DEF EInv, ListingsShareTask, NoReturn

LEMMA TopFrameInfo ==
  ASSUME EInv, Building
  PROVE  /\ FrameInv(config, Top) /\ Top \in Frames /\ config \in ConfigFiles
         /\ Waits(config, Top) /\ Points(config, Top)
         /\ Top.ignoring <=> Len(stack) # 1
  <1>1. /\ FrameInv(config, Top) /\ Top \in Frames /\ config \in ConfigFiles
        /\ (Top.ignoring <=> Len(stack) # 1)
        /\ Len(stack) \in Nat \ {0} /\ stack \in Seq(Frames)
    BY TopInv DEF EInv, IInv, TypeOK
  <1>2. Top = stack[Len(stack)] /\ Len(stack) \in DOMAIN stack
    BY <1>1 DEF Top
  <1> QED
    BY <1>1, <1>2 DEF EInv, FrameInfo

LEMMA NewFrameInfo ==
  ASSUME NEW c \in ConfigFiles, NEW ignoring \in BOOLEAN
  PROVE  FrameInfo(c, NewFrame(ignoring))
  <1> DEFINE f == NewFrame(ignoring)
  <1>1. f.cur = NoKey /\ f.ep = 0 /\ f.out = <<>>
    BY DEF NewFrame
  <1> HIDE DEF f
  <1>2. \A i \in DOMAIN c.endpoints : i \in Nat /\ i > 0
    BY FileShape
  <1>3. Waits(c, f)
    BY <1>1, <1>2 DEF Waits, Past
  <1>4. Points(c, f)
    BY <1>1 DEF Points, SharesTask
  <1> QED
    BY <1>3, <1>4 DEF FrameInfo, f

LEMMA RunInfo == EInv /\ Run /\ IInv' => EInv'
  <1> SUFFICES ASSUME EInv, Run, IInv' PROVE EInv'
    OBVIOUS
  <1>1. CASE AuthorizersResolve(config)
    <2> DEFINE g == NewFrame(FALSE)
    <2>1. phase' = "building" /\ stack' = <<g>> /\ config' = config /\ listings' = listings
      BY <1>1 DEF Run
    <2>2. FrameInfo(config, g)
      BY NewFrameInfo DEF EInv, IInv, TypeOK
    <2> HIDE DEF g
    <2>3. \A n \in DOMAIN stack' : FrameInfo(config, stack'[n])
      BY <2>1, <2>2
    <2> QED
      BY <2>1, <2>3 DEF EInv, ListingsShareTask, NoReturn
  <1>2. CASE ~AuthorizersResolve(config)
    <2>1. Refuse
      BY <1>2 DEF Run
    <2> QED
      BY <2>1, EndOfStack DEF Refuse
  <1> QED
    BY <1>1, <1>2

LEMMA NextEndpointInfo == EInv /\ NextEndpoint /\ IInv' => EInv'
  <1> SUFFICES ASSUME EInv, NextEndpoint, IInv' PROVE EInv'
    OBVIOUS
  <1>1. CASE Refuse
    BY <1>1, EndOfStack DEF Refuse
  <1>2. CASE ~Refuse
    <2> DEFINE f == Top
               e == f.ep + 1
               g == [f EXCEPT !.ep = e, !.todo = DOMAIN Methods(config, e)]
    <2>1. /\ Building /\ f.cur = NoKey /\ f.todo = {} /\ f.ep < Len(config.endpoints)
          /\ stack' = WithTop(g)
          /\ UNCHANGED <<config, phase, routes, listings>>
      BY <1>2 DEF NextEndpoint, Methods
    <2>2. /\ f \in Frames /\ config \in ConfigFiles /\ Waits(config, f) /\ Points(config, f)
      BY <2>1, TopFrameInfo
    <2>3. f.ep \in Nat /\ e \in Nat /\ e \in DOMAIN config.endpoints
      BY <2>1, <2>2 DEF Frames, ConfigFiles
    <2>4. DOMAIN Methods(config, e) \in SUBSET Keys
      BY <2>2, <2>3, FileShape
    <2>5. /\ g \in Frames /\ g.ep = e /\ g.todo = DOMAIN Methods(config, e) /\ g.cur = NoKey
          /\ g.out = f.out
      <3> HIDE DEF f, e
      <3> QED
        BY <2>1, <2>2, <2>3, <2>4 DEF Frames
    <2> HIDE DEF g
    <2>6. Points(config, g)
      BY <2>2, <2>5 DEF Points
    <2>7. Waits(config, g)
      <3>1. SUFFICES ASSUME NEW i \in DOMAIN config.endpoints, NEW k \in DOMAIN Methods(config, i),
                            Circular(config, i, k)
                     PROVE  ~Past(g, i, k) /\ g.cur # k
        BY DEF Waits
      <3>2. k \in Keys /\ k # NoKey /\ i \in Nat
        BY <2>2, FileShape, KeyAssumption
      <3>3. ~Past(f, i, k)
        BY <2>2, <3>1 DEF Waits
      <3>4. ~(i < f.ep) /\ i # f.ep
        BY <2>1, <3>2, <3>3 DEF Past
      <3>5. ~(i < e)
        BY <2>3, <3>2, <3>4
      <3> QED
        BY <2>5, <3>2, <3>5 DEF Past
    <2> QED
      BY <2>1, <2>5, <2>6, <2>7, TopInfo DEF FrameInfo
  <1> QED
    BY <1>1, <1>2

LEMMA PickMethodInfo ==
  ASSUME EInv, NEW k \in Keys, PickMethod(k), IInv'
  PROVE  EInv'
  <1> DEFINE f == Top
             t == CurrentTask(k)
             out == Rebind(f.out, f.ep, k)
             item == [task |-> t, embedded |-> FALSE]
             left == [[f EXCEPT !.out = out] EXCEPT !.todo = {}]
             picked == [[f EXCEPT !.out = out] EXCEPT
                          !.todo = f.todo \ {k}, !.cur = k, !.work = <<item>>]
  <1>1. /\ Building /\ f.cur = NoKey /\ k \in f.todo /\ k # NoKey
        /\ UNCHANGED <<config, phase, routes, listings>>
        /\ Skips(t) => stack' = WithTop(left)
        /\ ~Skips(t) => stack' = WithTop(picked)
    BY KeyAssumption DEF PickMethod
  <1>2. /\ f \in Frames /\ config \in ConfigFiles /\ Waits(config, f) /\ Points(config, f)
        /\ FrameInv(config, f)
    BY <1>1, TopFrameInfo
  <1>3. f.ep \in DOMAIN config.endpoints
    BY <1>1, <1>2 DEF FrameInv, Placed, Frames, ConfigFiles
  <1>4. k \in DOMAIN Methods(config, f.ep) /\ t = Methods(config, f.ep)[k] /\ t \in TaskIds
    <2>1. k \in DOMAIN Methods(config, f.ep)
      BY <1>1, <1>2, <1>3 DEF FrameInv, Placed, Frames
    <2> QED
      BY <1>2, <1>3, <2>1, FileShape DEF CurrentTask, Methods
  <1>5. /\ out \in Seq(Routes) /\ DOMAIN out = DOMAIN f.out
        /\ \A j \in DOMAIN f.out :
             out[j].ep = f.out[j].ep
             /\ out[j].taskconf = IF f.out[j].ep = f.ep THEN k ELSE f.out[j].taskconf
    <2>1. f.out \in Seq(Routes)
      BY <1>2, OutShape
    <2>2. out \in Seq(Routes) /\ DOMAIN out = DOMAIN f.out
          /\ \A j \in DOMAIN f.out : out[j].ep = f.out[j].ep
      BY <2>1, RebindShape
    <2>3. ASSUME NEW j \in DOMAIN f.out
          PROVE  out[j].taskconf = IF f.out[j].ep = f.ep THEN k ELSE f.out[j].taskconf
      <3>1. f.out[j] \in Routes
        BY <2>1
      <3> QED
        BY <3>1 DEF Rebind, Routes
    <2> QED
      BY <2>2, <2>3
  <1> HIDE DEF out
  <1>6. SharesTask(config, out)
    BY <1>2, <1>4, <1>5 DEF Points, SharesTask
  <1>7. \A j \in DOMAIN out : out[j].ep = f.ep => out[j].taskconf = k
    BY <1>5
  <1>8. CASE Skips(t)
    <2>1. left \in Frames /\ left.cur = NoKey /\ left.ep = f.ep /\ left.out = out
      <3> HIDE DEF f
      <3> QED
        BY <1>1, <1>2, <1>5 DEF Frames
    <2> HIDE DEF left
    <2>2. InfoAt(config, f.ep)
      BY <1>4, <1>8 DEF Skips, InfoAt
    <2>3. Waits(config, left)
      <3>1. SUFFICES ASSUME NEW i \in DOMAIN config.endpoints, NEW n \in DOMAIN Methods(config, i),
                            Circular(config, i, n)
                     PROVE  ~Past(left, i, n) /\ left.cur # n
        BY DEF Waits
      <3>2. i # f.ep /\ ~Past(f, i, n)
        BY <1>2, <2>2, <3>1 DEF Waits, Circular
      <3>3. n # NoKey
        BY <1>2, <3>1, FileShape, KeyAssumption
      <3> QED
        BY <2>1, <3>2, <3>3 DEF Past
    <2>4. Points(config, left)
      BY <1>6, <2>1 DEF Points
    <2> QED
      BY <1>1, <1>8, <2>1, <2>3, <2>4, TopInfo DEF FrameInfo
  <1>9. CASE ~Skips(t)
    <2>1. item \in Items /\ <<item>> \in Seq(Items) /\ 1 \in DOMAIN <<item>> /\ <<item>>[1] = item
      BY <1>4, Singleton DEF Items
    <2>2. /\ picked \in Frames /\ picked.ep = f.ep /\ picked.todo = f.todo \ {k}
          /\ picked.cur = k /\ picked.work = <<item>> /\ picked.out = out
      <3> HIDE DEF f, item
      <3> QED
        BY <1>2, <1>5, <2>1 DEF Frames
    <2>3. item.task = t
      OBVIOUS
    <2> HIDE DEF picked, item
    <2>4. Waits(config, picked)
      <3>1. SUFFICES ASSUME NEW i \in DOMAIN config.endpoints, NEW n \in DOMAIN Methods(config, i),
                            Circular(config, i, n)
                     PROVE  /\ ~Past(picked, i, n)
                            /\ i = f.ep /\ k = n => ReachesInfo(picked.work[1].task)
        BY <2>1, <2>2 DEF Waits
      <3>2. ~Past(f, i, n)
        BY <1>2, <3>1 DEF Waits
      <3>3. n # NoKey
        BY <1>2, <3>1, FileShape, KeyAssumption
      <3>4. ~Past(picked, i, n)
        BY <1>1, <2>2, <3>2, <3>3 DEF Past
      <3>5. ASSUME i = f.ep, k = n PROVE ReachesInfo(picked.work[1].task)
        <4>1. ReachesInfo(t)
          BY <1>4, <3>1, <3>5 DEF Circular
        <4>2. picked.work[1].task = t
          BY <2>1, <2>2, <2>3
        <4> QED
          BY <4>1, <4>2
      <3> QED
        BY <3>4, <3>5
    <2>5. Points(config, picked)
      BY <1>6, <1>7, <2>2 DEF Points
    <2> QED
      BY <1>1, <1>9, <2>2, <2>4, <2>5, TopInfo DEF FrameInfo
  <1> QED
    BY <1>8, <1>9

(* A factory that goes on, unless it was at an info task, still has to     *)
(* reach the info task it had to.                                          *)
LEMMA WorkInfo ==
  ASSUME EInv, HasWork, NEW work \in Seq(Items),
         ReachesInfo(Item.task) \/ (\E n \in DOMAIN Tail(Top.work) :
                                      ReachesInfo(Tail(Top.work)[n].task))
           => \E n \in DOMAIN work : ReachesInfo(work[n].task),
         stack' = WithTop([Top EXCEPT !.work = work]),
         UNCHANGED <<config, phase, routes, listings>>, IInv'
  PROVE  EInv'
  <1> DEFINE f == Top
             g == [f EXCEPT !.work = work]
  <1>1. f \in Frames /\ Waits(config, f) /\ Points(config, f)
    BY TopFrameInfo DEF HasWork
  <1>2. /\ g \in Frames /\ g.ep = f.ep /\ g.todo = f.todo /\ g.cur = f.cur
        /\ g.work = work /\ g.out = f.out
    <2> HIDE DEF f
    <2> QED
      BY <1>1 DEF Frames
  <1> HIDE DEF g
  <1>3. (\E n \in DOMAIN f.work : ReachesInfo(f.work[n].task))
          => \E n \in DOMAIN work : ReachesInfo(work[n].task)
    <2>1. /\ Item = f.work[1] /\ f.work \in Seq(Items) /\ f.work # <<>>
      BY WorkShape DEF EInv
    <2>2. \A n \in DOMAIN f.work :
            n = 1 \/ (n - 1 \in DOMAIN Tail(f.work) /\ Tail(f.work)[n - 1] = f.work[n])
      <3> DEFINE w == f.work
      <3> HIDE DEF Items, w
      <3> QED
        BY <2>1 DEF w
    <2> QED
      BY <2>1, <2>2
  <1>4. \A i, k : Past(g, i, k) <=> Past(f, i, k)
    BY <1>2 DEF Past
  <1>5. Waits(config, g)
    BY <1>1, <1>2, <1>3, <1>4, Zenon DEF Waits
  <1>6. Points(config, g)
    BY <1>1, <1>2 DEF Points
  <1> QED
    BY <1>2, <1>5, <1>6, TopInfo DEF HasWork, FrameInfo, g

LEMMA BuildPlainInfo == EInv /\ BuildPlain /\ IInv' => EInv'
  <1> SUFFICES ASSUME EInv, BuildPlain, IInv' PROVE EInv'
    OBVIOUS
  <1>1. /\ HasWork /\ stack' = WithTop([Top EXCEPT !.work = Tail(Top.work)])
        /\ UNCHANGED <<config, phase, routes, listings>>
    BY DEF BuildPlain
  <1>2. ItemType = TaskConf[Item.task].type /\ Tail(Top.work) \in Seq(Items)
    BY <1>1, WorkShape DEF EInv
  <1>3. ~ReachesInfo(Item.task)
    BY <1>2 DEF BuildPlain, ReachesInfo, LeadsToInfo
  <1> QED
    BY <1>1, <1>2, <1>3, WorkInfo

LEMMA BuildMultiInfo == EInv /\ BuildMulti /\ IInv' => EInv'
  <1> SUFFICES ASSUME EInv, BuildMulti, IInv' PROVE EInv'
    OBVIOUS
  <1> DEFINE a == Embedded(Item.task)
             b == Tail(Top.work)
  <1>1. /\ HasWork /\ stack' = WithTop([Top EXCEPT !.work = a \o b])
        /\ UNCHANGED <<config, phase, routes, listings>>
    BY DEF BuildMulti
  <1>2. /\ Item.task \in TaskIds
        /\ ItemType = TaskConf[Item.task].type /\ b \in Seq(Items)
    BY <1>1, WorkShape DEF EInv
  <1>3. /\ a \in Seq(Items) /\ DOMAIN a = DOMAIN TaskConf[Item.task].tasks
        /\ \A n \in DOMAIN a : a[n].task = TaskConf[Item.task].tasks[n]
    <2>1. a \in Seq(Items)
      BY <1>2, EmbeddedShape
    <2> QED
      BY <2>1 DEF Embedded
  <1>4. ReachesInfo(Item.task) => \E n \in DOMAIN a : ReachesInfo(a[n].task)
    <2>1. SUFFICES ASSUME NEW S \in SUBSET TaskIds, Item.task \in S, LeadsToInfo(S)
                   PROVE  \E n \in DOMAIN a : ReachesInfo(a[n].task)
      BY DEF ReachesInfo
    <2>2. TaskConf[Item.task].type # "info"
      BY <1>2 DEF BuildMulti
    <2>3. PICK n \in DOMAIN TaskConf[Item.task].tasks : TaskConf[Item.task].tasks[n] \in S
      BY <2>1, <2>2 DEF LeadsToInfo
    <2>4. n \in DOMAIN a /\ a[n].task \in S
      BY <1>3, <2>3
    <2> QED
      BY <2>1, <2>4 DEF ReachesInfo
  <1> HIDE DEF a, b
  <1>5. /\ a \o b \in Seq(Items)
        /\ \A n \in DOMAIN a : n \in DOMAIN (a \o b) /\ (a \o b)[n] = a[n]
        /\ \A n \in DOMAIN b : Len(a) + n \in DOMAIN (a \o b) /\ (a \o b)[Len(a) + n] = b[n]
    <2> HIDE DEF Items
    <2> QED
      BY <1>2, <1>3
  <1>6. ReachesInfo(Item.task) \/ (\E n \in DOMAIN b : ReachesInfo(b[n].task))
          => \E n \in DOMAIN (a \o b) : ReachesInfo((a \o b)[n].task)
    BY <1>4, <1>5
  <1> QED
    BY <1>1, <1>5, <1>6, WorkInfo DEF b

LEMMA CallRoutesInfo == EInv /\ CallRoutes /\ IInv' => EInv'
  <1> SUFFICES ASSUME EInv, CallRoutes, IInv' PROVE EInv'
    OBVIOUS
  <1>1. CASE ~Refuse
    <2> DEFINE g == NewFrame(TRUE)
    <2>1. stack' = Append(stack, g) /\ UNCHANGED <<config, phase, routes, listings>>
      BY <1>1 DEF CallRoutes
    <2>2. FrameInfo(config, g)
      BY NewFrameInfo DEF EInv, IInv, TypeOK
    <2> HIDE DEF g
    <2>3. stack \in Seq(Frames) /\ Len(stack) \in Nat /\ DOMAIN stack = 1..Len(stack)
      BY DEF EInv, IInv, TypeOK
    <2>4. \A n \in DOMAIN stack' : stack'[n] = g \/ (n \in DOMAIN stack /\ stack'[n] = stack[n])
      BY <2>1, <2>3
    <2>5. \A n \in DOMAIN stack' : FrameInfo(config, stack'[n])
      BY <2>2, <2>4 DEF EInv
    <2> QED
      BY <2>1, <2>5 DEF EInv, ListingsShareTask, NoReturn
  <1>2. CASE Refuse
    BY <1>2, EndOfStack DEF Refuse
  <1> QED
    BY <1>1, <1>2

LEMMA AppendRouteInfo == EInv /\ AppendRoute /\ IInv' => EInv'
  <1> SUFFICES ASSUME EInv, AppendRoute, IInv' PROVE EInv'
    OBVIOUS
  <1> DEFINE f == Top
             r == [ep |-> f.ep, method |-> f.cur, taskconf |-> f.cur]
             out == Append(f.out, r)
             g == [f EXCEPT !.cur = NoKey, !.out = out]
  <1>1. /\ Building /\ f.cur # NoKey /\ f.work = <<>> /\ stack' = WithTop(g)
        /\ UNCHANGED <<config, phase, routes, listings>>
    BY DEF AppendRoute, Built
  <1>2. /\ f \in Frames /\ config \in ConfigFiles /\ Waits(config, f) /\ Points(config, f)
        /\ FrameInv(config, f)
    BY <1>1, TopFrameInfo
  <1>3. f.ep \in Nat /\ f.ep > 0 /\ f.cur \in DOMAIN Methods(config, f.ep)
    BY <1>1, <1>2 DEF FrameInv, Placed, Frames
  <1>4. r \in Routes /\ r.ep = f.ep /\ r.taskconf = f.cur
    BY <1>1, <1>2 DEF Frames, Routes
  <1>5. /\ out \in Seq(Routes)
        /\ \A j \in DOMAIN out : out[j] = r \/ (j \in DOMAIN f.out /\ out[j] = f.out[j])
    <2> HIDE DEF f, r
    <2>1. f.out \in Seq(Routes)
      BY <1>2, OutShape
    <2> QED
      BY <1>4, <2>1
  <1>6. /\ g \in Frames /\ g.ep = f.ep /\ g.todo = f.todo /\ g.cur = NoKey /\ g.out = out
    <2> HIDE DEF f, out
    <2> QED
      BY <1>2, <1>5 DEF Frames
  <1> HIDE DEF g, out, r, f
  <1>7. Points(config, g)
    <2>1. SharesTask(config, f.out)
          /\ \A j \in DOMAIN f.out : f.out[j].ep = f.ep => f.out[j].taskconf = f.cur
      BY <1>1, <1>2 DEF Points
    <2>2. SharesTask(config, out)
      BY <1>3, <1>4, <1>5, <2>1 DEF SharesTask
    <2> QED
      BY <1>6, <2>2 DEF Points
  <1>8. Waits(config, g)
    <2>1. SUFFICES ASSUME NEW i \in DOMAIN config.endpoints, NEW k \in DOMAIN Methods(config, i),
                          Circular(config, i, k)
                   PROVE  ~Past(g, i, k) /\ g.cur # k
      BY DEF Waits
    <2>2. k # NoKey
      BY <1>2, <2>1, FileShape, KeyAssumption
    <2>3. ~Past(f, i, k) /\ ~(f.ep = i /\ f.cur = k)
      BY <1>1, <1>2, <2>1 DEF Waits
    <2> QED
      BY <1>6, <2>2, <2>3 DEF Past
  <1> QED
    BY <1>1, <1>6, <1>7, <1>8, TopInfo DEF FrameInfo

(* No activation comes to its end in a circular file. *)
LEMMA NotFinished ==
  ASSUME EInv, Finished
  PROVE  ~CircularFile(config)
  <1>1. /\ Top \in Frames /\ config \in ConfigFiles /\ Waits(config, Top)
    BY TopFrameInfo DEF Finished
  <1>2. \A i \in DOMAIN config.endpoints : \A k \in DOMAIN Methods(config, i) : Past(Top, i, k)
    BY <1>1, EndIsPast DEF Finished
  <1> QED
    BY <1>1, <1>2 DEF CircularFile, Waits

LEMMA ReturnToRouterInfo == EInv /\ ReturnToRouter /\ IInv' => EInv'
  <1> SUFFICES ASSUME EInv, ReturnToRouter, IInv' PROVE EInv'
    OBVIOUS
  <1>1. stack' = <<>> /\ config' = config /\ listings' = listings /\ DOMAIN stack' = {}
    BY DEF ReturnToRouter
  <1>2. ~CircularFile(config)
    BY NotFinished DEF ReturnToRouter
  <1> QED
    BY <1>1, <1>2 DEF EInv, ListingsShareTask, NoReturn

LEMMA ReturnToInfoInfo == EInv /\ ReturnToInfo /\ IInv' => EInv'
  <1> SUFFICES ASSUME EInv, ReturnToInfo, IInv' PROVE EInv'
    OBVIOUS
  <1> DEFINE m == Len(stack) - 1
             f == stack[m]
             g == [f EXCEPT !.work = Tail(f.work)]
  <1>1. /\ Finished /\ Len(stack) > 1
        /\ stack' = [n \in 1..m |-> IF n = m THEN g ELSE stack[n]]
        /\ listings' = listings \cup {Top.out}
        /\ UNCHANGED <<config, phase, routes>>
    BY DEF ReturnToInfo, Resumed
  <1>2. Len(stack) \in Nat /\ DOMAIN stack = 1..Len(stack)
    BY DEF EInv, IInv, TypeOK
  <1>3. m \in DOMAIN stack /\ \A n \in 1..m : n \in DOMAIN stack
    BY <1>1, <1>2, Predecessor
  <1>4. f \in Frames /\ Points(config, f)
    BY <1>3 DEF EInv, IInv, StackInv, FrameInv, FrameInfo
  <1>5. g.ep = f.ep /\ g.cur = f.cur /\ g.out = f.out
    BY <1>4 DEF Frames
  <1> HIDE DEF g, f, m
  <1>6. ~CircularFile(config)
    BY <1>1, NotFinished
  <1>7. \A h : Waits(config, h)
    BY <1>6 DEF CircularFile, Waits
  <1>8. Points(config, g)
    BY <1>4, <1>5 DEF Points
  <1>9. \A n \in DOMAIN stack' : FrameInfo(config, stack'[n])
    <2>1. DOMAIN stack' = 1..m
      BY <1>1
    <2>2. \A n \in 1..m : stack'[n] = IF n = m THEN g ELSE stack[n]
      BY <1>1
    <2> QED
      BY <1>3, <1>7, <1>8, <2>1, <2>2 DEF EInv, FrameInfo
  <1>10. SharesTask(config, Top.out)
    BY <1>1, TopFrameInfo DEF Finished, Points
  <1> QED
    BY <1>1, <1>6, <1>9, <1>10 DEF EInv, ListingsShareTask, NoReturn

LEMMA InitInfo == Init => EInv
  <1> SUFFICES ASSUME Init PROVE EInv
    OBVIOUS
  <1>1. DOMAIN stack = {} /\ listings = {} /\ phase = "init"
    BY DEF Init
  <1> QED
    BY <1>1, InitInv DEF EInv, ListingsShareTask, NoReturn

LEMMA NextInfo == EInv /\ [Next]_vars => EInv'
  <1> SUFFICES ASSUME EInv, [Next]_vars PROVE EInv'
    OBVIOUS
  <1>1. IInv'
    BY NextInv DEF EInv
  <1>2. CASE Run
    BY <1>1, <1>2, RunInfo
  <1>3. CASE NextEndpoint
    BY <1>1, <1>3, NextEndpointInfo
  <1>4. CASE \E k \in Keys : PickMethod(k)
    BY <1>1, <1>4, PickMethodInfo
  <1>5. CASE Reject
    BY <1>1, <1>5, EndOfStack DEF Reject, Refuse
  <1>6. CASE BuildPlain
    BY <1>1, <1>6, BuildPlainInfo
  <1>7. CASE BuildMulti
    BY <1>1, <1>7, BuildMultiInfo
  <1>8. CASE CallRoutes
    BY <1>1, <1>8, CallRoutesInfo
  <1>9. CASE Overflow
    BY <1>1, <1>9, EndOfStack DEF Overflow
  <1>10. CASE AppendRoute
    BY <1>1, <1>10, AppendRouteInfo
  <1>11. CASE ReturnToRouter
    BY <1>1, <1>11, ReturnToRouterInfo
  <1>12. CASE ReturnToInfo
    BY <1>1, <1>12, ReturnToInfoInfo
  <1>13. CASE UNCHANGED vars
    BY <1>1, <1>13 DEF vars, EInv, ListingsShareTask, NoReturn
  <1> QED
    BY <1>2, <1>3, <1>4, <1>5, <1>6, <1>7, <1>8, <1>9, <1>10, <1>11, <1>12, <1>13 DEF Next

LEMMA InfoInvariance == Spec => []EInv
  BY InitInfo, NextInfo, PTL DEF Spec

(* All routes an info task lists for one endpoint carry the type and the   *)
(* description of one task, a task of that endpoint: with two methods at   *)
(* least one entry is wrong.                                               *)
THEOREM OneTaskPerEndpoint == Spec => []ListingsShareTask
  <1>1. EInv => ListingsShareTask
    BY DEF EInv
  <1> QED
    BY <1>1, InfoInvariance, PTL

(* A listing is right about every endpoint that has one method. *)
THEOREM SingleMethodsDescribed ==
  Spec => [](\A l \in listings : \A j \in DOMAIN l :
               (\A k1, k2 \in DOMAIN MethodsOf(l[j].ep) : k1 = k2)
                 => l[j].taskconf = l[j].method)
  <1>1. ASSUME EInv, NEW l \in listings, NEW j \in DOMAIN l,
               \A k1, k2 \in DOMAIN MethodsOf(l[j].ep) : k1 = k2
        PROVE  l[j].taskconf = l[j].method
    <2>1. l[j].taskconf \in DOMAIN MethodsOf(l[j].ep)
      BY <1>1 DEF EInv, ListingsShareTask, SharesTask, Methods, MethodsOf
    <2>2. PICK f \in Frames : f.out = l /\ Table(config, f)
      BY <1>1 DEF EInv, IInv, Returned
    <2>3. l[j].method \in DOMAIN MethodsOf(l[j].ep)
      BY <1>1, <2>2 DEF Table, OnlyPast, Methods, MethodsOf
    <2> QED
      BY <1>1, <2>1, <2>3
  <1>2. EInv => \A l \in listings : \A j \in DOMAIN l :
                  (\A k1, k2 \in DOMAIN MethodsOf(l[j].ep) : k1 = k2)
                    => l[j].taskconf = l[j].method
    BY <1>1
  <1> QED
    BY <1>2, InfoInvariance, PTL

(* A file with a task that leads to an info task, but is not itself        *)
(* written "info", at an endpoint without one, is never served: no info    *)
(* task is ever built and Run never gets a route table, however much stack *)
(* there is.                                                               *)
THEOREM CircularFilesNeverServe == Spec => []NoReturn
  <1>1. EInv => NoReturn
    BY DEF EInv
  <1> QED
    BY <1>1, InfoInvariance, PTL
=============================================================================
