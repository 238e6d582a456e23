----------------------------- MODULE TasksProofs -----------------------------
(* What every task that runs a list guarantees, for configurations of any  *)
(* length, any arguments and formats, and any answers of the servers       *)
(* behind it, and that it implements the batch.                            *)
EXTENDS Tasks, FormatsProofs, TLAPS

-----------------------------------------------------------------------------
(* THE INDUCTIVE INVARIANT relates how far the entry of the current item   *)
(* has come to the variables that outlive an item and to the calls.        *)

Prepare == {"target", "args", "open"}
Collects == {"read", "rows", "convert"}

(* The first n - 1 stages of a kind hold this one. *)
PassedAt(kind, n, stage) == \E k \in 1..(n - 1) : Stages[kind][k] = stage
Passed(stage) == PassedAt(config.kind, entry.at, stage)
Has(kind, stage) == \E k \in DOMAIN Stages[kind] : Stages[kind][k] = stage

(* What an entry of this kind shows after its first n - 1 stages. *)
ShownBy(kind, n) == UNION {ShownAfter(kind, Stages[kind][k]) : k \in 1..(n - 1)}

Wanted(kind) == IF kind = "shell" THEN {"query"} ELSE {"query", "args"}

(* Nothing has happened in this run yet, or there was none. *)
Quiet ==
  phase \in {"decoded", "refused", "built", "dialing"} =>
    /\ entry = NewEntry
    /\ sent = <<>> /\ results = <<>>

Current ==
  /\ Len(results) = Size => entry = NewEntry
  /\ entry.error = "" /\ entry.result = 0
  /\ entry.args = IF Passed("args") THEN config.items[Item].args ELSE 0
  /\ config.kind \in Stateful /\ Passed("open") => handle = Item
  /\ Passed("call") => held = Item
  /\ config.show => entry.shown = ShownBy(config.kind, entry.at)

(* The calls so far are those of the items collected and of this one. *)
Calls ==
  /\ \A j \in DOMAIN sent :
       /\ sent[j].item <= Item
       /\ sent[j].item = Item => Passed("call")
  /\ Passed("call") => IsCalled(Item)

(* The index Validate left. *)
Indexed ==
  phase \notin {"decoded", "refused"} =>
    Accepted(config) /\ index = SingleResultIndex(config)

IInv ==
  /\ TypeOK
  /\ Quiet /\ Current /\ Calls /\ Indexed
  /\ OwnAnswer /\ OwnCalls /\ FailureIsLocal /\ CallsAreShown

-----------------------------------------------------------------------------
(* LEMMAS ABOUT THE STAGES *)

(* A kind, its stages, and the place of each. *)
LEMMA KindOf == config \in Configs =>
    /\ config.kind \in Kinds
    /\ config.items \in Seq(Items) /\ Size \in Nat
    /\ config.show \in BOOLEAN
    /\ config.single \in Int \cup {Unset}
  BY TasksAssumption DEF Size

StageNames == {"target", "args", "open", "call", "read", "rows", "convert"}

(* The stages of each kind, written out. *)
LEMMA StagesAre ==
  /\ Stages["shell"] = <<"target", "call">>
  /\ Stages["http"] = <<"target", "call", "read">>
  /\ Stages["postgres"] = <<"target", "args", "open", "call", "rows">>
  /\ Stages["mysql"] = <<"target", "open", "args", "call", "rows">>
  /\ Stages["cassandra"] = <<"target", "open", "args", "call">>
  /\ Stages["redis"] = <<"args", "call", "convert">>
  /\ Stages["multi"] = <<"call">>
  BY DEF Stages, ShellStages, HttpStages, PostgresStages, MySQLStages,
         CassandraStages, RedisStages, MultiStages

LEMMA StagesShape ==
  ASSUME NEW k \in Kinds
  PROVE  /\ Stages[k] \in Seq(StageNames) /\ Len(Stages[k]) \in 1..5
         /\ 1 \in 1..Len(Stages[k])
         /\ \A a, b \in 1..Len(Stages[k]) : Stages[k][a] = Stages[k][b] => a = b
  <1>1. CASE k = "shell"
    BY <1>1, StagesAre DEF StageNames
  <1>2. CASE k = "http"
    BY <1>2, StagesAre DEF StageNames
  <1>3. CASE k = "postgres"
    BY <1>3, StagesAre DEF StageNames
  <1>4. CASE k = "mysql"
    BY <1>4, StagesAre DEF StageNames
  <1>5. CASE k = "cassandra"
    BY <1>5, StagesAre DEF StageNames
  <1>6. CASE k = "redis"
    BY <1>6, StagesAre DEF StageNames
  <1>7. CASE k = "multi"
    BY <1>7, StagesAre DEF StageNames
  <1> QED
    BY <1>1, <1>2, <1>3, <1>4, <1>5, <1>6, <1>7 DEF Kinds

(* Everything that prepares comes before the call, the rest after it. *)
LEMMA StageOrder ==
  ASSUME NEW k \in Kinds, NEW a \in 1..Len(Stages[k])
  PROVE  /\ Stages[k][a] \in Prepare => ~PassedAt(k, a, "call")
         /\ Stages[k][a] \in Collects => PassedAt(k, a, "call")
         /\ Stages[k][a] = "call" =>
              /\ Has(k, "args") => PassedAt(k, a, "args")
              /\ k \in Stateful => PassedAt(k, a, "open")
         /\ Stages[k][a] \in Prepare => a < Len(Stages[k])
         /\ Stages[k][a] = "call" /\ k \in {"http", "postgres", "mysql", "redis"} => a < Len(Stages[k])
  <1>1. CASE k = "shell"
    BY <1>1, StagesAre DEF Prepare, Collects, PassedAt, Has, Stateful
  <1>2. CASE k = "http"
    BY <1>2, StagesAre DEF Prepare, Collects, PassedAt, Has, Stateful
  <1>3. CASE k = "postgres"
    BY <1>3, StagesAre DEF Prepare, Collects, PassedAt, Has, Stateful
  <1>4. CASE k = "mysql"
    BY <1>4, StagesAre DEF Prepare, Collects, PassedAt, Has, Stateful
  <1>5. CASE k = "cassandra"
    BY <1>5, StagesAre DEF Prepare, Collects, PassedAt, Has, Stateful
  <1>6. CASE k = "redis"
    BY <1>6, StagesAre DEF Prepare, Collects, PassedAt, Has, Stateful
  <1>7. CASE k = "multi"
    BY <1>7, StagesAre DEF Prepare, Collects, PassedAt, Has, Stateful
  <1> QED
    BY <1>1, <1>2, <1>3, <1>4, <1>5, <1>6, <1>7 DEF Kinds

(* What is shown is all shown before the call. *)
LEMMA ShownBeforeCall ==
  ASSUME NEW k \in Kinds, k \notin {"http", "multi"}, NEW a \in 1..Len(Stages[k]),
         Stages[k][a] = "call" \/ PassedAt(k, a, "call")
  PROVE  ShownBy(k, a) = Wanted(k)
  <1>1. CASE k = "shell"
    BY <1>1, StagesAre DEF PassedAt, Wanted, ShownBy, ShownAfter
  <1>2. CASE k = "http"
    BY <1>2, StagesAre DEF PassedAt, Wanted, ShownBy, ShownAfter
  <1>3. CASE k = "postgres"
    BY <1>3, StagesAre DEF PassedAt, Wanted, ShownBy, ShownAfter
  <1>4. CASE k = "mysql"
    BY <1>4, StagesAre DEF PassedAt, Wanted, ShownBy, ShownAfter
  <1>5. CASE k = "cassandra"
    BY <1>5, StagesAre DEF PassedAt, Wanted, ShownBy, ShownAfter
  <1>6. CASE k = "redis"
    BY <1>6, StagesAre DEF PassedAt, Wanted, ShownBy, ShownAfter
  <1>7. CASE k = "multi"
    BY <1>7, StagesAre DEF PassedAt, Wanted, ShownBy, ShownAfter
  <1> QED
    BY <1>1, <1>2, <1>3, <1>4, <1>5, <1>6, <1>7 DEF Kinds
(* One stage more. *)
LEMMA Passing ==
  ASSUME NEW k \in Kinds, NEW n \in 1..Len(Stages[k])
  PROVE  /\ \A s : PassedAt(k, n + 1, s) <=> PassedAt(k, n, s) \/ Stages[k][n] = s
         /\ \A s : ~PassedAt(k, 1, s)
         /\ ShownBy(k, 1) = {}
         /\ ShownBy(k, n + 1) = ShownBy(k, n) \cup ShownAfter(k, Stages[k][n])
         /\ ~PassedAt(k, n, Stages[k][n])
  <1>1. 1..((n + 1) - 1) = (1..(n - 1)) \cup {n} /\ 1..(1 - 1) = {} /\ n \notin 1..(n - 1)
    BY StagesShape
  <1>2. \A i \in 1..(n - 1) : i \in 1..Len(Stages[k])
    BY StagesShape
  <1>3. ShownBy(k, n + 1) = ShownBy(k, n) \cup ShownAfter(k, Stages[k][n])
    BY <1>1, Zenon DEF ShownBy
  <1>4. ShownBy(k, 1) = {}
    BY <1>1, Zenon DEF ShownBy
  <1>5. \A s : PassedAt(k, n + 1, s) <=> PassedAt(k, n, s) \/ Stages[k][n] = s
    BY <1>1, Zenon DEF PassedAt
  <1>6. \A s : ~PassedAt(k, 1, s)
    BY <1>1, Zenon DEF PassedAt
  <1>7. ~PassedAt(k, n, Stages[k][n])
    BY <1>1, <1>2, StagesShape DEF PassedAt
  <1> QED
    BY <1>3, <1>4, <1>5, <1>6, <1>7

LEMMA NothingPassed ==
  ASSUME NEW k, NEW n, n = 1
  PROVE  (\A s : ~PassedAt(k, n, s)) /\ ShownBy(k, n) = {}
  <1>1. 1..(1 - 1) = {}
    OBVIOUS
  <1> QED
    BY <1>1, Zenon DEF PassedAt, ShownBy

(* Where an item stands when one of its stages is run. *)
LEMMA Running ==
  ASSUME IInv, NEW stage, At(stage)
  PROVE  /\ config.kind \in Kinds
         /\ entry.at \in 1..Len(Stages[config.kind])
         /\ Stages[config.kind][entry.at] = stage
         /\ Size \in Nat /\ Len(results) \in Nat /\ Item \in 1..Size
         /\ Item \in 0..Size /\ 0 \in 0..Size
         /\ config.items[Item] \in Items /\ config.items[Item].args \in Nat
         /\ ~Passed(stage)
  <1>1. config \in Configs /\ entry \in Entries /\ results \in Seq(Entries)
    BY DEF IInv, TypeOK
  <1>2. config.kind \in Kinds /\ Size \in Nat
    BY <1>1, KindOf
  <1>3. entry.at \in 1..Len(Stages[config.kind]) /\ Stages[config.kind][entry.at] = stage
    BY <1>1 DEF Entries, At
  <1>4. Len(results) \in Nat /\ Item \in 1..Size /\ Item \in 0..Size /\ 0 \in 0..Size
    BY <1>1, <1>2 DEF At, Item
  <1>6. config.items[Item] \in Items
    <2>1. config.items \in Seq(Items)
      BY <1>1, KindOf
    <2> QED
      BY <1>4, <2>1 DEF Size
  <1>7. config.items[Item].args \in Nat
    BY <1>6 DEF Items
  <1>5. ~Passed(stage)
    BY <1>2, <1>3, Passing DEF Passed
  <1> QED
    BY <1>2, <1>3, <1>4, <1>5, <1>6, <1>7

LEMMA NewEntryType ==
  ASSUME config \in Configs
  PROVE  NewEntry \in Entries
  <1>1. config.kind \in Kinds /\ Size \in Nat
    BY KindOf
  <1>2. 1 \in 1..Len(Stages[config.kind])
    BY <1>1, StagesShape
  <1> QED
    BY <1>1, <1>2, TasksAssumption DEF NewEntry, Entries

-----------------------------------------------------------------------------
(* OUTSIDE THE ITEMS *)

LEMMA InitInv == Init => IInv
  <1> SUFFICES ASSUME Init PROVE IInv
    OBVIOUS
  <1>1. config \in Configs /\ Size \in Nat /\ config.kind \in Kinds
    BY KindOf DEF Init
  <1>2. NewEntry \in Entries
    BY <1>1, NewEntryType
  <1>3. TypeOK
    BY <1>1, <1>2 DEF Init, TypeOK
  <1>4. Quiet /\ Calls /\ Indexed /\ OwnAnswer /\ OwnCalls /\ FailureIsLocal /\ CallsAreShown
    <2>1. ~Passed("call")
      BY NothingPassed DEF Init, NewEntry, Passed
    <2> QED
      BY <2>1 DEF Init, Quiet, Calls, Indexed, OwnAnswer, OwnCalls, FailureIsLocal, CallsAreShown
  <1>5. Current
    <2>1. ~Passed("call") /\ ~Passed("open") /\ ~Passed("args") /\ ShownBy(config.kind, 1) = {}
      BY NothingPassed DEF Init, NewEntry, Passed
    <2> QED
      BY <2>1 DEF Init, Current, NewEntry
  <1> QED
    BY <1>3, <1>4, <1>5 DEF IInv

(* The locals and the configuration stay as they are. *)
LEMMA LocalsStay ==
  ASSUME IInv, UNCHANGED <<config, locals>>
  PROVE  /\ Current' /\ Calls'
         /\ OwnAnswer' /\ OwnCalls' /\ FailureIsLocal' /\ CallsAreShown'
  <1>1. Size' = Size /\ Item' = Item
    BY DEF Size, Item, locals
  <1>2. \A s : Passed(s)' = Passed(s)
    BY DEF Passed, locals
  <1>3. \A i : IsCalled(i)' = IsCalled(i)
    BY DEF IsCalled, locals
  <1>4. Current' /\ Calls'
    BY <1>1, <1>2, <1>3 DEF IInv, Current, Calls, locals
  <1> QED
    BY <1>3, <1>4 DEF IInv, OwnAnswer, OwnCalls, FailureIsLocal, CallsAreShown, locals

LEMMA BuildKeeps == IInv /\ Build => IInv'
  <1> SUFFICES ASSUME IInv, Build PROVE IInv'
    OBVIOUS
  <1>1. UNCHANGED <<config, locals>>
    BY DEF Build
  <1>2. config.kind \in Kinds /\ config.single \in Int \cup {Unset}
    BY KindOf DEF IInv, TypeOK
  <1>3. SingleResultIndex(config) \in Int
    BY <1>2 DEF SingleResultIndex
  <1>4. TypeOK'
    BY <1>1, <1>3 DEF IInv, TypeOK, Build, locals, Entries, Sendings, Size
  <1>5. Quiet' /\ Indexed'
    BY <1>1 DEF IInv, Build, Quiet, Indexed, locals
  <1> QED
    BY <1>1, <1>4, <1>5, LocalsStay DEF IInv

LEMMA RefuseKeeps == IInv /\ Refuse => IInv'
  <1> SUFFICES ASSUME IInv, Refuse PROVE IInv'
    OBVIOUS
  <1>1. UNCHANGED <<config, locals>>
    BY DEF Refuse
  <1>2. TypeOK'
    BY <1>1 DEF IInv, TypeOK, Refuse, locals, Entries, Sendings, Size
  <1>3. Quiet' /\ Indexed'
    BY <1>1 DEF IInv, Refuse, Quiet, Indexed, locals
  <1> QED
    BY <1>1, <1>2, <1>3, LocalsStay DEF IInv

LEMMA EmbeddedPanicsKeeps == IInv /\ EmbeddedPanics => IInv'
  <1> SUFFICES ASSUME IInv, EmbeddedPanics PROVE IInv'
    OBVIOUS
  <1>1. UNCHANGED <<config, locals>>
    BY DEF EmbeddedPanics
  <1>2. TypeOK'
    BY <1>1 DEF IInv, TypeOK, EmbeddedPanics, locals, Entries, Sendings, Size
  <1>3. Quiet' /\ Indexed'
    BY <1>1 DEF IInv, EmbeddedPanics, At, Quiet, Indexed, locals
  <1> QED
    BY <1>1, <1>2, <1>3, LocalsStay DEF IInv

LEMMA StartKeeps == IInv /\ Start => IInv'
  <1> SUFFICES ASSUME IInv, Start PROVE IInv'
    OBVIOUS
  <1>1. config \in Configs /\ config' = config /\ Size \in Nat /\ config.kind \in Kinds
    BY KindOf DEF IInv, TypeOK, Start
  <1>2. NewEntry \in Entries /\ Size' = Size /\ Entries' = Entries /\ Sendings' = Sendings
    BY <1>1, NewEntryType DEF Size, Entries, Sendings
  <1>3. TypeOK'
    BY <1>1, <1>2 DEF IInv, TypeOK, Start
  <1>4. Current'
    <2>1. /\ ~Passed("call")' /\ ~Passed("open")' /\ ~Passed("args")'
          /\ ShownBy(config.kind, 1) = {}
      BY NothingPassed DEF Start, NewEntry, Passed
    <2> QED
      BY <1>1, <2>1 DEF Start, Current, NewEntry
  <1>5. Quiet' /\ Calls' /\ Indexed' /\ OwnAnswer' /\ OwnCalls' /\ FailureIsLocal' /\ CallsAreShown'
    <2>1. ~Passed("call")'
      BY NothingPassed DEF Start, NewEntry, Passed
    <2>2. Quiet' /\ Calls' /\ OwnAnswer' /\ OwnCalls' /\ FailureIsLocal' /\ CallsAreShown'
      BY <2>1 DEF Start, Quiet, Calls, OwnAnswer, OwnCalls, FailureIsLocal, CallsAreShown
    <2>3. Indexed'
      BY <1>1 DEF IInv, Start, Indexed
    <2> QED
      BY <2>2, <2>3
  <1> QED
    BY <1>3, <1>4, <1>5 DEF IInv

(* The results and what the calls say of them do not change. *)
LEMMA ItemsStay ==
  ASSUME IInv, UNCHANGED <<config, entry, handle, held, sent, results>>
  PROVE  /\ Current' /\ Calls'
         /\ OwnAnswer' /\ OwnCalls' /\ FailureIsLocal' /\ CallsAreShown'
  <1>1. Size' = Size /\ Item' = Item
    BY DEF Size, Item
  <1>2. \A s : Passed(s)' = Passed(s)
    BY DEF Passed
  <1>3. \A i : IsCalled(i)' = IsCalled(i)
    BY DEF IsCalled
  <1>4. Current' /\ Calls'
    BY <1>1, <1>2, <1>3 DEF IInv, Current, Calls
  <1> QED
    BY <1>3, <1>4 DEF IInv, OwnAnswer, OwnCalls, FailureIsLocal, CallsAreShown

LEMMA DialKeeps == IInv /\ Dial => IInv'
  <1> SUFFICES ASSUME IInv, Dial PROVE IInv'
    OBVIOUS
  <1>1. UNCHANGED <<config, entry, handle, held, sent, results, body, formats, index>>
    BY DEF Dial
  <1>2. Size \in Nat
    BY KindOf DEF IInv, TypeOK
  <1>3. TypeOK'
    <2>1. Size' = Size /\ Entries' = Entries /\ Sendings' = Sendings
      BY <1>1 DEF Size, Entries, Sendings
    <2>2. reply' \in [kind : {"none", "all", "one", "error"}, item : 0..Size]
      BY <1>2 DEF IInv, TypeOK, Dial
    <2> QED
      BY <1>1, <2>1, <2>2 DEF IInv, TypeOK, Dial
  <1>4. Quiet' /\ Indexed'
    BY <1>1 DEF IInv, Dial, Quiet, Indexed
  <1> QED
    BY <1>1, <1>3, <1>4, ItemsStay DEF IInv

LEMMA AnswerKeeps == IInv /\ Answer => IInv'
  <1> SUFFICES ASSUME IInv, Answer PROVE IInv'
    OBVIOUS
  <1>1. UNCHANGED <<config, entry, handle, held, sent, results, body, formats, index>>
    BY DEF Answer
  <1>2. Size \in Nat
    BY KindOf DEF IInv, TypeOK
  <1>3. TypeOK'
    <2>1. Size' = Size /\ Entries' = Entries /\ Sendings' = Sendings
      BY <1>1 DEF Size, Entries, Sendings
    <2>2. reply' \in [kind : {"none", "all", "one", "error"}, item : 0..Size]
      BY <1>2 DEF IInv, TypeOK, Answer
    <2> QED
      BY <1>1, <2>1, <2>2 DEF IInv, TypeOK, Answer
  <1>4. Quiet' /\ Indexed'
    BY <1>1 DEF IInv, Answer, Quiet, Indexed
  <1> QED
    BY <1>1, <1>3, <1>4, ItemsStay DEF IInv
-----------------------------------------------------------------------------
(* THE STAGES OF AN ITEM *)

CalledIn(s, i) == \E j \in DOMAIN s : s[j].item = i

(* The invariant of the items. *)
ItemInv ==
  /\ entry \in Entries /\ results \in Seq(Entries) /\ Len(results) <= Size
  /\ Quiet /\ Current /\ Calls
  /\ OwnAnswer /\ FailureIsLocal /\ CallsAreShown

(* The calls s are those made so far when the current item is done with e, *)
(* and they explain what e holds.                                          *)
UpToItem(s) ==
  /\ s \in Seq(Sendings)
  /\ \A j \in DOMAIN s : s[j].item <= Item
  /\ \A i \in 1..Size : i # Item => (CalledIn(s, i) <=> CalledIn(sent, i))

Explains(s, e) ==
  /\ IF e.error = "" THEN e.result = Item ELSE e.result = 0
  /\ CalledIn(s, Item) <=> e.error \notin Prepare
  /\ config.show /\ config.kind \notin {"http", "multi"} /\ CalledIn(s, Item)
       => e.shown = Wanted(config.kind)

(* From the call on everything wanted is shown. *)
LEMMA ShownNow ==
  ASSUME IInv, NEW stage, At(stage), stage = "call" \/ stage \in Collects,
         config.show, config.kind \notin {"http", "multi"}
  PROVE  entry.shown = Wanted(config.kind)
  <1>1. /\ config.kind \in Kinds /\ entry.at \in 1..Len(Stages[config.kind])
        /\ Stages[config.kind][entry.at] = stage
    BY Running
  <1>2. stage = "call" \/ PassedAt(config.kind, entry.at, "call")
    BY <1>1, StageOrder
  <1>3. entry.shown = ShownBy(config.kind, entry.at)
    BY DEF IInv, Current
  <1> QED
    BY <1>1, <1>2, <1>3, ShownBeforeCall

(* A stage other than the call sends nothing. *)
LEMMA SentSame ==
  ASSUME IInv, NEW stage, At(stage), UNCHANGED <<config, sent>>
  PROVE  /\ UpToItem(sent') /\ OwnCalls'
         /\ stage \in Prepare => ~CalledIn(sent', Item)
         /\ stage \in Collects => CalledIn(sent', Item)
         /\ CalledIn(sent', Item) <=> Passed("call")
  <1>1. /\ config.kind \in Kinds /\ entry.at \in 1..Len(Stages[config.kind])
        /\ Stages[config.kind][entry.at] = stage
    BY Running
  <1>2. CalledIn(sent', Item) <=> Passed("call")
    BY DEF IInv, Calls, IsCalled, CalledIn
  <1>3. (stage \in Prepare => ~Passed("call")) /\ (stage \in Collects => Passed("call"))
    BY <1>1, StageOrder DEF Passed
  <1>4. OwnCalls'
    BY DEF IInv, OwnCalls
  <1> QED
    BY <1>2, <1>3, <1>4 DEF IInv, TypeOK, Calls, UpToItem

(* The call sends one thing, for this item and with all that belongs to it. *)
LEMMA SentOnCall ==
  ASSUME IInv, At("call"), config' = config, NEW b \in {"none", "content", "empty"},
         sent' = Append(sent, [item |-> Item, via |-> handle, args |-> entry.args, body |-> b])
  PROVE  UpToItem(sent') /\ OwnCalls' /\ CalledIn(sent', Item)
  <1> DEFINE c == [item |-> Item, via |-> handle, args |-> entry.args, body |-> b]
             k == config.kind
  <1>1. /\ k \in Kinds /\ entry.at \in 1..Len(Stages[k]) /\ Stages[k][entry.at] = "call"
        /\ Size \in Nat /\ Item \in 1..Size /\ ~Passed("call")
    BY Running
  <1>2. sent \in Seq(Sendings) /\ c \in Sendings
    BY <1>1 DEF IInv, TypeOK, Sendings, Entries
  <1>3. /\ sent' \in Seq(Sendings) /\ DOMAIN sent' = DOMAIN sent \cup {Len(sent) + 1}
        /\ Len(sent) + 1 \notin DOMAIN sent /\ sent'[Len(sent) + 1] = c
        /\ \A j \in DOMAIN sent : sent'[j] = sent[j] /\ j < Len(sent) + 1
    BY <1>2
  <1>4. \A j \in DOMAIN sent : sent[j].item < Item
    <2> SUFFICES ASSUME NEW j \in DOMAIN sent PROVE sent[j].item < Item
      OBVIOUS
    <2>1. sent[j].item <= Item /\ sent[j].item # Item
      BY <1>1 DEF IInv, Calls
    <2>2. sent[j] \in Sendings
      BY <1>2
    <2>3. sent[j].item \in Nat
      BY <1>1, <2>2 DEF Sendings
    <2> QED
      BY <1>1, <2>1, <2>3
  <1>5. c.args = IF Has(k, "args") THEN config.items[Item].args ELSE 0
    <2>1. Has(k, "args") => Passed("args")
      BY <1>1, StageOrder DEF Passed
    <2>2. Passed("args") => Has(k, "args")
      BY <1>1, StagesShape DEF Passed, PassedAt, Has
    <2> QED
      BY <2>1, <2>2 DEF IInv, Current
  <1>6. k \in Stateful => c.via = Item
    BY <1>1, StageOrder DEF IInv, Current, Passed
  <1>7. OwnCalls'
    <2>1. ("args" \in {Stages[k][n] : n \in DOMAIN Stages[k]}) <=> Has(k, "args")
      BY DEF Has
    <2>2. ASSUME NEW j \in DOMAIN sent'
          PROVE  sent'[j].args = IF Has(k, "args") THEN config.items[sent'[j].item].args ELSE 0
      BY <1>3, <1>5, <2>1, <2>2 DEF IInv, OwnCalls
    <2>3. ASSUME NEW j \in DOMAIN sent', k \in Stateful
          PROVE  sent'[j].via = sent'[j].item
      BY <1>3, <1>6, <2>3 DEF IInv, OwnCalls
    <2>4. ASSUME NEW j \in DOMAIN sent', NEW i \in DOMAIN sent', i < j
          PROVE  sent'[i].item < sent'[j].item
      <3>1. i \in DOMAIN sent
        BY <1>2, <1>3, <2>4
      <3> QED
        BY <1>3, <1>4, <2>4, <3>1 DEF IInv, OwnCalls
    <2> QED
      BY <2>1, <2>2, <2>3, <2>4 DEF OwnCalls
  <1>8. \A j \in DOMAIN sent' : sent'[j].item <= Item
    BY <1>1, <1>3 DEF IInv, Calls
  <1>9. CalledIn(sent', Item)
    BY <1>3 DEF CalledIn
  <1>10. \A i \in 1..Size : i # Item => (CalledIn(sent', i) <=> CalledIn(sent, i))
    BY <1>3 DEF CalledIn
  <1> QED
    BY <1>3, <1>7, <1>8, <1>9, <1>10 DEF UpToItem

(* An entry is collected: the next item starts afresh. *)
LEMMA CollectKeeps ==
  ASSUME IInv, phase = "running", phase' = "running", config' = config,
         Len(results) < Size, NEW e \in Entries, Collect(e),
         UpToItem(sent'), Explains(sent', e)
  PROVE  ItemInv'
  <1>1. /\ config \in Configs /\ config.kind \in Kinds /\ Size \in Nat
        /\ results \in Seq(Entries) /\ Len(results) \in Nat
    <2>1. config \in Configs /\ results \in Seq(Entries)
      BY DEF IInv, TypeOK
    <2> QED
      BY <2>1, KindOf
  <1>2. /\ results' = Append(results, e) /\ results' \in Seq(Entries)
        /\ DOMAIN results' = DOMAIN results \cup {Item} /\ Item \notin DOMAIN results
        /\ results'[Item] = e /\ \A i \in DOMAIN results : results'[i] = results[i]
        /\ Len(results') = Len(results) + 1
    BY <1>1 DEF Collect, Item
  <1>3. Size' = Size /\ Item' = Item + 1 /\ Item \in 1..Size
    BY <1>1, <1>2 DEF Size, Item
  <1>4. entry' = NewEntry /\ entry' \in Entries /\ entry'.at = 1
    BY <1>1, NewEntryType DEF Collect, NewEntry
  <1>5. Current'
    <2>1. /\ ~Passed("call")' /\ ~Passed("open")' /\ ~Passed("args")'
          /\ ShownBy(config.kind, 1) = {}
      BY <1>4, NothingPassed DEF Passed
    <2> QED
      BY <1>4, <2>1 DEF Current, NewEntry
  <1>6. Calls'
    <2>1. ~Passed("call")'
      BY <1>4, NothingPassed DEF Passed
    <2>2. ASSUME NEW j \in DOMAIN sent'
          PROVE  sent'[j].item <= Item + 1 /\ sent'[j].item # Item + 1
      <3>1. sent'[j] \in Sendings /\ sent'[j].item <= Item
        BY DEF UpToItem
      <3>2. sent'[j].item \in Nat
        BY <1>1, <3>1 DEF Sendings
      <3> QED
        BY <1>3, <3>1, <3>2
    <2> QED
      BY <1>3, <2>1, <2>2 DEF Calls
  <1>7. \A i \in DOMAIN results : i \in 1..Size /\ i # Item
    BY <1>1, <1>2, <1>3 DEF Item
  <1>8. \A i \in DOMAIN results' : IsCalled(i)' <=> CalledIn(sent', i)
    BY DEF IsCalled, CalledIn
  <1>9. \A i \in DOMAIN results : CalledIn(sent', i) <=> IsCalled(i)
    BY <1>7 DEF UpToItem, IsCalled, CalledIn
  <1>10. OwnAnswer'
    BY <1>2 DEF IInv, OwnAnswer, Explains
  <1>11. FailureIsLocal'
    BY <1>2, <1>8, <1>9 DEF IInv, FailureIsLocal, Prepare, Explains
  <1>12. CallsAreShown'
    <2> SUFFICES ASSUME config.show, config.kind \notin {"http", "multi"},
                        NEW i \in DOMAIN results', CalledIn(sent', i)
                 PROVE  results'[i].shown = Wanted(config.kind)
      BY <1>8 DEF CallsAreShown, Wanted
    <2>1. CASE i = Item
      BY <1>2, <2>1 DEF Explains
    <2>2. CASE i \in DOMAIN results
      BY <1>2, <1>9, <2>2 DEF IInv, CallsAreShown, Wanted
    <2> QED
      BY <1>2, <2>1, <2>2
  <1>13. Quiet'
    BY DEF Quiet
  <1>14. Entries' = Entries
    BY DEF Entries, Size
  <1> QED
    BY <1>1, <1>2, <1>3, <1>4, <1>5, <1>6, <1>10, <1>11, <1>12, <1>13, <1>14 DEF ItemInv
(* What an entry has gained when its item goes on to the next stage. *)
GoesOn(stage, e) ==
  /\ e.at = entry.at /\ e.error = "" /\ e.result = 0 /\ e.shown = entry.shown
  /\ e.args = IF stage = "args" THEN config.items[Item].args ELSE entry.args

LEMMA ProceedKeeps ==
  ASSUME IInv, NEW stage, At(stage), entry.at < Len(Stages[config.kind]),
         NEW e \in Entries, GoesOn(stage, e), Proceed(stage, e),
         phase' = phase, config' = config,
         UpToItem(sent'),
         CalledIn(sent', Item) <=> Passed("call") \/ stage = "call",
         handle' = IF stage = "open" THEN Item ELSE handle,
         held' = IF stage = "call" THEN Item ELSE held
  PROVE  ItemInv'
  <1> DEFINE k == config.kind
             shown == IF config.show THEN e.shown \cup ShownAfter(k, stage) ELSE e.shown
  <1>1. /\ k \in Kinds /\ entry.at \in 1..Len(Stages[k]) /\ Stages[k][entry.at] = stage
        /\ Size \in Nat /\ Len(results) \in Nat /\ Item \in 1..Size /\ ~Passed(stage)
    BY Running
  <1>2. results' = results /\ Size' = Size /\ Item' = Item /\ Entries' = Entries
    BY DEF Proceed, Size, Item, Entries
  <1>3. entry' = [e EXCEPT !.at = e.at + 1, !.shown = shown]
    BY DEF Proceed
  <1>4. shown \subseteq {"query", "args"}
    BY DEF Entries, ShownAfter
  <1>5. entry.at + 1 \in 1..Len(Stages[k])
    BY <1>1
  <1>6. entry' \in Entries
    BY <1>3, <1>4, <1>5 DEF Entries, GoesOn
  <1>7. /\ entry'.at = entry.at + 1 /\ entry'.error = "" /\ entry'.result = 0
        /\ entry'.args = e.args /\ entry'.shown = shown
    BY <1>3 DEF Entries, GoesOn
  <1>8. \A s : Passed(s)' <=> Passed(s) \/ s = stage
    <2>1. \A s : PassedAt(k, entry.at + 1, s) <=> PassedAt(k, entry.at, s) \/ Stages[k][entry.at] = s
      BY <1>1, Passing
    <2> QED
      BY <1>1, <1>7, <2>1 DEF Passed
  <1>9. Len(results) < Size
    BY DEF At
  <1>10. Current'
    <2>1. ~(Len(results') = Size')
      BY <1>1, <1>2, <1>9
    <2>2. entry'.args = IF Passed("args")' THEN config'.items[Item'].args ELSE 0
      BY <1>1, <1>2, <1>7, <1>8 DEF IInv, Current, GoesOn
    <2>3. config'.kind \in Stateful /\ Passed("open")' => handle' = Item'
      BY <1>2, <1>8 DEF IInv, Current
    <2>4. Passed("call")' => held' = Item'
      BY <1>2, <1>8 DEF IInv, Current
    <2>5. config'.show => entry'.shown = ShownBy(config'.kind, entry'.at)
      <3> SUFFICES ASSUME config.show
                   PROVE  entry'.shown = ShownBy(k, entry.at + 1)
        BY <1>7
      <3>1. entry.shown = ShownBy(k, entry.at)
        BY DEF IInv, Current
      <3>2. ShownBy(k, entry.at + 1) = ShownBy(k, entry.at) \cup ShownAfter(k, stage)
        BY <1>1, Passing
      <3> QED
        BY <1>7, <3>1, <3>2 DEF GoesOn
    <2> QED
      BY <1>7, <2>1, <2>2, <2>3, <2>4, <2>5 DEF Current
  <1>11. Calls'
    <2>1. \A j \in DOMAIN sent' : sent'[j].item <= Item
      BY DEF UpToItem
    <2>2. \A j \in DOMAIN sent' : sent'[j].item = Item => CalledIn(sent', Item)
      BY DEF CalledIn
    <2>3. IsCalled(Item)' <=> CalledIn(sent', Item)
      BY <1>2 DEF IsCalled, CalledIn
    <2> QED
      BY <1>2, <1>8, <2>1, <2>2, <2>3 DEF Calls
  <1>12. \A i \in DOMAIN results : IsCalled(i)' <=> IsCalled(i)
    <2> SUFFICES ASSUME NEW i \in DOMAIN results PROVE IsCalled(i)' <=> IsCalled(i)
      OBVIOUS
    <2>1. results \in Seq(Entries)
      BY DEF IInv, TypeOK
    <2>2. i \in 1..Size /\ i # Item
      BY <1>1, <1>9, <2>1 DEF Item
    <2> QED
      BY <2>2 DEF UpToItem, IsCalled, CalledIn
  <1>13. OwnAnswer' /\ FailureIsLocal' /\ CallsAreShown'
    BY <1>2, <1>12 DEF IInv, OwnAnswer, FailureIsLocal, CallsAreShown
  <1>14. Quiet'
    BY DEF Quiet, At
  <1> QED
    BY <1>2, <1>6, <1>10, <1>11, <1>13, <1>14 DEF ItemInv, IInv, TypeOK

(* goto Append: the entry has the stage for its error. *)
LEMMA FailKeeps ==
  ASSUME IInv, NEW stage \in Errors \ {"format"}, At(stage), Fail(stage),
         phase' = phase, config' = config,
         UpToItem(sent'), CalledIn(sent', Item) <=> stage \notin Prepare
  PROVE  ItemInv'
  <1> DEFINE e == [entry EXCEPT !.error = stage]
  <1>1. entry \in Entries /\ entry.result = 0 /\ stage # ""
    BY DEF IInv, TypeOK, Current, Errors
  <1>2. e \in Entries /\ e.error = stage /\ e.result = 0 /\ e.shown = entry.shown
    BY <1>1 DEF Entries
  <1>3. stage \notin Prepare => stage = "call" \/ stage \in Collects
    BY DEF Errors, Prepare, Collects
  <1>4. Explains(sent', e)
    BY <1>1, <1>2, <1>3, ShownNow DEF Explains
  <1>5. phase = "running" /\ Len(results) < Size
    BY DEF At
  <1> QED
    BY <1>2, <1>4, <1>5, CollectKeeps DEF Fail

(* The last stage: the entry has what the call of its item set. *)
LEMMA SucceedKeeps ==
  ASSUME IInv, NEW stage, At(stage), stage = "call" \/ stage \in Collects,
         NEW e \in Entries, e.error = "", e.shown = entry.shown, Succeed(e),
         phase' = phase, config' = config, held' = Item,
         UpToItem(sent'), CalledIn(sent', Item)
  PROVE  ItemInv'
  <1> DEFINE r == [e EXCEPT !.result = held']
  <1>1. Item \in 0..Size
    BY Running
  <1>2. r \in Entries /\ r.error = "" /\ r.result = Item /\ r.shown = entry.shown
    <2>1. held' \in 0..Size
      BY <1>1
    <2>2. /\ r \in Entries /\ r.error = e.error /\ r.result = held'
          /\ r.shown = e.shown
      BY <2>1 DEF Entries
    <2> QED
      BY <2>2
  <1>3. Explains(sent', r)
    <2>1. "" \notin Prepare
      BY DEF Prepare
    <2> QED
      BY <1>2, <2>1, ShownNow DEF Explains
  <1>4. phase = "running" /\ Len(results) < Size
    BY DEF At
  <1> QED
    BY <1>2, <1>3, <1>4, CollectKeeps DEF Succeed

LEMMA FormatKeeps ==
  ASSUME IInv, NEW stage, At(stage), stage = "call" \/ stage \in Collects,
         NEW b \in Bodies, FormatInto(entry, b),
         phase' = phase, config' = config, held' = Item,
         UpToItem(sent'), CalledIn(sent', Item)
  PROVE  ItemInv'
  <1>1. entry \in Entries /\ entry.error = "" /\ entry.result = 0 /\ b \in SUBSET FormatIds
    BY DEF IInv, TypeOK, Current, Bodies
  <1>2. CASE FormatFails(formats[Item], b)
    <2> DEFINE e == [entry EXCEPT !.error = "format", !.body = b]
    <2>1. e \in Entries /\ e.error = "format" /\ e.result = 0 /\ e.shown = entry.shown
      BY <1>1 DEF Entries, Errors
    <2>2. "format" \notin Prepare
      BY DEF Prepare
    <2>3. Explains(sent', e)
      BY <2>1, <2>2, ShownNow DEF Explains
    <2>4. phase = "running" /\ Len(results) < Size
      BY DEF At
    <2> QED
      BY <1>2, <2>1, <2>3, <2>4, CollectKeeps DEF FormatInto
  <1>3. CASE ~FormatFails(formats[Item], b)
    <2> DEFINE f == Format(formats[Item], b)
               e == [entry EXCEPT !.format = f, !.body = b]
    <2>1. f \in FormatIds
      BY <1>3 DEF FormatFails, Format
    <2>2. e \in Entries /\ e.error = "" /\ e.shown = entry.shown
      BY <1>1, <2>1 DEF Entries
    <2>3. Succeed(e)
      BY <1>3 DEF FormatInto
    <2> QED
      BY <2>2, <2>3, SucceedKeeps
  <1> QED
    BY <1>2, <1>3
-----------------------------------------------------------------------------
(* THE ACTIONS OF AN ITEM *)

LEMMA StepKeeps ==
  ASSUME IInv, phase = "running", ItemInv', OwnCalls',
         UNCHANGED <<config, formats, index, phase, reply>>,
         body' \in {"unread", "drained", "closed"},
         handle' \in 0..Size, held' \in 0..Size, sent' \in Seq(Sendings)
  PROVE  IInv'
  <1>1. Size' = Size /\ Entries' = Entries /\ Sendings' = Sendings
    BY DEF Size, Entries, Sendings
  <1>2. TypeOK'
    BY <1>1 DEF IInv, TypeOK, ItemInv
  <1>3. Indexed'
    BY DEF IInv, Indexed
  <1> QED
    BY <1>2, <1>3 DEF IInv, ItemInv

(* The types a step that leaves a variable alone needs. *)
LEMMA TypesNow ==
  ASSUME IInv
  PROVE  /\ entry \in Entries /\ handle \in 0..Size /\ held \in 0..Size
         /\ sent \in Seq(Sendings) /\ body \in {"unread", "drained", "closed"}
         /\ entry.error = "" /\ entry.result = 0
         /\ Size \in Nat /\ config.items \in Seq(Items)
  BY KindOf DEF IInv, TypeOK, Current

LEMMA TargetKeeps == IInv /\ Target => IInv'
  <1> SUFFICES ASSUME IInv, Target PROVE IInv'
    OBVIOUS
  <1>1. /\ At("target") /\ phase = "running"
        /\ UNCHANGED <<config, formats, index, phase, body, handle, held, sent, reply>>
    BY DEF Target, At
  <1>2. /\ UpToItem(sent') /\ OwnCalls' /\ ~CalledIn(sent', Item) /\ ~Passed("call")
        /\ entry.at < Len(Stages[config.kind])
    BY <1>1, SentSame, Running, StageOrder DEF Prepare
  <1>3. ItemInv'
    <2>1. CASE Fail("target")
      BY <1>1, <1>2, <2>1, FailKeeps DEF Errors, Prepare
    <2>2. CASE Proceed("target", entry)
      BY <1>1, <1>2, <2>2, TypesNow, ProceedKeeps DEF GoesOn
    <2> QED
      BY <2>1, <2>2 DEF Target
  <1> QED
    BY <1>1, <1>2, <1>3, TypesNow, StepKeeps

LEMMA ArgsKeeps == IInv /\ Args => IInv'
  <1> SUFFICES ASSUME IInv, Args PROVE IInv'
    OBVIOUS
  <1> DEFINE e == [entry EXCEPT !.args = @ + config.items[Item].args]
  <1>1. /\ At("args") /\ phase = "running"
        /\ UNCHANGED <<config, formats, index, phase, body, handle, held, sent, reply>>
    BY DEF Args, At
  <1>2. /\ UpToItem(sent') /\ OwnCalls' /\ ~CalledIn(sent', Item) /\ ~Passed("call")
        /\ entry.at < Len(Stages[config.kind])
    BY <1>1, SentSame, Running, StageOrder DEF Prepare
  <1>3. e \in Entries /\ GoesOn("args", e)
    <2>1. ~Passed("args")
      BY <1>1, Running
    <2>3. config.items[Item].args \in Nat
      BY <1>1, Running
    <2>4. entry.args = 0
      BY <2>1 DEF IInv, Current
    <2>5. entry \in Entries /\ entry.error = "" /\ entry.result = 0
      BY TypesNow
    <2>6. e = [entry EXCEPT !.args = config.items[Item].args]
      BY <2>3, <2>4 DEF Entries
    <2>7. /\ e \in Entries /\ e.at = entry.at /\ e.error = entry.error
          /\ e.result = entry.result /\ e.shown = entry.shown
          /\ e.args = config.items[Item].args
      BY <2>3, <2>5, <2>6 DEF Entries
    <2> QED
      BY <2>5, <2>7 DEF GoesOn
  <1>4. ItemInv'
    <2>1. CASE Fail("args")
      BY <1>1, <1>2, <2>1, FailKeeps DEF Errors, Prepare
    <2>2. CASE Proceed("args", e)
      BY <1>1, <1>2, <1>3, <2>2, ProceedKeeps
    <2> QED
      BY <2>1, <2>2 DEF Args
  <1> QED
    BY <1>1, <1>2, <1>4, TypesNow, StepKeeps

LEMMA OpenKeeps == IInv /\ Open => IInv'
  <1> SUFFICES ASSUME IInv, Open PROVE IInv'
    OBVIOUS
  <1>1. /\ At("open") /\ phase = "running"
        /\ UNCHANGED <<config, formats, index, phase, body, held, sent, reply>>
    BY DEF Open, At
  <1>2. /\ UpToItem(sent') /\ OwnCalls' /\ ~CalledIn(sent', Item) /\ ~Passed("call")
        /\ entry.at < Len(Stages[config.kind]) /\ Item \in 0..Size /\ 0 \in 0..Size
    BY <1>1, SentSame, Running, StageOrder DEF Prepare
  <1>3. ItemInv' /\ handle' \in 0..Size
    <2>1. CASE Fail("open") /\ handle' = 0
      BY <1>1, <1>2, <2>1, FailKeeps, TypesNow DEF Errors, Prepare
    <2>2. CASE Proceed("open", entry) /\ handle' = Item
      BY <1>1, <1>2, <2>2, TypesNow, ProceedKeeps DEF GoesOn
    <2> QED
      BY <2>1, <2>2 DEF Open
  <1> QED
    BY <1>1, <1>2, <1>3, TypesNow, StepKeeps

(* A stage after the call finds the reply of its own item. *)
LEMMA AfterCall ==
  ASSUME IInv, NEW stage \in Collects, At(stage), UNCHANGED <<config, sent, held>>
  PROVE  /\ UpToItem(sent') /\ OwnCalls' /\ CalledIn(sent', Item) /\ held' = Item
         /\ phase = "running" /\ stage \in Errors \ {"format"} /\ stage \notin Prepare
  <1>1. /\ UpToItem(sent') /\ OwnCalls' /\ CalledIn(sent', Item)
    BY SentSame
  <1>2. Passed("call")
    BY <1>1, SentSame
  <1> QED
    BY <1>1, <1>2 DEF IInv, Current, At, Collects, Errors, Prepare

LEMMA ReadKeeps == IInv /\ Read => IInv'
  <1> SUFFICES ASSUME IInv, Read PROVE IInv'
    OBVIOUS
  <1>1. /\ At("read") /\ "read" \in Collects
        /\ UNCHANGED <<config, formats, index, phase, body, handle, held, sent, reply>>
    BY DEF Read, Collects
  <1>2. /\ UpToItem(sent') /\ OwnCalls' /\ CalledIn(sent', Item) /\ held' = Item
        /\ phase = "running" /\ "read" \in Errors \ {"format"} /\ "read" \notin Prepare
    BY <1>1, AfterCall
  <1>3. ItemInv'
    <2>1. CASE Fail("read")
      BY <1>1, <1>2, <2>1, FailKeeps
    <2>2. ASSUME NEW b \in Bodies, FormatInto(entry, b) PROVE ItemInv'
      BY <1>1, <1>2, <2>2, FormatKeeps
    <2> QED
      BY <2>1, <2>2 DEF Read
  <1> QED
    BY <1>1, <1>2, <1>3, TypesNow, StepKeeps

LEMMA ConvertKeeps == IInv /\ Convert => IInv'
  <1> SUFFICES ASSUME IInv, Convert PROVE IInv'
    OBVIOUS
  <1>1. /\ At("convert") /\ "convert" \in Collects
        /\ UNCHANGED <<config, formats, index, phase, body, handle, held, sent, reply>>
    BY DEF Convert, Collects
  <1>2. /\ UpToItem(sent') /\ OwnCalls' /\ CalledIn(sent', Item) /\ held' = Item
        /\ phase = "running" /\ "convert" \in Errors \ {"format"} /\ "convert" \notin Prepare
    BY <1>1, AfterCall
  <1>3. ItemInv'
    <2>1. CASE Fail("convert")
      BY <1>1, <1>2, <2>1, FailKeeps
    <2>2. CASE Succeed(entry)
      BY <1>1, <1>2, <2>2, SucceedKeeps, TypesNow
    <2> QED
      BY <2>1, <2>2 DEF Convert
  <1> QED
    BY <1>1, <1>2, <1>3, TypesNow, StepKeeps

(* One row more changes neither the place of the item nor what it shows. *)
LEMMA RowKeeps ==
  ASSUME IInv, At("rows"), entry.rows < MaxRows,
         entry' = [entry EXCEPT !.rows = @ + 1],
         UNCHANGED <<config, phase, handle, held, sent, results>>
  PROVE  ItemInv'
  <1>1. entry \in Entries /\ MaxRows \in Nat
    BY TypesNow, TasksAssumption
  <1>2. /\ entry' \in Entries /\ entry'.at = entry.at /\ entry'.error = entry.error
        /\ entry'.result = entry.result /\ entry'.args = entry.args /\ entry'.shown = entry.shown
    <2>0. entry.rows \in 0..MaxRows
      BY <1>1 DEF Entries
    <2>1. entry.rows + 1 \in 0..MaxRows
      BY <1>1, <2>0
    <2>2. entry' = [entry EXCEPT !.rows = entry.rows + 1]
      OBVIOUS
    <2> QED
      BY <1>1, <2>1, <2>2 DEF Entries
  <1>3. Size' = Size /\ Item' = Item /\ Entries' = Entries
    BY DEF Size, Item, Entries
  <1>4. \A s : Passed(s)' <=> Passed(s)
    BY <1>2 DEF Passed
  <1>5. \A i : IsCalled(i)' <=> IsCalled(i)
    BY DEF IsCalled
  <1>6. phase = "running" /\ Len(results) < Size /\ Len(results) \in Nat /\ Size \in Nat
    BY Running DEF At
  <1>7. Current'
    <2>1. ~(Len(results') = Size')
      BY <1>3, <1>6
    <2> QED
      BY <1>2, <1>3, <1>4, <2>1 DEF IInv, Current
  <1>8. Calls'
    BY <1>3, <1>4, <1>5 DEF IInv, Calls
  <1>9. OwnAnswer' /\ FailureIsLocal' /\ CallsAreShown'
    BY <1>5 DEF IInv, OwnAnswer, FailureIsLocal, CallsAreShown
  <1>10. Quiet'
    BY <1>6 DEF Quiet
  <1> QED
    BY <1>2, <1>3, <1>7, <1>8, <1>9, <1>10 DEF IInv, TypeOK, ItemInv

LEMMA RowsKeeps == IInv /\ Rows => IInv'
  <1> SUFFICES ASSUME IInv, Rows PROVE IInv'
    OBVIOUS
  <1>1. /\ At("rows") /\ "rows" \in Collects
        /\ UNCHANGED <<config, formats, index, phase, body, handle, held, sent, reply>>
    BY DEF Rows, Collects
  <1>2. /\ UpToItem(sent') /\ OwnCalls' /\ CalledIn(sent', Item) /\ held' = Item
        /\ phase = "running" /\ "rows" \in Errors \ {"format"} /\ "rows" \notin Prepare
    BY <1>1, AfterCall
  <1>3. ItemInv'
    <2>1. CASE Fail("rows")
      BY <1>1, <1>2, <2>1, FailKeeps
    <2>2. CASE Succeed(entry)
      BY <1>1, <1>2, <2>2, SucceedKeeps, TypesNow
    <2>3. CASE /\ entry.rows < MaxRows
               /\ entry' = [entry EXCEPT !.rows = @ + 1]
               /\ UNCHANGED results
      BY <1>1, <2>3, RowKeeps
    <2> QED
      BY <2>1, <2>2, <2>3 DEF Rows
  <1> QED
    BY <1>1, <1>2, <1>3, TypesNow, StepKeeps

LEMMA CallKeeps == IInv /\ Call => IInv'
  <1> SUFFICES ASSUME IInv, Call PROVE IInv'
    OBVIOUS
  <1>1. /\ At("call") /\ phase = "running"
        /\ UNCHANGED <<config, formats, index, phase, handle, reply>>
        /\ sent' = Append(sent, [item |-> Item, via |-> handle, args |-> entry.args, body |-> Left])
        /\ body' = IF Posts THEN "closed" ELSE body
    BY DEF Call, At
  <1>2. Left \in {"none", "content", "empty"}
    BY DEF Left
  <1>3. UpToItem(sent') /\ OwnCalls' /\ CalledIn(sent', Item)
    BY <1>1, <1>2, SentOnCall
  <1>4. /\ config.kind \in Kinds /\ entry.at \in 1..Len(Stages[config.kind])
        /\ Stages[config.kind][entry.at] = "call" /\ Item \in 0..Size /\ 0 \in 0..Size
    BY <1>1, Running
  <1>5. ItemInv' /\ held' \in 0..Size
    <2>1. CASE held' = Item /\ Answered
      <3>1. CASE config.kind = "shell"
        <4>1. PICK b \in Bodies : FormatInto(entry, b)
          BY <2>1, <3>1 DEF Answered
        <4> QED
          BY <1>1, <1>3, <1>4, <2>1, <4>1, FormatKeeps, TypesNow
      <3>2. CASE config.kind \in {"cassandra", "multi"}
        <4>1. Succeed(entry)
          BY <2>1, <3>2 DEF Answered
        <4> QED
          BY <1>1, <1>3, <1>4, <2>1, <4>1, SucceedKeeps, TypesNow
      <3>3. CASE config.kind \in {"http", "postgres", "mysql", "redis"}
        <4>1. Proceed("call", entry)
          BY <2>1, <3>3 DEF Answered
        <4>2. entry.at < Len(Stages[config.kind])
          BY <1>4, <3>3, StageOrder
        <4> QED
          BY <1>1, <1>3, <1>4, <2>1, <4>1, <4>2, ProceedKeeps, TypesNow DEF GoesOn
      <3> QED
        BY <1>4, <3>1, <3>2, <3>3 DEF Kinds
    <2>2. CASE held' = 0 /\ Fail("call")
      <3>1. "call" \in Errors \ {"format"} /\ "call" \notin Prepare
        BY DEF Errors, Prepare
      <3> QED
        BY <1>1, <1>3, <1>4, <2>2, <3>1, FailKeeps
    <2> QED
      BY <2>1, <2>2 DEF Call, Obtained
  <1> QED
    BY <1>1, <1>3, <1>5, TypesNow, StepKeeps DEF UpToItem

LEMMA StutterKeeps == IInv /\ UNCHANGED vars => IInv'
  <1> SUFFICES ASSUME IInv, UNCHANGED vars PROVE IInv'
    OBVIOUS
  <1>1. TypeOK'
    BY DEF IInv, TypeOK, vars, locals, Entries, Sendings, Size
  <1>2. Quiet' /\ Indexed'
    BY DEF IInv, Quiet, Indexed, vars, locals
  <1> QED
    BY <1>1, <1>2, LocalsStay DEF IInv, vars

LEMMA NextInv == IInv /\ [Next]_vars => IInv'
  <1> SUFFICES ASSUME IInv, [Next]_vars PROVE IInv'
    OBVIOUS
  <1> QED
    BY BuildKeeps, RefuseKeeps, StartKeeps, DialKeeps, TargetKeeps, ArgsKeeps, OpenKeeps,
       CallKeeps, EmbeddedPanicsKeeps, ReadKeeps, RowsKeeps, ConvertKeeps, AnswerKeeps,
       StutterKeeps DEF Next
-----------------------------------------------------------------------------
(* THEOREMS *)

(* The relation between the current item and the calls holds through every *)
(* stage of every kind, whatever the servers answer.                       *)
THEOREM Invariance == Spec => []IInv
  BY InitInv, NextInv, PTL DEF Spec

(* Types of what a factory keeps and of the locals of Run. *)
THEOREM TypeCorrect == Spec => []TypeOK
  <1>1. IInv => TypeOK
    BY DEF IInv
  <1> QED
    BY <1>1, Invariance, PTL

(* The reply, the rows and the output that outlive an item never become    *)
(* the result of the next one.                                             *)
THEOREM AnswersAreOwn == Spec => []OwnAnswer
  <1>1. IInv => OwnAnswer
    BY DEF IInv
  <1> QED
    BY <1>1, Invariance, PTL

(* Each item is called at most once and in its turn, with its own          *)
(* arguments and over the connection opened for it.                        *)
THEOREM CallsAreOwn == Spec => []OwnCalls
  <1>1. IInv => OwnCalls
    BY DEF IInv
  <1> QED
    BY <1>1, Invariance, PTL

(* goto Append keeps a failure to its item: the others are called.         *)
THEOREM FailuresAreLocal == Spec => []FailureIsLocal
  <1>1. IInv => FailureIsLocal
    BY DEF IInv
  <1> QED
    BY <1>1, Invariance, PTL

(* return_queries and return_command show every call made, failed or not.  *)
THEOREM EveryCallIsShown == Spec => []CallsAreShown
  <1>1. IInv => CallsAreShown
    BY DEF IInv
  <1> QED
    BY <1>1, Invariance, PTL

(* A run that panics with all its entries does so for its index. *)
Panicking == phase = "panicked" /\ Len(results) = Size => index \notin -1..(Size - 1)

LEMMA PanickingInit == Init => Panicking
  BY DEF Init, Panicking

LEMMA PanickingNext == IInv /\ Panicking /\ [Next]_vars => Panicking'
  <1> SUFFICES ASSUME IInv, Panicking, [Next]_vars PROVE Panicking'
    OBVIOUS
  <1>1. CASE Build
    BY <1>1 DEF Build, Panicking
  <1>2. CASE Refuse
    BY <1>2 DEF Refuse, Panicking
  <1>3. CASE Start
    BY <1>3 DEF Start, Panicking
  <1>4. CASE Dial
    BY <1>4 DEF Dial, Panicking
  <1>5. CASE Target \/ Args \/ Open \/ Call \/ Read \/ Rows \/ Convert
    <2>1. phase = "running" /\ phase' = phase
      BY <1>5 DEF Target, Args, Open, Call, Read, Rows, Convert, At
    <2> QED
      BY <2>1 DEF Panicking
  <1>6. CASE EmbeddedPanics
    <2>1. Len(results) < Size /\ Len(results) \in Nat /\ Size \in Nat
      BY <1>6, Running DEF EmbeddedPanics, At
    <2>2. results' = results /\ config' = config
      BY <1>6 DEF EmbeddedPanics, locals
    <2> QED
      BY <2>1, <2>2 DEF Panicking, Size
  <1>7. CASE Answer
    BY <1>7 DEF Answer, Panicking, Size
  <1>8. CASE UNCHANGED vars
    BY <1>8 DEF vars, locals, Panicking, Size
  <1> QED
    BY <1>1, <1>2, <1>3, <1>4, <1>5, <1>6, <1>7, <1>8 DEF Next

LEMMA EmptyList ==
  ASSUME NEW S, NEW s \in Seq(S), Len(s) = 0
  PROVE  s = <<>>
  OBVIOUS

(* What Validate compares is enough but for a negative index, and but for  *)
(* MySQL, whose factory does not validate.                                 *)
THEOREM BoundsHold == Spec => []IndexInBounds
  <1>1. IInv /\ Panicking => IndexInBounds
    <2> SUFFICES ASSUME IInv, Panicking, phase = "panicked", Len(results) = Size
                 PROVE  \/ config.kind = "mysql" /\ config.items = <<>>
                        \/ config.kind # "mysql" /\ config.single # Unset /\ config.single < -1
      BY DEF IndexInBounds
    <2>1. /\ index \notin -1..(Size - 1) /\ Accepted(config)
          /\ index = SingleResultIndex(config)
      BY DEF Panicking, IInv, Indexed
    <2>2. /\ config.items \in Seq(Items) /\ Size \in Nat /\ Size = Len(config.items)
          /\ config.single \in Int \cup {Unset}
      BY KindOf DEF IInv, TypeOK, Size
    <2>3. CASE config.kind = "mysql"
      <3>1. index = 0
        BY <2>1, <2>3 DEF SingleResultIndex
      <3>2. Size = 0
        BY <2>1, <2>2, <3>1
      <3> QED
        BY <2>2, <2>3, <3>2, EmptyList
    <2>4. CASE config.kind # "mysql"
      <3>1. ~OutOfBounds(config)
        BY <2>1, <2>4 DEF Accepted
      <3>2. config.single # Unset /\ index = config.single
        BY <2>1, <2>2, <2>4 DEF SingleResultIndex
      <3>3. config.single \in Int /\ ~(config.single > Size - 1)
        BY <2>2, <3>1, <3>2 DEF OutOfBounds
      <3> QED
        BY <2>1, <2>2, <2>4, <3>2, <3>3
    <2> QED
      BY <2>3, <2>4
  <1>2. Spec => []Panicking
    BY PanickingInit, PanickingNext, Invariance, PTL DEF Spec
  <1> QED
    BY <1>1, <1>2, Invariance, PTL
-----------------------------------------------------------------------------
(* THE TASKS IMPLEMENT THE BATCH *)

Viewed(e) == IF e.error = "" THEN "done" ELSE "failed"
View(s) == [i \in DOMAIN s |-> Viewed(s[i])]

LEMMA ViewEmpty == View(<<>>) = <<>>
  BY DEF View

LEMMA AppendAt ==
  ASSUME NEW S, NEW s \in Seq(S), NEW e
  PROVE  \A i \in 1..(Len(s) + 1) : Append(s, e)[i] = IF i = Len(s) + 1 THEN e ELSE s[i]
  <1>1. s \in Seq(S \cup {e}) /\ Append(s, e) \in Seq(S \cup {e})
    OBVIOUS
  <1> QED
    BY <1>1

LEMMA SequenceIn ==
  ASSUME NEW S, NEW s \in Seq(S)
  PROVE  s \in [1..Len(s) -> S]
  OBVIOUS

LEMMA AppendIn ==
  ASSUME NEW S, NEW s \in Seq(S), NEW e \in S
  PROVE  Append(s, e) \in [1..(Len(s) + 1) -> S]
  <1>1. Append(s, e) \in Seq(S) /\ Len(Append(s, e)) = Len(s) + 1
    OBVIOUS
  <1> QED
    BY <1>1, SequenceIn, Zenon

LEMMA ViewAppends ==
  ASSUME NEW S, NEW s \in Seq(S), NEW e
  PROVE  /\ Len(View(s)) = Len(s)
         /\ View(Append(s, e)) = Append(View(s), Viewed(e))
  <1> DEFINE n == Len(s)
  <1>1. n \in Nat /\ DOMAIN s = 1..n
    OBVIOUS
  <1>2. View(s) \in Seq({"done", "failed"}) /\ Len(View(s)) = n
    <2>1. View(s) \in [1..n -> {"done", "failed"}]
      BY <1>1 DEF View, Viewed
    <2> QED
      BY <1>1, <2>1
  <1>3. s \in Seq(S \cup {e}) /\ Append(s, e) \in Seq(S \cup {e}) /\ Len(Append(s, e)) = n + 1
    OBVIOUS
  <1>4. DOMAIN Append(s, e) = 1..(n + 1)
    BY <1>1, <1>3
  <1>5. \A i \in 1..(n + 1) : Append(s, e)[i] = IF i = n + 1 THEN e ELSE s[i]
    BY AppendAt
  <1>6. Append(View(s), Viewed(e)) \in [1..(n + 1) -> {"done", "failed"}]
    <2>1. Viewed(e) \in {"done", "failed"}
      BY DEF Viewed
    <2> QED
      BY <1>2, <2>1, AppendIn
  <1>7. \A i \in 1..(n + 1) :
          Append(View(s), Viewed(e))[i] = IF i = n + 1 THEN Viewed(e) ELSE Viewed(s[i])
    <2>1. \A i \in 1..(n + 1) :
            Append(View(s), Viewed(e))[i] = IF i = n + 1 THEN Viewed(e) ELSE View(s)[i]
      BY <1>2, AppendAt
    <2>2. \A i \in 1..n : View(s)[i] = Viewed(s[i])
      BY <1>1 DEF View
    <2>3. \A i \in 1..(n + 1) : i = n + 1 \/ i \in 1..n
      BY <1>1
    <2> QED
      BY <2>1, <2>2, <2>3, Zenon
  <1>8. View(Append(s, e)) \in [1..(n + 1) -> {"done", "failed"}]
    BY <1>4 DEF View, Viewed
  <1>9. \A i \in 1..(n + 1) :
          View(Append(s, e))[i] = IF i = n + 1 THEN Viewed(e) ELSE Viewed(s[i])
    BY <1>1, <1>4, <1>5 DEF View
  <1> QED
    BY <1>2, <1>6, <1>7, <1>8, <1>9

(* What a stage does to the entries collected. *)
LEMMA StageViewed ==
  ASSUME Target \/ Args \/ Open \/ Call \/ Read \/ Rows \/ Convert
  PROVE  /\ phase = "running" /\ Len(results) < Size
         /\ UNCHANGED <<config, phase, reply>>
         /\ results' = results \/ \E e : results' = Append(results, e)
  <1>1. phase = "running" /\ Len(results) < Size /\ UNCHANGED <<config, phase, reply>>
    BY DEF Target, Args, Open, Call, Read, Rows, Convert, At
  <1>2. ASSUME NEW stage, Fail(stage) PROVE \E e : results' = Append(results, e)
    BY <1>2 DEF Fail, Collect
  <1>3. ASSUME NEW e, Succeed(e) PROVE \E f : results' = Append(results, f)
    BY <1>3 DEF Succeed, Collect
  <1>4. ASSUME NEW e, NEW stage, Proceed(stage, e) PROVE results' = results
    BY <1>4 DEF Proceed
  <1>5. ASSUME NEW b, FormatInto(entry, b) PROVE \E e : results' = Append(results, e)
    BY <1>5 DEF FormatInto, Succeed, Collect
  <1>6. CASE Target
    BY <1>1, <1>2, <1>4, <1>6 DEF Target
  <1>7. CASE Args
    BY <1>1, <1>2, <1>4, <1>7 DEF Args
  <1>8. CASE Open
    BY <1>1, <1>2, <1>4, <1>8 DEF Open
  <1>9. CASE Call
    <2>1. CASE Answered
      BY <1>1, <1>3, <1>4, <1>5, <2>1 DEF Answered
    <2>2. CASE Fail("call")
      BY <1>1, <1>2, <2>2
    <2> QED
      BY <1>9, <2>1, <2>2 DEF Call
  <1>10. CASE Read
    BY <1>1, <1>2, <1>5, <1>10 DEF Read
  <1>11. CASE Rows
    BY <1>1, <1>2, <1>3, <1>11 DEF Rows
  <1>12. CASE Convert
    BY <1>1, <1>2, <1>3, <1>12 DEF Convert
  <1> QED
    BY <1>6, <1>7, <1>8, <1>9, <1>10, <1>11, <1>12

LEMMA StepViewed ==
  ASSUME IInv, [Next]_vars
  PROVE  [Abstract!BNext]_Abstract!bvars
  <1> DEFINE entries == View(results)
  <1>1. /\ results \in Seq(Entries) /\ Size \in Nat /\ Len(entries) = Len(results)
        /\ reply.kind \in {"none", "all", "one", "error"}
    BY KindOf, ViewAppends DEF IInv, TypeOK
  <1>2. CASE Build \/ Refuse \/ UNCHANGED vars
    <2>1. Outcome' = Outcome /\ Size' = Size /\ results' = results
      BY <1>2 DEF Build, Refuse, vars, locals, Outcome, Size
    <2> QED
      BY <2>1 DEF Abstract!bvars
  <1>3. CASE Start
    <2>1. Outcome # "open" /\ Outcome' = "open" /\ Size' = Size
      BY <1>1, <1>3 DEF Start, Outcome, Size
    <2>2. entries' = <<>>
      BY <1>3, ViewEmpty DEF Start
    <2> QED
      BY <2>1, <2>2 DEF Abstract!BNext, Abstract!Serve, View, Viewed
  <1>4. CASE Dial
    <2>1. results = <<>> /\ results' = results /\ Size' = Size
      BY <1>4 DEF Dial, IInv, Quiet, Size
    <2>2. Outcome = "open" /\ Outcome' \in {"open", "none"}
      BY <1>4 DEF Dial, Outcome
    <2> QED
      BY <2>1, <2>2, ViewEmpty
      DEF Abstract!BNext, Abstract!GiveUp, Abstract!bvars, View, Viewed
  <1>5. CASE Target \/ Args \/ Open \/ Call \/ Read \/ Rows \/ Convert
    <2>1. Outcome = "open" /\ Outcome' = Outcome /\ Size' = Size /\ Len(results) < Size
      BY <1>5, StageViewed DEF Outcome, Size
    <2>2. CASE results' = results
      BY <2>1, <2>2 DEF Abstract!bvars
    <2>3. ASSUME NEW e, results' = Append(results, e) PROVE Abstract!Collected
      <3>1. entries' = Append(entries, Viewed(e)) /\ Viewed(e) \in {"done", "failed"}
        BY <1>1, <2>3, ViewAppends DEF Viewed
      <3> QED
        BY <1>1, <2>1, <3>1 DEF Abstract!Collected, View, Viewed
    <2> QED
      BY <1>5, <2>2, <2>3, StageViewed DEF Abstract!BNext
  <1>6. CASE EmbeddedPanics
    <2>1. /\ Outcome = "open" /\ Outcome' = "panicked"
          /\ Size' = Size /\ results' = results
      BY <1>6 DEF EmbeddedPanics, At, locals, Outcome, Size
    <2> QED
      BY <2>1 DEF Abstract!BNext, Abstract!Panic
  <1>7. CASE Answer
    <2>1. /\ Outcome = "open" /\ Len(entries) = Size
          /\ Size' = Size /\ results' = results
      BY <1>1, <1>7 DEF Answer, Outcome, Size
    <2>2. \/ Outcome' = "panicked"
          \/ Outcome' = "all"
          \/ Outcome' = "one" /\ Size > 0
      BY <1>1, <1>7 DEF Answer, Outcome, Size
    <2> QED
      BY <2>1, <2>2 DEF Abstract!BNext, Abstract!Panic, Abstract!Close, View, Viewed
  <1> QED
    BY <1>2, <1>3, <1>4, <1>5, <1>6, <1>7 DEF Next

(* Whatever the kind, the configuration and the servers do, a run leaves   *)
(* one entry per item in the order of the list, a failed one included, and *)
(* answers with all of them or with one that is there.                     *)
THEOREM Implements == Spec => Refinement
  <1>1. ASSUME Init PROVE Abstract!BInit
    <2>1. results = <<>> /\ Outcome = "idle" /\ Size \in Nat
      BY <1>1, KindOf DEF Init, Outcome
    <2> QED
      BY <2>1, ViewEmpty DEF Abstract!BInit, View, Viewed
  <1>2. IInv /\ [Next]_vars => [Abstract!BNext]_Abstract!bvars
    BY StepViewed
  <1> QED
    BY <1>1, <1>2, Invariance, PTL DEF Spec, Refinement, Abstract!BSpec

-----------------------------------------------------------------------------
(* FORMATS *)

FormatsVerified ==
  phase \notin {"decoded", "refused"} =>
    formats = [i \in DOMAIN config.items |-> VerifyFormat(config.items[i].format)]

(* An entry of an item with the format f. *)
FormattedBy(e, f) ==
  LET accepting == {k \in DOMAIN f : NonBlank(f[k]) /\ f[k] \in e.body}
  IN  /\ e.error # "format"
      /\ e.error = "" =>
           \/ accepting = {} /\ e.format = "text"
           \/ \E k \in accepting : e.format = f[k] /\ \A n \in accepting : k <= n

EveryFormatted ==
  config.kind \in Formatted =>
    \A i \in DOMAIN results : FormattedBy(results[i], config.items[i].format)

LEMMA FormatsVerifiedInit == Init => FormatsVerified /\ EveryFormatted
  BY DEF Init, FormatsVerified, EveryFormatted

LEMMA FormatsVerifiedNext == FormatsVerified /\ [Next]_vars => FormatsVerified'
  BY DEF Next, vars, locals, Build, Refuse, Start, Dial, Target, Args, Open, Call,
         EmbeddedPanics, Read, Rows, Convert, Answer, At, FormatsVerified

(* An entry that failed before its body was formatted. *)
LEMMA FailureFormatted ==
  ASSUME IInv, NEW stage \in StageNames, Fail(stage), NEW f
  PROVE  \E e : results' = Append(results, e) /\ FormattedBy(e, f)
  <1> DEFINE e == [entry EXCEPT !.error = stage]
  <1>1. e.error = stage
    BY DEF IInv, TypeOK, Entries
  <1>2. stage # "format" /\ stage # ""
    BY DEF StageNames
  <1>3. results' = Append(results, e)
    BY DEF Fail, Collect
  <1> HIDE DEF e
  <1>4. FormattedBy(e, f)
    BY <1>1, <1>2 DEF FormattedBy
  <1> QED
    BY <1>3, <1>4

(* FormatInto, with what VerifyFormat left, formats every body. *)
LEMMA BodyFormatted ==
  ASSUME IInv, FormatsVerified, NEW stage, At(stage), config.kind \in Formatted,
         NEW b \in Bodies, FormatInto(entry, b)
  PROVE  \E e : results' = Append(results, e) /\ FormattedBy(e, config.items[Item].format)
  <1> DEFINE f == config.items[Item].format
             v == VerifyFormat(f)
             e == [[entry EXCEPT !.format = Format(v, b), !.body = b] EXCEPT !.result = held']
  <1>1. Item \in 1..Size /\ config.items[Item] \in Items /\ config.items \in Seq(Items)
    BY Running, KindOf DEF IInv, TypeOK
  <1>2. formats[Item] = v
    <2>1. Item \in DOMAIN config.items /\ phase = "running"
      BY <1>1 DEF Size, At
    <2> QED
      BY <2>1 DEF FormatsVerified
  <1>3. f \in Seq(STRING) /\ Verifies(f)
    <2>1. config.kind # "mysql" /\ Accepted(config)
      BY DEF IInv, Indexed, At, Formatted
    <2>2. ItemValid(config, Item)
      BY <1>1, <2>1 DEF Accepted, Size
    <2> QED
      BY <1>1, <2>2 DEF ItemValid, Items
  <1>4. ~FormatFails(v, b)
    BY <1>3, FirstAccepting
  <1>5. results' = Append(results, e)
    BY <1>2, <1>4 DEF FormatInto, Succeed, Collect
  <1>6. e.error = "" /\ e.format = Format(v, b) /\ e.body = b
    BY DEF IInv, TypeOK, Entries, Current
  <1> HIDE DEF e, f, v
  <1>7. FormattedBy(e, f)
    <2>1. \/ {k \in DOMAIN f : NonBlank(f[k]) /\ f[k] \in b} = {} /\ Format(v, b) = "text"
          \/ \E k \in {k \in DOMAIN f : NonBlank(f[k]) /\ f[k] \in b} :
               /\ Format(v, b) = f[k]
               /\ \A n \in {k2 \in DOMAIN f : NonBlank(f[k2]) /\ f[k2] \in b} : k <= n
      BY <1>3, FirstAccepting DEF v
    <2> QED
      BY <1>6, <2>1 DEF FormattedBy
  <1> QED
    BY <1>5, <1>7 DEF f

(* What a stage of a shell or an http task adds. *)
LEMMA StageFormatted ==
  ASSUME IInv, FormatsVerified, config.kind \in Formatted,
         Target \/ Args \/ Open \/ Call \/ Read \/ Rows \/ Convert
  PROVE  \/ results' = results
         \/ \E e : results' = Append(results, e) /\ FormattedBy(e, config.items[Item].format)
  <1> DEFINE Added == \E e : results' = Append(results, e)
                                /\ FormattedBy(e, config.items[Item].format)
  <1> SUFFICES results' = results \/ Added
    OBVIOUS
  <1>1. ASSUME NEW stage \in StageNames, Fail(stage) PROVE Added
    BY <1>1, FailureFormatted
  <1>2. ASSUME NEW stage, NEW e, Proceed(stage, e) PROVE results' = results
    BY <1>2 DEF Proceed
  <1>3. ASSUME NEW stage, At(stage), NEW b \in Bodies, FormatInto(entry, b) PROVE Added
    BY <1>3, BodyFormatted
  <1>4. {"target", "args", "open", "call", "read"} \subseteq StageNames
    BY DEF StageNames
  <1>5. ~At("rows") /\ ~At("convert")
    <2> SUFFICES ASSUME NEW stage \in {"rows", "convert"}, At(stage) PROVE FALSE
      OBVIOUS
    <2>1. entry.at \in 1..Len(Stages[config.kind]) /\ Stages[config.kind][entry.at] = stage
      BY Running
    <2>2. CASE config.kind = "shell"
      BY <2>1, <2>2, StagesAre
    <2>3. CASE config.kind = "http"
      BY <2>1, <2>3, StagesAre
    <2> QED
      BY <2>2, <2>3 DEF Formatted
  <1> HIDE DEF Added
  <1>6. CASE Target
    BY <1>1, <1>2, <1>4, <1>6 DEF Target
  <1>7. CASE Args
    BY <1>1, <1>2, <1>4, <1>7 DEF Args
  <1>8. CASE Open
    BY <1>1, <1>2, <1>4, <1>8 DEF Open
  <1>9. CASE Call
    <2>1. CASE Answered
      BY <1>2, <1>3, <1>9, <2>1 DEF Answered, Call, Formatted
    <2>2. CASE Fail("call")
      BY <1>1, <1>4, <2>2
    <2> QED
      BY <1>9, <2>1, <2>2 DEF Call
  <1>10. CASE Read
    BY <1>1, <1>3, <1>4, <1>10 DEF Read
  <1> QED
    BY <1>5, <1>6, <1>7, <1>8, <1>9, <1>10 DEF Rows, Convert

LEMMA EveryFormattedNext ==
  IInv /\ FormatsVerified /\ EveryFormatted /\ [Next]_vars => EveryFormatted'
  <1> SUFFICES ASSUME IInv, FormatsVerified, EveryFormatted, [Next]_vars,
                      config'.kind \in Formatted
               PROVE  \A i \in DOMAIN results' : FormattedBy(results'[i], config'.items[i].format)
    BY DEF EveryFormatted
  <1>1. config' = config
    BY DEF Next, vars, Build, Refuse, Start, Dial, Target, Args, Open, Call,
           EmbeddedPanics, Read, Rows, Convert, Answer
  <1>2. CASE results' = results
    BY <1>1, <1>2 DEF EveryFormatted
  <1>3. CASE results' = <<>>
    BY <1>3
  <1>4. ASSUME NEW e, results' = Append(results, e), FormattedBy(e, config.items[Item].format)
        PROVE  \A i \in DOMAIN results' : FormattedBy(results'[i], config'.items[i].format)
    <2>1. results \in Seq(Entries) /\ Len(results) \in Nat
      BY DEF IInv, TypeOK
    <2>2. \A i \in 1..(Len(results) + 1) :
            results'[i] = IF i = Len(results) + 1 THEN e ELSE results[i]
      BY <1>4, <2>1, AppendAt
    <2>3. results' \in Seq(Entries \cup {e}) /\ Len(results') = Len(results) + 1
      <3>1. results \in Seq(Entries \cup {e})
        BY <2>1
      <3> QED
        BY <1>4, <3>1
    <2>4. DOMAIN results' = 1..(Len(results) + 1) /\ DOMAIN results = 1..Len(results)
      BY <2>1, <2>3
    <2> QED
      BY <1>1, <1>4, <2>1, <2>2, <2>4 DEF EveryFormatted, Item
  <1>5. CASE Target \/ Args \/ Open \/ Call \/ Read \/ Rows \/ Convert
    BY <1>1, <1>2, <1>4, <1>5, StageFormatted
  <1>6. CASE Build \/ Refuse \/ Start \/ Dial \/ EmbeddedPanics \/ Answer \/ UNCHANGED vars
    BY <1>2, <1>3, <1>6
    DEF Build, Refuse, Start, Dial, EmbeddedPanics, Answer, vars, locals
  <1> QED
    BY <1>5, <1>6 DEF Next

(* Every body a shell or an http task gets is formatted, by the first part *)
(* configured that accepts it and as text if none does, for formats of any *)
(* length and any formats registered: what VerifyFormat leaves never fails.*)
(* The property leaves open how an http item without a format is taken;    *)
(* what is proved of every step, EveryFormatted, says that it is text.     *)
THEOREM FirstFormat == Spec => []FirstFormatApplies
  <1>1. Spec => [](FormatsVerified /\ EveryFormatted)
    BY FormatsVerifiedInit, FormatsVerifiedNext, EveryFormattedNext, Invariance, PTL DEF Spec
  <1>2. EveryFormatted => FirstFormatApplies
    BY DEF EveryFormatted, FirstFormatApplies, FormattedBy
  <1> QED
    BY <1>1, <1>2, PTL

-----------------------------------------------------------------------------
(* THE SINGLE RESULT *)

(* What Answer does with the index. *)
Unwrapped ==
  phase = "answered" =>
    \/ reply.kind = "error"
    \/ index = -1 /\ reply = [kind |-> "all", item |-> 0]
    \/ index >= 0 /\ reply = [kind |-> "one", item |-> index + 1]

LEMMA UnwrappedNext == IInv /\ Unwrapped /\ [Next]_vars => Unwrapped'
  <1> SUFFICES ASSUME IInv, Unwrapped, [Next]_vars PROVE Unwrapped'
    OBVIOUS
  <1>1. CASE Build \/ Refuse
    BY <1>1 DEF Build, Refuse, Unwrapped
  <1>2. CASE Start
    BY <1>2 DEF Start, Unwrapped
  <1>3. CASE Dial
    BY <1>3 DEF Dial, Unwrapped
  <1>4. CASE Target \/ Args \/ Open \/ Call \/ Read \/ Rows \/ Convert
    <2>1. phase = "running" /\ phase' = phase
      BY <1>4, StageViewed
    <2> QED
      BY <2>1 DEF Unwrapped
  <1>5. CASE EmbeddedPanics
    BY <1>5 DEF EmbeddedPanics, Unwrapped
  <1>6. CASE Answer
    <2>1. Size \in Nat
      BY KindOf DEF IInv, TypeOK
    <2> QED
      BY <1>6, <2>1 DEF Answer, Unwrapped
  <1>7. CASE UNCHANGED vars
    BY <1>7 DEF vars, locals, Unwrapped
  <1> QED
    BY <1>1, <1>2, <1>3, <1>4, <1>5, <1>6, <1>7 DEF Next

(* What single_result comes to for every kind: as documented but for MySQL *)
(* (tasks.go:1049), which always answers with its first entry.             *)
SingleResultByKind ==
  IF config.kind # "mysql" THEN SingleResultApplies
  ELSE phase = "answered" /\ reply.kind # "error" => reply = [kind |-> "one", item |-> 1]

(* single_result is the index of the entry unwrapped, and all entries are  *)
(* given without it, in every task but MySQL's, whose factory does not     *)
(* validate: there the first entry is the answer whatever it says.         *)
THEOREM SingleResult == Spec => []SingleResultByKind
  <1>1. Init => Unwrapped
    BY DEF Init, Unwrapped
  <1>2. Spec => []Unwrapped
    BY <1>1, UnwrappedNext, Invariance, PTL DEF Spec
  <1>3. IInv /\ Unwrapped => SingleResultByKind
    <2> SUFFICES ASSUME IInv, Unwrapped, phase = "answered", reply.kind # "error"
                 PROVE  IF config.kind # "mysql"
                        THEN IF config.single = Unset THEN reply.kind = "all"
                             ELSE config.single >= 0 =>
                                    reply = [kind |-> "one", item |-> config.single + 1]
                        ELSE reply = [kind |-> "one", item |-> 1]
      BY DEF SingleResultByKind, SingleResultApplies
    <2>1. index = SingleResultIndex(config) /\ config.single \in Int \cup {Unset}
      BY KindOf DEF IInv, TypeOK, Indexed
    <2>2. CASE config.kind = "mysql"
      <3>1. index = 0
        BY <2>1, <2>2 DEF SingleResultIndex
      <3> QED
        BY <2>2, <3>1 DEF Unwrapped
    <2>3. CASE config.kind # "mysql" /\ config.single = Unset
      <3>1. index = -1
        BY <2>1, <2>3 DEF SingleResultIndex
      <3> QED
        BY <2>3, <3>1 DEF Unwrapped
    <2>4. CASE config.kind # "mysql" /\ config.single # Unset
      <3>1. index = config.single /\ config.single \in Int
        BY <2>1, <2>4 DEF SingleResultIndex
      <3> QED
        BY <2>4, <3>1 DEF Unwrapped
    <2> QED
      BY <2>2, <2>3, <2>4
  <1> QED
    BY <1>2, <1>3, Invariance, PTL

-----------------------------------------------------------------------------
(* WHAT AN HTTP TASK POSTS *)

NoContentPosted == \A j \in DOMAIN sent : sent[j].body # "content"

(* Handle has read the body before any call. *)
Exhausted ==
  /\ phase \in {"dialing", "running"} => body # "unread"
  /\ NoContentPosted

LEMMA CallPosts == IInv /\ Exhausted /\ Call => NoContentPosted'
  <1> SUFFICES ASSUME IInv, Exhausted, Call PROVE NoContentPosted'
    OBVIOUS
  <1> DEFINE call == [item |-> Item, via |-> handle, args |-> entry.args, body |-> Left]
  <1>1. call.body # "content"
    BY DEF Exhausted, Call, At, Left
  <1>2. sent' = Append(sent, call) /\ sent \in Seq(Sendings)
    BY DEF Call, IInv, TypeOK
  <1> HIDE DEF call
  <1>3. /\ \A j \in 1..(Len(sent) + 1) :
             sent'[j] = IF j = Len(sent) + 1 THEN call ELSE sent[j]
        /\ DOMAIN sent' = 1..(Len(sent) + 1) /\ DOMAIN sent = 1..Len(sent)
        /\ Len(sent) \in Nat
    <2>1. sent \in Seq(Sendings \cup {call}) /\ call \in Sendings \cup {call}
      BY <1>2
    <2> QED
      BY <1>2, <2>1
  <1> QED
    BY <1>1, <1>3 DEF Exhausted, NoContentPosted

LEMMA ExhaustedNext == IInv /\ Exhausted /\ [Next]_vars => Exhausted'
  <1> SUFFICES ASSUME IInv, Exhausted, [Next]_vars PROVE Exhausted'
    OBVIOUS
  <1>1. CASE Start
    BY <1>1 DEF Start, Exhausted, NoContentPosted
  <1>2. CASE Call
    <2>1. phase = "running" /\ body' \in {body, "closed"}
      BY <1>2 DEF Call, At
    <2> QED
      BY <1>2, <2>1, CallPosts DEF Exhausted
  <1>3. CASE \/ Build \/ Refuse \/ Dial \/ Target \/ Args \/ Open \/ EmbeddedPanics
             \/ Read \/ Rows \/ Convert \/ Answer \/ UNCHANGED vars
    <2>1. sent' = sent /\ body' = body
      BY <1>3 DEF Build, Refuse, Dial, Target, Args, Open, EmbeddedPanics, Read, Rows,
                  Convert, Answer, vars, locals
    <2>2. phase' \in {"dialing", "running"} => phase \in {"dialing", "running"}
      BY <1>3 DEF Build, Refuse, Dial, Target, Args, Open, EmbeddedPanics, Read, Rows,
                  Convert, Answer, At, vars, locals
    <2> QED
      BY <2>1, <2>2 DEF Exhausted, NoContentPosted
  <1> QED
    BY <1>1, <1>2, <1>3 DEF Next

(* Nothing a client sends as a body is ever posted to a url, by no item of *)
(* no http task: Handle has read it to its end before the task runs.       *)
THEOREM BodiesAreNotPosted == Spec => []NoContentPosted
  <1>1. Init => Exhausted
    BY DEF Init, Exhausted, NoContentPosted
  <1>2. Exhausted => NoContentPosted
    BY DEF Exhausted
  <1> QED
    BY <1>1, <1>2, ExhaustedNext, Invariance, PTL DEF Spec
=============================================================================
