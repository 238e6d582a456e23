-------------------------------- MODULE Tasks --------------------------------
(***************************************************************************)
(* The tasks of tasks.go that run a list of items: commands, urls,         *)
(* queries, embedded tasks.  A factory validates the configuration and     *)
(* keeps it in the task; each request runs the task, which takes the items *)
(* in their order through the stages of its kind.  A stage that fails puts *)
(* its error into the entry of the item and goes to the label Append; the  *)
(* last stage that succeeds puts the result there.  At the end the answer  *)
(* is the list of entries, or the entry single_result points at.           *)
(*                                                                         *)
(* Postgres, MySQL, Cassandra, redis, the shell and the http servers       *)
(* answer or fail as they like.  Of a value the model keeps where it comes *)
(* from: the item whose call produced it.  Of a request it keeps whether   *)
(* its body was read and closed.  The runs of a task share nothing but its *)
(* configuration, which they only read, so one run at a time is modelled.  *)
(***************************************************************************)
EXTENDS Integers, Sequences, Formats

CONSTANTS
  Configs,   (* what the factories may find in TaskConfig.Config         *)
  Unset,     (* single_result is missing                                 *)
  MaxRows    (* bounds the rows of an answer                             *)

Kinds == {"shell", "http", "postgres", "mysql", "cassandra", "redis", "multi"}

(* An item: whether its own Validate accepts it, leaving formats aside; how *)
(* many arguments it has; its format and post_body.                        *)
Items == [valid : BOOLEAN, args : Nat, format : Seq(STRING), post : BOOLEAN]

ASSUME TasksAssumption ==
  /\ Unset \notin Int
  /\ MaxRows \in Nat
  /\ \A c \in Configs :
       /\ c.kind \in Kinds
       /\ c.items \in Seq(Items)
       /\ c.single \in Int \cup {Unset}
       /\ c.show \in BOOLEAN

VARIABLES
  config,    (* the configuration the factory is given                     *)
  formats,   (* the format VerifyFormat left in each item                  *)
  index,     (* singleResultIndex                                          *)
  phase,     (* "decoded", "refused", "built", "dialing", "running",       *)
             (* "answered" or "panicked"                                   *)
  body,      (* r.Body: "unread", "drained" or "closed"                    *)
  entry,     (* the response of the current item, with its stage, the      *)
             (* arguments and the rows so far and the body it received     *)
  handle,    (* the item whose database, session or cluster is in use      *)
  held,      (* the item whose call set the reply, rows or output in use   *)
  sent,      (* the calls of this run                                      *)
  results,   (* the responses of the items, in order                       *)
  reply      (* "none", "all", "one" or "error", and which item for "one"  *)

locals == <<body, entry, handle, held, sent, results, reply>>
vars == <<config, formats, index, phase, locals>>

-----------------------------------------------------------------------------
(* The stages of each kind, in the order of its Run. *)
ShellStages     == <<"target", "call">>
HttpStages      == <<"target", "call", "read">>
PostgresStages  == <<"target", "args", "open", "call", "rows">>
MySQLStages     == <<"target", "open", "args", "call", "rows">>
CassandraStages == <<"target", "open", "args", "call">>
RedisStages     == <<"args", "call", "convert">>
MultiStages     == <<"call">>

Stages == [shell |-> ShellStages, http |-> HttpStages, postgres |-> PostgresStages,
           mysql |-> MySQLStages, cassandra |-> CassandraStages,
           redis |-> RedisStages, multi |-> MultiStages]

(* What return_queries and return_command add to an entry, and after which *)
(* stage; a bug would add it with the result only.                         *)
ShownWithResult(kind, stage) == IF stage = "call" THEN {"query", "args"} ELSE {}

ShownAfter(kind, stage) ==
  CASE kind = "shell" /\ stage = "target"   -> {"query"}
    [] kind = "postgres" /\ stage = "args"  -> {"query", "args"}
    [] kind = "mysql" /\ stage = "target"   -> {"query"}
    [] kind = "cassandra" /\ stage = "open" -> {"query"}
    [] kind = "redis" /\ stage = "args"     -> {"query", "args"}
    [] kind \in {"mysql", "cassandra"} /\ stage = "args" -> {"args"}
    [] OTHER -> {}

Formatted == {"shell", "http"}
Size == Len(config.items)
Item == Len(results) + 1

NewEntry == [at |-> 1, args |-> 0, rows |-> 0, body |-> {}, format |-> "",
             error |-> "", result |-> 0, shown |-> {}]

-----------------------------------------------------------------------------
Init ==
  /\ config \in Configs
  /\ formats = <<>>
  /\ index = 0
  /\ phase = "decoded"
  /\ body = "unread"
  /\ entry = NewEntry
  /\ handle = 0 /\ held = 0
  /\ sent = <<>> /\ results = <<>>
  /\ reply = [kind |-> "none", item |-> 0]

(* Validate of an item: the formats are verified there. *)
ItemValid(c, i) ==
  /\ c.items[i].valid
  /\ c.kind \in Formatted => Verifies(c.items[i].format)

(* single_result is compared with the length of the list, from above. *)
OutOfBoundsByOne(c) == c.single # Unset /\ c.single > Len(c.items)
OutOfBounds(c) == c.single # Unset /\ c.single > Len(c.items) - 1

(* MySQLTaskFactory does not call Validate. *)
Accepted(c) ==
  \/ c.kind = "mysql"
  \/ /\ c.items # <<>>
     /\ \A i \in DOMAIN c.items : ItemValid(c, i)
     /\ ~OutOfBounds(c)

(* Validate also computes singleResultIndex, 0 where nothing sets it. *)
SingleResultIndex(c) ==
  IF c.kind = "mysql" THEN 0 ELSE IF c.single = Unset THEN -1 ELSE c.single

Build ==
  /\ phase = "decoded"
  /\ Accepted(config)
  /\ phase' = "built"
  /\ index' = SingleResultIndex(config)
  /\ formats' = [i \in DOMAIN config.items |-> VerifyFormat(config.items[i].format)]
  /\ UNCHANGED <<config, locals>>

Refuse ==
  /\ phase = "decoded"
  /\ ~Accepted(config)
  /\ phase' = "refused"
  /\ UNCHANGED <<config, formats, index, locals>>

(* A request: Handle reads its body to the end and calls Run.  Redis dials *)
(* once, before the first item.                                            *)
Start ==
  /\ phase \in {"built", "answered", "panicked"}
  /\ phase' = IF config.kind = "redis" THEN "dialing" ELSE "running"
  /\ body' = "drained"
  /\ entry' = NewEntry
  /\ handle' = 0 /\ held' = 0
  /\ sent' = <<>> /\ results' = <<>>
  /\ reply' = [kind |-> "none", item |-> 0]
  /\ UNCHANGED <<config, formats, index>>

(* The address cannot be interpolated or dialled: the answer has no items. *)
Dial ==
  /\ phase = "dialing"
  /\ \/ phase' = "running" /\ UNCHANGED reply
     \/ phase' = "answered" /\ reply' = [kind |-> "error", item |-> 0]
  /\ UNCHANGED <<config, formats, index, body, entry, handle, held, sent, results>>

-----------------------------------------------------------------------------
(* The stages of an item. *)

At(stage) ==
  /\ phase = "running"
  /\ Len(results) < Size
  /\ Stages[config.kind][entry.at] = stage

(* The label Append.  A bug would keep the arguments or all of the entry   *)
(* for the next item, or put the entry in front.                           *)
CollectKeepingArgs(e) ==
  results' = Append(results, e) /\ entry' = [NewEntry EXCEPT !.args = e.args]
CollectKeepingEntry(e) ==
  results' = Append(results, e) /\ entry' = [e EXCEPT !.at = @ + 1]
CollectInFront(e) ==
  results' = <<e>> \o results /\ entry' = NewEntry

Collect(e) ==
  /\ results' = Append(results, e)
  /\ entry' = NewEntry

(* goto Append, with an error; without the goto the item goes on. *)
FailGoingOn(stage) ==
  entry' = [entry EXCEPT !.error = stage, !.at = @ + 1] /\ UNCHANGED results

Fail(stage) == Collect([entry EXCEPT !.error = stage])

(* The end of the last stage. *)
Succeed(e) == Collect([e EXCEPT !.result = held'])

(* On to the next stage, which may show something of this one. *)
Proceed(stage, e) ==
  /\ entry' = [e EXCEPT
                 !.at = @ + 1,
                 !.shown = IF config.show THEN @ \cup ShownAfter(config.kind, stage) ELSE @]
  /\ UNCHANGED results

(* Interpolate the url, the command or the hosts; the request is made of it. *)
Target ==
  /\ At("target")
  /\ Fail("target") \/ Proceed("target", entry)
  /\ UNCHANGED <<config, formats, index, phase, body, handle, held, sent, reply>>

(* Interpolate the arguments one after the other. *)
Args ==
  /\ At("args")
  /\ \/ Fail("args")
     \/ Proceed("args", [entry EXCEPT !.args = @ + config.items[Item].args])
  /\ UNCHANGED <<config, formats, index, phase, body, handle, held, sent, reply>>

Open ==
  /\ At("open")
  /\ \/ Fail("open") /\ handle' = 0
     \/ Proceed("open", entry) /\ handle' = Item
  /\ UNCHANGED <<config, formats, index, phase, body, held, sent, reply>>

Posts == config.kind = "http" /\ config.items[Item].post

(* What is left to read of a body. *)
Left == IF ~Posts THEN "none" ELSE IF body = "unread" THEN "content" ELSE "empty"

(* The variable a call assigns: nil when it failed.  Declared once more    *)
(* with := it would leave the one outside the loop as it was.              *)
ObtainedShadowed(answered) == held
Obtained(answered) == IF answered THEN Item ELSE 0

(* Format picks the part that formats the body; b is the body. *)
FormatInto(e, b) ==
  IF FormatFails(formats[Item], b)
  THEN Collect([e EXCEPT !.error = "format", !.body = b])
  ELSE Succeed([e EXCEPT !.format = Format(formats[Item], b), !.body = b])

Answered ==
  CASE config.kind = "shell" -> \E b \in Bodies : FormatInto(entry, b)
    [] config.kind \in {"cassandra", "multi"} -> Succeed(entry)
    [] OTHER -> Proceed("call", entry)

(* The command, the request or the query.  An embedded task does not fail  *)
(* for a multi task: what it answers is its entry.  client.Do closes the   *)
(* body it posts.                                                          *)
Call ==
  /\ At("call")
  /\ sent' = Append(sent, [item |-> Item, via |-> handle, args |-> entry.args, body |-> Left])
  /\ \/ held' = Obtained(TRUE) /\ Answered
     \/ config.kind # "multi" /\ held' = Obtained(FALSE) /\ Fail("call")
  /\ body' = IF Posts THEN "closed" ELSE body
  /\ UNCHANGED <<config, formats, index, phase, handle, reply>>

(* An embedded task panics, through Run of the multi task as well. *)
EmbeddedPanics ==
  /\ config.kind = "multi" /\ At("call")
  /\ phase' = "panicked"
  /\ UNCHANGED <<config, formats, index, locals>>

Read ==
  /\ At("read")
  /\ UNCHANGED held
  /\ Fail("read") \/ \E b \in Bodies : FormatInto(entry, b)
  /\ UNCHANGED <<config, formats, index, phase, body, handle, sent, reply>>

(* rows.Next is false at the end, and when the connection breaks: the rows *)
(* read so far are the result in both cases.                               *)
Rows ==
  /\ At("rows")
  /\ UNCHANGED held
  /\ \/ /\ entry.rows < MaxRows
        /\ entry' = [entry EXCEPT !.rows = @ + 1]
        /\ UNCHANGED results
     \/ Fail("rows")
     \/ Succeed(entry)
  /\ UNCHANGED <<config, formats, index, phase, body, handle, sent, reply>>

(* A nil reply is "not found"; GetReply may refuse any other. *)
Convert ==
  /\ At("convert")
  /\ UNCHANGED held
  /\ Fail("convert") \/ Succeed(entry)
  /\ UNCHANGED <<config, formats, index, phase, body, handle, sent, reply>>

(* The end of Run: results[singleResultIndex] panics out of its bounds. *)
Answer ==
  /\ phase = "running" /\ Len(results) = Size
  /\ \/ /\ index = -1
        /\ reply' = [kind |-> "all", item |-> 0] /\ phase' = "answered"
     \/ /\ index \in 0..(Size - 1)
        /\ reply' = [kind |-> "one", item |-> index + 1] /\ phase' = "answered"
     \/ /\ index \notin -1..(Size - 1)
        /\ phase' = "panicked" /\ UNCHANGED reply
  /\ UNCHANGED <<config, formats, index, body, entry, handle, held, sent, results>>

Next ==
  \/ Build \/ Refuse \/ Start \/ Dial
  \/ Target \/ Args \/ Open \/ Call \/ EmbeddedPanics \/ Read \/ Rows \/ Convert
  \/ Answer

Spec == Init /\ [][Next]_vars

-----------------------------------------------------------------------------
(* PROPERTIES *)

Errors == {"target", "args", "open", "call", "read", "rows", "convert", "format"}

Entries ==
  [at : 1..Len(Stages[config.kind]), args : Nat, rows : 0..MaxRows,
   body : SUBSET FormatIds, format : FormatIds \cup {""}, error : Errors \cup {""},
   result : 0..Size, shown : SUBSET {"query", "args"}]

Sendings ==
  [item : 1..Size, via : 0..Size, args : Nat, body : {"none", "content", "empty"}]

(* Types of what a factory keeps and of the locals of Run. *)
TypeOK ==
  /\ config \in Configs
  /\ phase \in {"decoded", "refused", "built", "dialing", "running", "answered", "panicked"}
  /\ index \in Int
  /\ DOMAIN formats \subseteq DOMAIN config.items
  /\ body \in {"unread", "drained", "closed"}
  /\ entry \in Entries
  /\ handle \in 0..Size /\ held \in 0..Size
  /\ sent \in Seq(Sendings)
  /\ results \in Seq(Entries) /\ Len(results) <= Size
  /\ reply \in [kind : {"none", "all", "one", "error"}, item : 0..Size]

(* An entry has a result or an error, and the result is what the call of   *)
(* this very item produced, although reply and rows outlive their item.    *)
OwnAnswer ==
  \A i \in DOMAIN results :
    IF results[i].error = "" THEN results[i].result = i ELSE results[i].result = 0

Stateful == {"postgres", "mysql", "cassandra"}

(* Items are called in order and at most once, each with all its own       *)
(* arguments and no other's, and over the connection opened for it.        *)
OwnCalls ==
  \A j \in DOMAIN sent :
    /\ sent[j].args = IF "args" \in {Stages[config.kind][k] : k \in DOMAIN Stages[config.kind]}
                      THEN config.items[sent[j].item].args ELSE 0
    /\ config.kind \in Stateful => sent[j].via = sent[j].item
    /\ \A k \in DOMAIN sent : k < j => sent[k].item < sent[j].item

IsCalled(i) == \E j \in DOMAIN sent : sent[j].item = i

(* A failure of one item: nothing is sent for an item that could not be    *)
(* prepared, and every other item is called all the same.                  *)
FailureIsLocal ==
  \A i \in DOMAIN results : IsCalled(i) <=> results[i].error \notin {"target", "args", "open"}

(* With return_queries or return_command every call that was made is shown *)
(* in its entry, and with its arguments, also when it failed.              *)
CallsAreShown ==
  config.show /\ config.kind \notin {"http", "multi"} =>
    \A i \in DOMAIN results : IsCalled(i) =>
      results[i].shown = IF config.kind = "shell" THEN {"query"} ELSE {"query", "args"}

(* Taking the single result out of the list panics only where Validate     *)
(* lets it: a negative index other than -1, or MySQL without queries.      *)
IndexInBounds ==
  phase = "panicked" /\ Len(results) = Size =>
    \/ config.kind = "mysql" /\ config.items = <<>>
    \/ config.kind # "mysql" /\ config.single # Unset /\ config.single < -1

(* Nothing but blank parts: README has an http task look at Content-Type   *)
(* then, and the code takes it as text.                                    *)
Guessed(i) ==
  config.kind = "http" /\ \A k \in DOMAIN config.items[i].format : ~NonBlank(config.items[i].format[k])

(* A body is formatted by the first part configured that accepts it, text  *)
(* if there is none, unless the format is to be guessed: with a            *)
(* configuration that was verified, formatting does not fail.              *)
FirstFormatApplies ==
  config.kind \in Formatted =>
    \A i \in DOMAIN results :
      LET e == results[i]
          f == config.items[i].format
          accepting == {k \in DOMAIN f : NonBlank(f[k]) /\ f[k] \in e.body}
      IN  /\ e.error # "format"
          /\ e.error = "" /\ ~Guessed(i) =>
               \/ accepting = {} /\ e.format = "text"
               \/ \E k \in accepting :
                    e.format = f[k] /\ \A n \in accepting : k <= n

Outcome ==
  CASE phase \in {"decoded", "refused", "built"} -> "idle"
    [] phase \in {"dialing", "running"} -> "open"
    [] phase = "panicked" -> "panicked"
    [] phase = "answered" -> IF reply.kind = "error" THEN "none" ELSE reply.kind

Abstract == INSTANCE Batch WITH
  size    <- Size,
  entries <- [i \in DOMAIN results |-> IF results[i].error = "" THEN "done" ELSE "failed"],
  outcome <- Outcome

(* Every kind of task is such a batch: one entry per item, in order. *)
Refinement == Abstract!BSpec

-----------------------------------------------------------------------------
(* What the documentation says of a task: the first holds of every kind    *)
(* but MySQL, the second of no task.                                       *)

(* README, for each of these tasks: single_result is the "index which      *)
(* query will be unwrapped from result array".                             *)
SingleResultApplies ==
  phase = "answered" /\ reply.kind # "error" =>
    IF config.single = Unset THEN reply.kind = "all"
    ELSE config.single >= 0 => reply = [kind |-> "one", item |-> config.single + 1]

(* README: post_body is "if goexpose should post body of goexpose request  *)
(* to url".                                                                *)
BodyIsPosted ==
  \A j \in DOMAIN sent : config.items[sent[j].item].post /\ config.kind = "http" =>
    sent[j].body = "content"
=============================================================================
