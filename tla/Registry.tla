------------------------------- MODULE Registry -------------------------------
(***************************************************************************)
(* The registries of authorizers, task factories and formats: a map from   *)
(* ids to functions under a sync.RWMutex, used by any number of            *)
(* goroutines.  A call registers an id, looks ids up under one read lock,  *)
(* or, in GetAuthorizers, takes the read lock a second time for every id   *)
(* while it holds it.                                                      *)
(*                                                                         *)
(* The lock is Go's: a writer first keeps out new readers and then waits   *)
(* for those inside; its Unlock lets in the readers it kept out.           *)
(***************************************************************************)
EXTENDS Naturals

CONSTANTS
  Procs,        (* goroutines                                              *)
  Main,         (* the one that runs the init functions and then main      *)
  Late,         (* those that register after init: an embedding program    *)
  Collectors,   (* those that call GetAuthorizers                          *)
  Ids,          (* ids                                                     *)
  Wanted,       (* the types of config.Authorizers                         *)
  Factories,    (* registered functions                                    *)
  MaxCalls,     (* bounds on the calls of each goroutine                   *)
  None

ASSUME ProcAssumption == Main \in Procs /\ Late \subseteq Procs /\ Collectors \subseteq Procs
ASSUME IdAssumption   == Wanted \subseteq Ids
ASSUME NoneAssumption == None \notin Procs \cup Ids \cup Factories
ASSUME CallAssumption == MaxCalls \in [Procs -> Nat]

VARIABLES
  table,     (* the registry                                               *)
  writer,    (* the goroutine that locks, or None                          *)
  readers,   (* how often each goroutine holds the read lock               *)
  blocked,   (* those kept out in RLock                                    *)
  pc,        (* where each goroutine is                                    *)
  arg,       (* the id and function it registers                           *)
  nested,    (* it is in GetAuthorizers                                    *)
  todo,      (* ids it still looks up                                      *)
  cur,       (* the id at hand                                             *)
  exists,    (* what AuthorizerExists said of it                           *)
  wins,      (* calls that registered each id and did not panic            *)
  calls,     (* calls each goroutine began                                 *)
  serving    (* the init functions are done                                *)

lock == <<writer, readers, blocked>>
scan == <<nested, todo, cur, exists>>
vars == <<table, lock, pc, arg, scan, wins, calls, serving>>

-----------------------------------------------------------------------------
(* SYNC.RWMUTEX *)

Runs(p, from) == pc[p] = from /\ p \notin blocked

Goto(p, from, to) == Runs(p, from) /\ pc' = [pc EXCEPT ![p] = to]

RLock(p) ==
  /\ IF writer = None
     THEN readers' = [readers EXCEPT ![p] = @ + 1] /\ UNCHANGED blocked
     ELSE blocked' = blocked \cup {p} /\ UNCHANGED readers
  /\ UNCHANGED writer

RUnlock(p) ==
  /\ readers' = [readers EXCEPT ![p] = @ - 1]
  /\ UNCHANGED <<writer, blocked>>

(* Lock, in two steps: no new readers, and no readers left. *)
KeepOut(p) ==
  /\ writer = None
  /\ writer' = p
  /\ UNCHANGED <<readers, blocked>>

DrainedNever == TRUE
Drained      == \A q \in Procs : readers[q] = 0

Unlock(p) ==
  /\ writer' = None
  /\ readers' = [q \in Procs |-> IF q \in blocked THEN readers[q] + 1 ELSE readers[q]]
  /\ blocked' = {}

-----------------------------------------------------------------------------
Init ==
  /\ table = [id \in Ids |-> None]
  /\ writer = None
  /\ readers = [p \in Procs |-> 0]
  /\ blocked = {}
  /\ pc = [p \in Procs |-> "idle"]
  /\ arg = [p \in Procs |-> None]
  /\ nested = [p \in Procs |-> FALSE]
  /\ todo = [p \in Procs |-> {}]
  /\ cur = [p \in Procs |-> None]
  /\ exists = [p \in Procs |-> FALSE]
  /\ wins = [id \in Ids |-> 0]
  /\ calls = [p \in Procs |-> 0]
  /\ serving = FALSE

(* The init functions are done; main starts. *)
Serve ==
  /\ ~serving /\ pc[Main] = "idle"
  /\ serving' = TRUE
  /\ UNCHANGED <<table, lock, pc, arg, scan, wins, calls>>

Begin(p, to) ==
  /\ Goto(p, "idle", to)
  /\ calls[p] < MaxCalls[p]
  /\ calls' = [calls EXCEPT ![p] = @ + 1]
  /\ UNCHANGED <<table, lock, wins, serving>>

(* RegisterAuthorizer, RegisterTaskFactory, RegisterFormat: init functions *)
(* do it on the main goroutine.                                            *)
Register(p, id, f) ==
  /\ Begin(p, "lock")
  /\ (p = Main /\ ~serving) \/ p \in Late
  /\ arg' = [arg EXCEPT ![p] = [id |-> id, factory |-> f]]
  /\ UNCHANGED scan

RegisterLocks(p) ==
  /\ Goto(p, "lock", "drain")
  /\ KeepOut(p)
  /\ UNCHANGED <<table, arg, scan, wins, calls, serving>>

RegisterEnters(p) ==
  /\ Goto(p, "drain", "check")
  /\ Drained
  /\ UNCHANGED <<table, lock, arg, scan, wins, calls, serving>>

TakenNever(id) == FALSE
Taken(id)      == table[id] # None

(* An id that is taken: panic, which runs the deferred Unlock. *)
RegisterPanics(p) ==
  /\ Goto(p, "check", "unlock")
  /\ Taken(arg[p].id)
  /\ UNCHANGED <<table, lock, arg, scan, wins, calls, serving>>

RegisterSets(p) ==
  /\ Goto(p, "check", "unlock")
  /\ ~Taken(arg[p].id)
  /\ table' = [table EXCEPT ![arg[p].id] = arg[p].factory]
  /\ wins' = [wins EXCEPT ![arg[p].id] = @ + 1]
  /\ UNCHANGED <<lock, arg, scan, calls, serving>>

RegisterUnlocks(p) ==
  /\ Goto(p, "unlock", "idle")
  /\ Unlock(p)
  /\ arg' = [arg EXCEPT ![p] = None]
  /\ UNCHANGED <<table, scan, wins, calls, serving>>

(* getTaskFactory, AuthorizerExists, VerifyFormat and Format. *)
LookUp(p, ids) ==
  /\ Begin(p, "rlock")
  /\ serving
  /\ todo' = [todo EXCEPT ![p] = ids]
  /\ UNCHANGED <<arg, nested, cur, exists>>

GetAuthorizers(p) ==
  /\ Begin(p, "rlock")
  /\ serving /\ p \in Collectors
  /\ nested' = [nested EXCEPT ![p] = TRUE]
  /\ todo' = [todo EXCEPT ![p] = Wanted]
  /\ UNCHANGED <<arg, cur, exists>>

ScanLocks(p) ==
  /\ Goto(p, "rlock", "pick")
  /\ RLock(p)
  /\ UNCHANGED <<table, arg, scan, wins, calls, serving>>

(* Iterating over config.Authorizers, in any order. *)
ScanPicks(p, id) ==
  /\ Goto(p, "pick", IF nested[p] THEN "validate" ELSE "read")
  /\ id \in todo[p]
  /\ cur' = [cur EXCEPT ![p] = id]
  /\ todo' = [todo EXCEPT ![p] = @ \ {id}]
  /\ UNCHANGED <<table, lock, arg, nested, exists, wins, calls, serving>>

(* ac.Validate() calls AuthorizerExists. *)
ValidateLocks(p) ==
  /\ Goto(p, "validate", "exists")
  /\ RLock(p)
  /\ UNCHANGED <<table, arg, scan, wins, calls, serving>>

ValidateReads(p) ==
  /\ Goto(p, "exists", "validated")
  /\ exists' = [exists EXCEPT ![p] = table[cur[p]] # None]
  /\ UNCHANGED <<table, lock, arg, nested, todo, cur, wins, calls, serving>>

(* The inner RUnlock, where a bug would let go of both read locks. *)
ReleasesBoth(p) ==
  readers' = [readers EXCEPT ![p] = 0] /\ UNCHANGED <<writer, blocked>>
ReleasesInner(p) == RUnlock(p)

(* GetAuthorizers returns the error of Validate; bugs would ignore it, or  *)
(* wait for the id to be registered.                                       *)
AfterValidateIgnored(p) == "read"
AfterValidateRetries(p) == IF exists[p] THEN "read" ELSE "validate"
AfterValidate(p)        == IF exists[p] THEN "read" ELSE "runlock"

ValidateUnlocks(p) ==
  /\ Goto(p, "validated", AfterValidate(p))
  /\ ReleasesInner(p)
  /\ UNCHANGED <<table, arg, scan, wins, calls, serving>>

(* An id that is not there ends the scan with an error; one that is there  *)
(* ends it when its factory fails, or its format succeeds.  Every return   *)
(* runs the deferred RUnlock.                                              *)
AfterReadLeaks(more) == IF more THEN "pick" ELSE "idle"
AfterRead(more)      == IF more THEN "pick" ELSE "runlock"

ScanReads(p, more) ==
  /\ Goto(p, "read", AfterRead(more))
  /\ more => table[cur[p]] # None
  /\ UNCHANGED <<table, lock, arg, scan, wins, calls, serving>>

ScanEnds(p) ==
  /\ Goto(p, "pick", "runlock")
  /\ todo[p] = {}
  /\ UNCHANGED <<table, lock, arg, scan, wins, calls, serving>>

ScanUnlocks(p) ==
  /\ Goto(p, "runlock", "idle")
  /\ RUnlock(p)
  /\ nested' = [nested EXCEPT ![p] = FALSE]
  /\ todo' = [todo EXCEPT ![p] = {}]
  /\ cur' = [cur EXCEPT ![p] = None]
  /\ exists' = [exists EXCEPT ![p] = FALSE]
  /\ UNCHANGED <<table, arg, wins, calls, serving>>

Called(p) ==
  \/ \E id \in Ids, f \in Factories : Register(p, id, f)
  \/ \E ids \in SUBSET Ids : LookUp(p, ids)
  \/ GetAuthorizers(p)

Step(p) ==
  \/ RegisterLocks(p) \/ RegisterEnters(p)
  \/ RegisterPanics(p) \/ RegisterSets(p) \/ RegisterUnlocks(p)
  \/ ScanLocks(p) \/ (\E id \in Ids : ScanPicks(p, id))
  \/ ValidateLocks(p) \/ ValidateReads(p) \/ ValidateUnlocks(p)
  \/ (\E more \in BOOLEAN : ScanReads(p, more)) \/ ScanEnds(p) \/ ScanUnlocks(p)

Next == Serve \/ \E p \in Procs : Called(p) \/ Step(p)

(* The scheduler runs every goroutine that can run. *)
Spec == Init /\ [][Next]_vars /\ \A p \in Procs : WF_vars(Step(p))

-----------------------------------------------------------------------------
(* PROPERTIES *)

PCs == {"idle", "lock", "drain", "check", "unlock",
        "rlock", "pick", "validate", "exists", "validated", "read", "runlock"}

(* Types, a read lock being held at most twice. *)
TypeOK ==
  /\ table \in [Ids -> Factories \cup {None}]
  /\ writer \in Procs \cup {None}
  /\ readers \in [Procs -> 0..2]
  /\ blocked \subseteq Procs
  /\ pc \in [Procs -> PCs]
  /\ arg \in [Procs -> [id : Ids, factory : Factories] \cup {None}]
  /\ nested \in [Procs -> BOOLEAN]
  /\ todo \in [Procs -> SUBSET Ids]
  /\ cur \in [Procs -> Ids \cup {None}]
  /\ exists \in [Procs -> BOOLEAN]
  /\ wins \in [Ids -> Nat]
  /\ calls \in [Procs -> Nat]
  /\ serving \in BOOLEAN

(* Of all calls that register an id one wins, the others panic, and the    *)
(* id is registered exactly when one won.                                  *)
OneWinner ==
  \A id \in Ids : wins[id] = IF table[id] = None THEN 0 ELSE 1

(* A goroutine that has left RLock and not yet unlocked sees one table.    *)
StableWhileRead ==
  [][\A p \in Procs :
       pc[p] \in {"pick", "validate", "exists", "validated", "read"} /\ p \notin blocked
         => table' = table]_vars

(* An authorizer type that Validate found is there when its factory is     *)
(* looked up: the second "does not exist" of GetAuthorizers is dead code.  *)
ValidatedIsFound ==
  \A p \in Procs : pc[p] = "read" /\ nested[p] => table[cur[p]] # None

(* Who cannot go on before somebody else does. *)
Stuck(p) ==
  \/ p \in blocked
  \/ pc[p] = "lock" /\ writer # None
  \/ pc[p] = "drain" /\ ~Drained

(* In GetAuthorizers, kept out although it is inside. *)
WaitsForItself(p) == p \in blocked /\ readers[p] > 0 /\ nested[p]

Busy == {p \in Procs : pc[p] # "idle"}

(* If everybody waits, it is because somebody asked for the read lock a    *)
(* second time while a writer waited for the first.                        *)
OnlyNestingBlocks ==
  Busy # {} /\ (\A p \in Busy : Stuck(p)) =>
    \E p \in Busy : WaitsForItself(p)

(* Every call returns, also after a panic under the lock, unless a         *)
(* GetAuthorizers waits for the read lock it already holds.                *)
CallsReturn ==
  \A p \in Procs :
    (pc[p] # "idle") ~> (pc[p] = "idle" \/ \E q \in Procs : WaitsForItself(q))

(* auth.go: GetAuthorizers "returns authorizers for given config": the     *)
(* call returns, whoever registers meanwhile.                              *)
GetAuthorizersReturns ==
  \A p \in Procs : (nested[p] /\ pc[p] # "idle") ~> (pc[p] = "idle")
=============================================================================
