---------------------------- MODULE RegistryProofs ----------------------------
(* What the registries guarantee for any number of goroutines and ids, any *)
(* calls in any order.                                                     *)
EXTENDS Registry, TLAPS

-----------------------------------------------------------------------------
(* THE INDUCTIVE INVARIANT *)

(* How often a goroutine holds the read lock, by where it is; one that is  *)
(* kept out in RLock holds it once less.                                   *)
Level(at) ==
  IF at \in {"exists", "validated"} THEN 2
  ELSE IF at \in {"pick", "validate", "read", "runlock"} THEN 1 ELSE 0

HoldsReads(p) ==
  /\ readers[p] = IF p \in blocked THEN Level(pc[p]) - 1 ELSE Level(pc[p])
  /\ p \in blocked => pc[p] \in {"pick", "exists"} /\ writer # None

HoldsWrite(p) == writer = p <=> pc[p] \in {"drain", "check", "unlock"}

HasArguments(p) ==
  /\ pc[p] \in {"lock", "drain", "check", "unlock"} => arg[p] \in [id : Ids, factory : Factories]
  /\ pc[p] \in {"validate", "exists", "validated", "read"} => cur[p] \in Ids
  /\ pc[p] \in {"validate", "exists", "validated"} => nested[p]

Found(p) ==
  /\ pc[p] = "validated" /\ exists[p] => table[cur[p]] # None
  /\ pc[p] = "read" /\ nested[p] => table[cur[p]] # None

(* Whoever is past the lock as a writer is there without readers. *)
Excludes(p) == pc[p] \in {"check", "unlock"} => Drained

Own(p) == HoldsReads(p) /\ HoldsWrite(p) /\ HasArguments(p) /\ Found(p) /\ Excludes(p)

IInv == TypeOK /\ OneWinner /\ \A p \in Procs : Own(p)

-----------------------------------------------------------------------------
(* STEPS *)

LEMMA InitInv == Init => IInv
  <1> SUFFICES ASSUME Init PROVE IInv
    OBVIOUS
  <1>1. TypeOK
    <2>1. 0 \in Nat /\ 0 \in 0..2
      BY CallAssumption
    <2>2. /\ readers \in [Procs -> 0..2] /\ calls \in [Procs -> Nat]
          /\ pc \in [Procs -> PCs] /\ wins \in [Ids -> Nat]
      BY <2>1 DEF Init, PCs
    <2>3. nested \in [Procs -> BOOLEAN] /\ exists \in [Procs -> BOOLEAN] /\ serving \in BOOLEAN
      BY DEF Init
    <2> QED
      BY <2>2, <2>3 DEF Init, TypeOK
  <1>2. OneWinner
    BY DEF Init, OneWinner
  <1>3. ASSUME NEW p \in Procs PROVE Own(p)
    <2>1. pc[p] = "idle" /\ readers[p] = 0 /\ blocked = {} /\ writer = None
      BY DEF Init
    <2> QED
      BY <2>1, NoneAssumption DEF Own, HoldsReads, Level, HoldsWrite, HasArguments, Found, Excludes
  <1> QED
    BY <1>1, <1>2, <1>3 DEF IInv

LEMMA ServeKeeps ==
  ASSUME IInv, Serve
  PROVE  IInv'
  <1> USE DEF Serve, lock, scan
  <1>1. TypeOK'
    BY IdAssumption DEF IInv, TypeOK, PCs, Own, HoldsReads, Level
  <1>2. OneWinner'
    BY DEF IInv, TypeOK, OneWinner
  <1>3. ASSUME NEW q \in Procs PROVE Own(q)'
    <2> Own(q)
      BY DEF IInv
    <2>1. HoldsReads(q)'
      BY DEF IInv, TypeOK, Own, HoldsReads, Level
    <2>2. HoldsWrite(q)'
      BY NoneAssumption DEF IInv, TypeOK, Own, HoldsWrite
    <2>3. HasArguments(q)'
      BY DEF IInv, TypeOK, Own, HasArguments
    <2>4. Found(q)'
      BY DEF IInv, TypeOK, Own, HasArguments, Found
    <2>5. Excludes(q)'
      BY DEF IInv, TypeOK, Own, HoldsWrite, Excludes, Drained
    <2> QED
      BY <2>1, <2>2, <2>3, <2>4, <2>5 DEF Own
  <1> QED
    BY <1>1, <1>2, <1>3 DEF IInv

LEMMA RegisterKeeps ==
  ASSUME IInv, NEW p \in Procs, NEW id \in Ids, NEW f \in Factories, Register(p, id, f)
  PROVE  IInv'
  <1> USE DEF Register, Begin, Goto, Runs, lock, scan
  <1>1. TypeOK'
    <2>1. calls' \in [Procs -> Nat]
      BY CallAssumption DEF IInv, TypeOK
    <2>2. pc' \in [Procs -> PCs] /\ todo' \in [Procs -> SUBSET Ids] /\ nested' \in [Procs -> BOOLEAN]
      BY IdAssumption DEF IInv, TypeOK, PCs
    <2>3. arg' \in [Procs -> [id : Ids, factory : Factories] \cup {None}]
      BY DEF IInv, TypeOK
    <2> QED
      BY <2>1, <2>2, <2>3 DEF IInv, TypeOK
  <1>2. OneWinner'
    BY DEF IInv, TypeOK, OneWinner
  <1>3. ASSUME NEW q \in Procs PROVE Own(q)'
    <2> Own(q) /\ Own(p)
      BY DEF IInv
    <2>1. HoldsReads(q)'
      BY DEF IInv, TypeOK, Own, HoldsReads, Level
    <2>2. HoldsWrite(q)'
      BY NoneAssumption DEF IInv, TypeOK, Own, HoldsWrite
    <2>3. HasArguments(q)'
      BY DEF IInv, TypeOK, Own, HasArguments
    <2>4. Found(q)'
      BY DEF IInv, TypeOK, Own, HasArguments, Found
    <2>5. Excludes(q)'
      BY DEF IInv, TypeOK, Own, HoldsWrite, Excludes, Drained
    <2> QED
      BY <2>1, <2>2, <2>3, <2>4, <2>5 DEF Own
  <1> QED
    BY <1>1, <1>2, <1>3 DEF IInv

LEMMA RegisterLocksKeeps ==
  ASSUME IInv, NEW p \in Procs, RegisterLocks(p)
  PROVE  IInv'
  <1> USE DEF RegisterLocks, Goto, Runs, KeepOut, lock, scan
  <1>1. TypeOK'
    BY IdAssumption DEF IInv, TypeOK, PCs, Own, HoldsReads, Level
  <1>2. OneWinner'
    BY DEF IInv, TypeOK, OneWinner
  <1>3. ASSUME NEW q \in Procs PROVE Own(q)'
    <2> Own(q) /\ Own(p)
      BY DEF IInv
    <2>1. HoldsReads(q)'
      BY DEF IInv, TypeOK, Own, HoldsReads, Level
    <2>2. HoldsWrite(q)'
      BY NoneAssumption DEF IInv, TypeOK, Own, HoldsWrite
    <2>3. HasArguments(q)'
      BY DEF IInv, TypeOK, Own, HasArguments
    <2>4. Found(q)'
      BY DEF IInv, TypeOK, Own, HasArguments, Found
    <2>5. Excludes(q)'
      BY DEF IInv, TypeOK, Own, HoldsWrite, Excludes, Drained
    <2> QED
      BY <2>1, <2>2, <2>3, <2>4, <2>5 DEF Own
  <1> QED
    BY <1>1, <1>2, <1>3 DEF IInv

LEMMA RegisterEntersKeeps ==
  ASSUME IInv, NEW p \in Procs, RegisterEnters(p)
  PROVE  IInv'
  <1> USE DEF RegisterEnters, Goto, Runs, lock, scan
  <1>1. TypeOK'
    BY IdAssumption DEF IInv, TypeOK, PCs, Own, HoldsReads, Level
  <1>2. OneWinner'
    BY DEF IInv, TypeOK, OneWinner
  <1>3. ASSUME NEW q \in Procs PROVE Own(q)'
    <2> Own(q) /\ Own(p)
      BY DEF IInv
    <2>1. HoldsReads(q)'
      BY DEF IInv, TypeOK, Own, HoldsReads, Level
    <2>2. HoldsWrite(q)'
      BY NoneAssumption DEF IInv, TypeOK, Own, HoldsWrite
    <2>3. HasArguments(q)'
      BY DEF IInv, TypeOK, Own, HasArguments
    <2>4. Found(q)'
      BY DEF IInv, TypeOK, Own, HasArguments, Found
    <2>5. Excludes(q)'
      BY DEF IInv, TypeOK, Own, HoldsWrite, Excludes, Drained
    <2> QED
      BY <2>1, <2>2, <2>3, <2>4, <2>5 DEF Own
  <1> QED
    BY <1>1, <1>2, <1>3 DEF IInv

LEMMA RegisterPanicsKeeps ==
  ASSUME IInv, NEW p \in Procs, RegisterPanics(p)
  PROVE  IInv'
  <1> USE DEF RegisterPanics, Goto, Runs, lock, scan
  <1>1. TypeOK'
    BY IdAssumption DEF IInv, TypeOK, PCs, Own, HoldsReads, Level
  <1>2. OneWinner'
    BY DEF IInv, TypeOK, OneWinner
  <1>3. ASSUME NEW q \in Procs PROVE Own(q)'
    <2> Own(q) /\ Own(p)
      BY DEF IInv
    <2>1. HoldsReads(q)'
      BY DEF IInv, TypeOK, Own, HoldsReads, Level
    <2>2. HoldsWrite(q)'
      BY NoneAssumption DEF IInv, TypeOK, Own, HoldsWrite
    <2>3. HasArguments(q)'
      BY DEF IInv, TypeOK, Own, HasArguments
    <2>4. Found(q)'
      BY DEF IInv, TypeOK, Own, HasArguments, Found
    <2>5. Excludes(q)'
      BY DEF IInv, TypeOK, Own, HoldsWrite, Excludes, Drained
    <2> QED
      BY <2>1, <2>2, <2>3, <2>4, <2>5 DEF Own
  <1> QED
    BY <1>1, <1>2, <1>3 DEF IInv

LEMMA RegisterSetsKeeps ==
  ASSUME IInv, NEW p \in Procs, RegisterSets(p)
  PROVE  IInv'
  <1> USE DEF RegisterSets, Goto, Runs, Taken, lock, scan
  <1>1. TypeOK'
    <2>1. arg[p].id \in Ids /\ arg[p].factory \in Factories
      BY DEF IInv, Own, HasArguments
    <2>2. pc' \in [Procs -> PCs] /\ table' \in [Ids -> Factories \cup {None}]
      BY <2>1 DEF IInv, TypeOK, PCs
    <2>3. wins' \in [Ids -> Nat]
      BY <2>1 DEF IInv, TypeOK
    <2> QED
      BY <2>2, <2>3 DEF IInv, TypeOK
  <1>2. OneWinner'
    <2>1. arg[p].id \in Ids /\ arg[p].factory \in Factories
      BY DEF IInv, Own, HasArguments
    <2> DEFINE i == arg[p].id
               f == arg[p].factory
    <2>2. table[i] = None /\ wins[i] = 0 /\ f # None
      BY <2>1, NoneAssumption DEF IInv, OneWinner
    <2>3. table' = [table EXCEPT ![i] = f] /\ wins' = [wins EXCEPT ![i] = wins[i] + 1]
      OBVIOUS
    <2>4. table \in [Ids -> Factories \cup {None}] /\ wins \in [Ids -> Nat]
      BY DEF IInv, TypeOK
    <2> HIDE DEF i, f
    <2>5. ASSUME NEW id \in Ids PROVE wins'[id] = IF table'[id] = None THEN 0 ELSE 1
      <3>1. CASE id = i
        BY <2>2, <2>3, <2>4, <3>1
      <3>2. CASE id # i
        BY <2>3, <2>4, <3>2 DEF IInv, OneWinner
      <3> QED
        BY <3>1, <3>2
    <2> QED
      BY <2>5 DEF OneWinner
  <1>3. ASSUME NEW q \in Procs PROVE Own(q)'
    <2> Own(q) /\ Own(p)
      BY DEF IInv
    <2>1. HoldsReads(q)'
      BY DEF IInv, TypeOK, Own, HoldsReads, Level
    <2>2. HoldsWrite(q)'
      BY NoneAssumption DEF IInv, TypeOK, Own, HoldsWrite
    <2>3. HasArguments(q)'
      BY DEF IInv, TypeOK, Own, HasArguments
    <2>4. Found(q)'
      BY DEF IInv, TypeOK, Own, HasArguments, Found
    <2>5. Excludes(q)'
      BY DEF IInv, TypeOK, Own, HoldsWrite, Excludes, Drained
    <2> QED
      BY <2>1, <2>2, <2>3, <2>4, <2>5 DEF Own
  <1> QED
    BY <1>1, <1>2, <1>3 DEF IInv

LEMMA RegisterUnlocksKeeps ==
  ASSUME IInv, NEW p \in Procs, RegisterUnlocks(p)
  PROVE  IInv'
  <1> USE DEF RegisterUnlocks, Goto, Runs, Unlock, lock, scan
  <1>1. TypeOK'
    BY IdAssumption DEF IInv, TypeOK, PCs, Own, HoldsReads, Level
  <1>2. OneWinner'
    BY DEF IInv, TypeOK, OneWinner
  <1>3. ASSUME NEW q \in Procs PROVE Own(q)'
    <2> Own(q) /\ Own(p)
      BY DEF IInv
    <2>1. HoldsReads(q)'
      BY DEF IInv, TypeOK, Own, HoldsReads, Level
    <2>2. HoldsWrite(q)'
      BY NoneAssumption DEF IInv, TypeOK, Own, HoldsWrite
    <2>3. HasArguments(q)'
      BY DEF IInv, TypeOK, Own, HasArguments
    <2>4. Found(q)'
      BY DEF IInv, TypeOK, Own, HasArguments, Found
    <2>5. Excludes(q)'
      BY DEF IInv, TypeOK, Own, HoldsWrite, Excludes, Drained
    <2> QED
      BY <2>1, <2>2, <2>3, <2>4, <2>5 DEF Own
  <1> QED
    BY <1>1, <1>2, <1>3 DEF IInv

LEMMA LookUpKeeps ==
  ASSUME IInv, NEW p \in Procs, NEW ids \in SUBSET Ids, LookUp(p, ids)
  PROVE  IInv'
  <1> USE DEF LookUp, Begin, Goto, Runs, lock, scan
  <1>1. TypeOK'
    <2>1. calls' \in [Procs -> Nat]
      BY CallAssumption DEF IInv, TypeOK
    <2>2. pc' \in [Procs -> PCs] /\ todo' \in [Procs -> SUBSET Ids] /\ nested' \in [Procs -> BOOLEAN]
      BY IdAssumption DEF IInv, TypeOK, PCs
    <2>3. arg' \in [Procs -> [id : Ids, factory : Factories] \cup {None}]
      BY DEF IInv, TypeOK
    <2> QED
      BY <2>1, <2>2, <2>3 DEF IInv, TypeOK
  <1>2. OneWinner'
    BY DEF IInv, TypeOK, OneWinner
  <1>3. ASSUME NEW q \in Procs PROVE Own(q)'
    <2> Own(q) /\ Own(p)
      BY DEF IInv
    <2>1. HoldsReads(q)'
      BY DEF IInv, TypeOK, Own, HoldsReads, Level
    <2>2. HoldsWrite(q)'
      BY NoneAssumption DEF IInv, TypeOK, Own, HoldsWrite
    <2>3. HasArguments(q)'
      BY DEF IInv, TypeOK, Own, HasArguments
    <2>4. Found(q)'
      BY DEF IInv, TypeOK, Own, HasArguments, Found
    <2>5. Excludes(q)'
      BY DEF IInv, TypeOK, Own, HoldsWrite, Excludes, Drained
    <2> QED
      BY <2>1, <2>2, <2>3, <2>4, <2>5 DEF Own
  <1> QED
    BY <1>1, <1>2, <1>3 DEF IInv

LEMMA GetAuthorizersKeeps ==
  ASSUME IInv, NEW p \in Procs, GetAuthorizers(p)
  PROVE  IInv'
  <1> USE DEF GetAuthorizers, Begin, Goto, Runs, lock, scan
  <1>1. TypeOK'
    <2>1. calls' \in [Procs -> Nat]
      BY CallAssumption DEF IInv, TypeOK
    <2>2. pc' \in [Procs -> PCs] /\ todo' \in [Procs -> SUBSET Ids] /\ nested' \in [Procs -> BOOLEAN]
      BY IdAssumption DEF IInv, TypeOK, PCs
    <2>3. arg' \in [Procs -> [id : Ids, factory : Factories] \cup {None}]
      BY DEF IInv, TypeOK
    <2> QED
      BY <2>1, <2>2, <2>3 DEF IInv, TypeOK
  <1>2. OneWinner'
    BY DEF IInv, TypeOK, OneWinner
  <1>3. ASSUME NEW q \in Procs PROVE Own(q)'
    <2> Own(q) /\ Own(p)
      BY DEF IInv
    <2>1. HoldsReads(q)'
      BY DEF IInv, TypeOK, Own, HoldsReads, Level
    <2>2. HoldsWrite(q)'
      BY NoneAssumption DEF IInv, TypeOK, Own, HoldsWrite
    <2>3. HasArguments(q)'
      BY DEF IInv, TypeOK, Own, HasArguments
    <2>4. Found(q)'
      BY DEF IInv, TypeOK, Own, HasArguments, Found
    <2>5. Excludes(q)'
      BY DEF IInv, TypeOK, Own, HoldsWrite, Excludes, Drained
    <2> QED
      BY <2>1, <2>2, <2>3, <2>4, <2>5 DEF Own
  <1> QED
    BY <1>1, <1>2, <1>3 DEF IInv

LEMMA ScanLocksKeeps ==
  ASSUME IInv, NEW p \in Procs, ScanLocks(p)
  PROVE  IInv'
  <1> USE DEF ScanLocks, Goto, Runs, RLock, lock, scan
  <1>1. TypeOK'
    BY IdAssumption DEF IInv, TypeOK, PCs, Own, HoldsReads, Level
  <1>2. OneWinner'
    BY DEF IInv, TypeOK, OneWinner
  <1>3. ASSUME NEW q \in Procs PROVE Own(q)'
    <2> Own(q) /\ Own(p)
      BY DEF IInv
    <2>1. HoldsReads(q)'
      BY DEF IInv, TypeOK, Own, HoldsReads, Level
    <2>2. HoldsWrite(q)'
      BY NoneAssumption DEF IInv, TypeOK, Own, HoldsWrite
    <2>3. HasArguments(q)'
      BY DEF IInv, TypeOK, Own, HasArguments
    <2>4. Found(q)'
      BY DEF IInv, TypeOK, Own, HasArguments, Found
    <2>5. Excludes(q)'
      <3>1. CASE writer = None
        <4>1. pc'[q] \notin {"check", "unlock"}
          BY <3>1, NoneAssumption DEF IInv, TypeOK, Own, HoldsWrite
        <4> QED
          BY <4>1 DEF Excludes
      <3>2. CASE writer # None
        BY <3>2 DEF IInv, TypeOK, Own, Excludes, Drained
      <3> QED
        BY <3>1, <3>2
    <2> QED
      BY <2>1, <2>2, <2>3, <2>4, <2>5 DEF Own
  <1> QED
    BY <1>1, <1>2, <1>3 DEF IInv

LEMMA ScanPicksKeeps ==
  ASSUME IInv, NEW p \in Procs, NEW id \in Ids, ScanPicks(p, id)
  PROVE  IInv'
  <1> USE DEF ScanPicks, Goto, Runs, lock, scan
  <1>1. TypeOK'
    BY IdAssumption DEF IInv, TypeOK, PCs, Own, HoldsReads, Level
  <1>2. OneWinner'
    BY DEF IInv, TypeOK, OneWinner
  <1>3. ASSUME NEW q \in Procs PROVE Own(q)'
    <2> Own(q) /\ Own(p)
      BY DEF IInv
    <2>1. HoldsReads(q)'
      BY DEF IInv, TypeOK, Own, HoldsReads, Level
    <2>2. HoldsWrite(q)'
      BY NoneAssumption DEF IInv, TypeOK, Own, HoldsWrite
    <2>3. HasArguments(q)'
      BY DEF IInv, TypeOK, Own, HasArguments
    <2>4. Found(q)'
      BY DEF IInv, TypeOK, Own, HasArguments, Found
    <2>5. Excludes(q)'
      BY DEF IInv, TypeOK, Own, HoldsWrite, Excludes, Drained
    <2> QED
      BY <2>1, <2>2, <2>3, <2>4, <2>5 DEF Own
  <1> QED
    BY <1>1, <1>2, <1>3 DEF IInv

LEMMA ValidateLocksKeeps ==
  ASSUME IInv, NEW p \in Procs, ValidateLocks(p)
  PROVE  IInv'
  <1> USE DEF ValidateLocks, Goto, Runs, RLock, lock, scan
  <1>1. TypeOK'
    BY IdAssumption DEF IInv, TypeOK, PCs, Own, HoldsReads, Level
  <1>2. OneWinner'
    BY DEF IInv, TypeOK, OneWinner
  <1>3. ASSUME NEW q \in Procs PROVE Own(q)'
    <2> Own(q) /\ Own(p)
      BY DEF IInv
    <2>1. HoldsReads(q)'
      BY DEF IInv, TypeOK, Own, HoldsReads, Level
    <2>2. HoldsWrite(q)'
      BY NoneAssumption DEF IInv, TypeOK, Own, HoldsWrite
    <2>3. HasArguments(q)'
      BY DEF IInv, TypeOK, Own, HasArguments
    <2>4. Found(q)'
      BY DEF IInv, TypeOK, Own, HasArguments, Found
    <2>5. Excludes(q)'
      <3>1. CASE writer = None
        <4>1. pc'[q] \notin {"check", "unlock"}
          BY <3>1, NoneAssumption DEF IInv, TypeOK, Own, HoldsWrite
        <4> QED
          BY <4>1 DEF Excludes
      <3>2. CASE writer # None
        BY <3>2 DEF IInv, TypeOK, Own, Excludes, Drained
      <3> QED
        BY <3>1, <3>2
    <2> QED
      BY <2>1, <2>2, <2>3, <2>4, <2>5 DEF Own
  <1> QED
    BY <1>1, <1>2, <1>3 DEF IInv

LEMMA ValidateReadsKeeps ==
  ASSUME IInv, NEW p \in Procs, ValidateReads(p)
  PROVE  IInv'
  <1> USE DEF ValidateReads, Goto, Runs, lock, scan
  <1>1. TypeOK'
    BY IdAssumption DEF IInv, TypeOK, PCs, Own, HoldsReads, Level
  <1>2. OneWinner'
    BY DEF IInv, TypeOK, OneWinner
  <1>3. ASSUME NEW q \in Procs PROVE Own(q)'
    <2> Own(q) /\ Own(p)
      BY DEF IInv
    <2>1. HoldsReads(q)'
      BY DEF IInv, TypeOK, Own, HoldsReads, Level
    <2>2. HoldsWrite(q)'
      BY NoneAssumption DEF IInv, TypeOK, Own, HoldsWrite
    <2>3. HasArguments(q)'
      BY DEF IInv, TypeOK, Own, HasArguments
    <2>4. Found(q)'
      BY DEF IInv, TypeOK, Own, HasArguments, Found
    <2>5. Excludes(q)'
      BY DEF IInv, TypeOK, Own, HoldsWrite, Excludes, Drained
    <2> QED
      BY <2>1, <2>2, <2>3, <2>4, <2>5 DEF Own
  <1> QED
    BY <1>1, <1>2, <1>3 DEF IInv

LEMMA ValidateUnlocksKeeps ==
  ASSUME IInv, NEW p \in Procs, ValidateUnlocks(p)
  PROVE  IInv'
  <1> USE DEF ValidateUnlocks, Goto, Runs, AfterValidate, ReleasesInner, RUnlock, lock, scan
  <1>1. TypeOK'
    BY IdAssumption DEF IInv, TypeOK, PCs, Own, HoldsReads, Level
  <1>2. OneWinner'
    BY DEF IInv, TypeOK, OneWinner
  <1>3. ASSUME NEW q \in Procs PROVE Own(q)'
    <2> Own(q) /\ Own(p)
      BY DEF IInv
    <2>1. HoldsReads(q)'
      BY DEF IInv, TypeOK, Own, HoldsReads, Level
    <2>2. HoldsWrite(q)'
      BY NoneAssumption DEF IInv, TypeOK, Own, HoldsWrite
    <2>3. HasArguments(q)'
      BY DEF IInv, TypeOK, Own, HasArguments
    <2>4. Found(q)'
      BY DEF IInv, TypeOK, Own, HasArguments, Found
    <2>5. Excludes(q)'
      <3>1. readers[p] # 0
        BY DEF Own, HoldsReads, Level
      <3>2. pc[q] \notin {"check", "unlock"}
        BY <3>1 DEF Own, Excludes, Drained
      <3> QED
        BY <3>2 DEF IInv, TypeOK, Excludes, AfterValidate
    <2> QED
      BY <2>1, <2>2, <2>3, <2>4, <2>5 DEF Own
  <1> QED
    BY <1>1, <1>2, <1>3 DEF IInv

LEMMA ScanReadsKeeps ==
  ASSUME IInv, NEW p \in Procs, NEW more \in BOOLEAN, ScanReads(p, more)
  PROVE  IInv'
  <1> USE DEF ScanReads, Goto, Runs, AfterRead, lock, scan
  <1>1. TypeOK'
    BY IdAssumption DEF IInv, TypeOK, PCs, Own, HoldsReads, Level
  <1>2. OneWinner'
    BY DEF IInv, TypeOK, OneWinner
  <1>3. ASSUME NEW q \in Procs PROVE Own(q)'
    <2> Own(q) /\ Own(p)
      BY DEF IInv
    <2>1. HoldsReads(q)'
      BY DEF IInv, TypeOK, Own, HoldsReads, Level
    <2>2. HoldsWrite(q)'
      BY NoneAssumption DEF IInv, TypeOK, Own, HoldsWrite
    <2>3. HasArguments(q)'
      BY DEF IInv, TypeOK, Own, HasArguments
    <2>4. Found(q)'
      BY DEF IInv, TypeOK, Own, HasArguments, Found
    <2>5. Excludes(q)'
      BY DEF IInv, TypeOK, Own, HoldsWrite, Excludes, Drained
    <2> QED
      BY <2>1, <2>2, <2>3, <2>4, <2>5 DEF Own
  <1> QED
    BY <1>1, <1>2, <1>3 DEF IInv

LEMMA ScanEndsKeeps ==
  ASSUME IInv, NEW p \in Procs, ScanEnds(p)
  PROVE  IInv'
  <1> USE DEF ScanEnds, Goto, Runs, lock, scan
  <1>1. TypeOK'
    BY IdAssumption DEF IInv, TypeOK, PCs, Own, HoldsReads, Level
  <1>2. OneWinner'
    BY DEF IInv, TypeOK, OneWinner
  <1>3. ASSUME NEW q \in Procs PROVE Own(q)'
    <2> Own(q) /\ Own(p)
      BY DEF IInv
    <2>1. HoldsReads(q)'
      BY DEF IInv, TypeOK, Own, HoldsReads, Level
    <2>2. HoldsWrite(q)'
      BY NoneAssumption DEF IInv, TypeOK, Own, HoldsWrite
    <2>3. HasArguments(q)'
      BY DEF IInv, TypeOK, Own, HasArguments
    <2>4. Found(q)'
      BY DEF IInv, TypeOK, Own, HasArguments, Found
    <2>5. Excludes(q)'
      BY DEF IInv, TypeOK, Own, HoldsWrite, Excludes, Drained
    <2> QED
      BY <2>1, <2>2, <2>3, <2>4, <2>5 DEF Own
  <1> QED
    BY <1>1, <1>2, <1>3 DEF IInv

LEMMA ScanUnlocksKeeps ==
  ASSUME IInv, NEW p \in Procs, ScanUnlocks(p)
  PROVE  IInv'
  <1> USE DEF ScanUnlocks, Goto, Runs, RUnlock, lock, scan
  <1>1. TypeOK'
    BY IdAssumption DEF IInv, TypeOK, PCs, Own, HoldsReads, Level
  <1>2. OneWinner'
    BY DEF IInv, TypeOK, OneWinner
  <1>3. ASSUME NEW q \in Procs PROVE Own(q)'
    <2> Own(q) /\ Own(p)
      BY DEF IInv
    <2>1. HoldsReads(q)'
      BY DEF IInv, TypeOK, Own, HoldsReads, Level
    <2>2. HoldsWrite(q)'
      BY NoneAssumption DEF IInv, TypeOK, Own, HoldsWrite
    <2>3. HasArguments(q)'
      BY DEF IInv, TypeOK, Own, HasArguments
    <2>4. Found(q)'
      BY DEF IInv, TypeOK, Own, HasArguments, Found
    <2>5. Excludes(q)'
      <3>1. readers[p] # 0
        BY DEF Own, HoldsReads, Level
      <3>2. pc[q] \notin {"check", "unlock"}
        BY <3>1 DEF Own, Excludes, Drained
      <3> QED
        BY <3>2 DEF IInv, TypeOK, Excludes
    <2> QED
      BY <2>1, <2>2, <2>3, <2>4, <2>5 DEF Own
  <1> QED
    BY <1>1, <1>2, <1>3 DEF IInv

LEMMA NextInv == IInv /\ [Next]_vars => IInv'
  <1> SUFFICES ASSUME IInv, [Next]_vars PROVE IInv'
    OBVIOUS
  <1>1. CASE Serve
    BY <1>1, ServeKeeps
  <1>2. ASSUME NEW p \in Procs, Called(p) PROVE IInv'
    BY <1>2, RegisterKeeps, LookUpKeeps, GetAuthorizersKeeps DEF Called
  <1>3. ASSUME NEW p \in Procs, Step(p) PROVE IInv'
    BY <1>3, RegisterLocksKeeps, RegisterEntersKeeps, RegisterPanicsKeeps, RegisterSetsKeeps,
       RegisterUnlocksKeeps, ScanLocksKeeps, ScanPicksKeeps, ValidateLocksKeeps,
       ValidateReadsKeeps, ValidateUnlocksKeeps, ScanReadsKeeps, ScanEndsKeeps, ScanUnlocksKeeps
    DEF Step
  <1>4. CASE UNCHANGED vars
    <2> USE <1>4 DEF vars, lock, scan
    <2>1. TypeOK' /\ OneWinner'
      BY DEF IInv, TypeOK, OneWinner
    <2>2. \A p \in Procs : Own(p)'
      BY DEF IInv, Own, HoldsReads, HoldsWrite, HasArguments, Found, Excludes, Drained
    <2> QED
      BY <2>1, <2>2 DEF IInv
  <1> QED
    BY <1>1, <1>2, <1>3, <1>4 DEF Next

-----------------------------------------------------------------------------
(* THEOREMS *)

(* Who holds what is known from where each goroutine is in its call. *)
THEOREM Invariance == Spec => []IInv
  BY InitInv, NextInv, PTL DEF Spec

(* Types; the read lock is never released by one who does not hold it, and *)
(* held at most twice.                                                     *)
THEOREM TypeCorrect == Spec => []TypeOK
  <1>1. IInv => TypeOK
    BY DEF IInv
  <1> QED
    BY <1>1, Invariance, PTL

(* However many goroutines register an id at a time, one of them wins and  *)
(* all others panic.                                                       *)
THEOREM RegisteredOnce == Spec => []OneWinner
  <1>1. IInv => OneWinner
    BY DEF IInv
  <1> QED
    BY <1>1, Invariance, PTL

(* The second lookup of GetAuthorizers never fails. *)
THEOREM ValidatedStays == Spec => []ValidatedIsFound
  <1>1. IInv => ValidatedIsFound
    BY DEF IInv, Own, Found, ValidatedIsFound
  <1> QED
    BY <1>1, Invariance, PTL

(* Whoever is inside with the read lock keeps the table as it is. *)
THEOREM ReadersSeeOneTable == Spec => StableWhileRead
  <1> DEFINE inside(p) ==
        pc[p] \in {"pick", "validate", "exists", "validated", "read"} /\ p \notin blocked
  <1>1. ASSUME IInv, [Next]_vars, NEW p \in Procs, inside(p)
        PROVE  table' = table
    <2>1. readers[p] # 0
      BY <1>1 DEF IInv, Own, HoldsReads, Level
    <2>2. \A q \in Procs : pc[q] # "check"
      BY <1>1, <2>1 DEF IInv, Own, Excludes, Drained
    <2>3. \A q \in Procs : ~RegisterSets(q)
      BY <2>2 DEF RegisterSets, Goto, Runs
    <2>4. CASE UNCHANGED vars \/ Serve
      BY <2>4 DEF vars, Serve
    <2>5. ASSUME NEW q \in Procs, Called(q) PROVE table' = table
      BY <2>5 DEF Called, Register, LookUp, GetAuthorizers, Begin
    <2>6. ASSUME NEW q \in Procs, Step(q) PROVE table' = table
      BY <2>3, <2>6 DEF Step, RegisterLocks, RegisterEnters, RegisterPanics, RegisterUnlocks,
         ScanLocks, ScanPicks, ValidateLocks, ValidateReads, ValidateUnlocks, ScanReads,
         ScanEnds, ScanUnlocks
    <2> QED
      BY <1>1, <2>4, <2>5, <2>6 DEF Next
  <1>2. IInv /\ [Next]_vars => (\A p \in Procs : inside(p) => table' = table)
    BY <1>1
  <1> QED
    BY <1>2, Invariance, PTL DEF Spec, StableWhileRead

(* The nested read lock of GetAuthorizers is the only way to wait for ever *)
(* on a registry.                                                          *)
THEOREM NothingElseBlocks == Spec => []OnlyNestingBlocks
  <1>1. ASSUME IInv, Busy # {}, \A p \in Busy : Stuck(p)
        PROVE  \E p \in Busy : p \in blocked /\ readers[p] > 0 /\ nested[p]
    <2>1. writer # None
      <3>1. PICK p \in Procs : Stuck(p) /\ HoldsReads(p) /\ HoldsWrite(p)
        BY <1>1 DEF Busy, IInv, Own
      <3>2. CASE pc[p] = "drain"
        BY <3>1, <3>2, NoneAssumption DEF HoldsWrite
      <3>3. CASE p \in blocked \/ (pc[p] = "lock" /\ writer # None)
        BY <3>1, <3>3 DEF HoldsReads
      <3> QED
        BY <3>1, <3>2, <3>3 DEF Stuck
    <2>2. PICK w \in Procs : w = writer
      BY <1>1, <2>1 DEF IInv, TypeOK
    <2>3. pc[w] \in {"drain", "check", "unlock"} /\ w \notin blocked
      BY <1>1, <2>2 DEF IInv, Own, HoldsReads, HoldsWrite
    <2>4. w \in Busy
      BY <2>3 DEF Busy
    <2>5. ~Drained
      BY <1>1, <2>3, <2>4 DEF Stuck
    <2>6. PICK r \in Procs : readers[r] # 0
      BY <2>5 DEF Drained
    <2>7. HoldsReads(r) /\ HasArguments(r) /\ readers[r] \in 0..2
      BY <1>1 DEF IInv, TypeOK, Own
    <2>8. pc[r] \in {"pick", "validate", "exists", "validated", "read", "runlock"}
      BY <2>6, <2>7 DEF HoldsReads, Level
    <2>9. r \in Busy
      BY <2>8 DEF Busy
    <2>10. r \in blocked
      BY <1>1, <2>8, <2>9 DEF Stuck
    <2>11. pc[r] = "exists"
      BY <2>6, <2>7, <2>10 DEF HoldsReads, Level
    <2> QED
      BY <2>6, <2>7, <2>9, <2>10, <2>11 DEF HasArguments
  <1>2. IInv => OnlyNestingBlocks
    BY <1>1 DEF OnlyNestingBlocks, WaitsForItself
  <1> QED
    BY <1>2, Invariance, PTL

-----------------------------------------------------------------------------
(* WHO CAN WAIT AT ALL *)

Writing == {"lock", "drain", "check", "unlock"}

(* In a program that registers in its init functions only, registering is  *)
(* over before anything is looked up.                                      *)
Phases ==
  /\ \A p \in Procs : pc[p] \in Writing => p = Main /\ ~serving
  /\ \A p \in Procs : pc[p] \notin Writing \cup {"idle"} => serving
  /\ blocked = {}

NobodyWaits == Late = {} => \A p \in Procs : ~Stuck(p)

LEMMA NoWriterServing ==
  ASSUME IInv, Phases, serving
  PROVE  writer = None
  <1>1. writer \in Procs \cup {None}
    BY DEF IInv, TypeOK
  <1>2. \A p \in Procs : writer # p
    BY DEF IInv, Own, HoldsWrite, Phases, Writing
  <1> QED
    BY <1>1, <1>2

LEMMA PhasesKept ==
  ASSUME IInv, Phases, Late = {}, [Next]_vars
  PROVE  Phases'
  <1> USE DEF Writing
  <1>1. CASE UNCHANGED vars
    BY <1>1 DEF vars, lock, Phases
  <1>2. CASE Serve
    <2>1. pc' = pc /\ blocked' = blocked /\ serving' = TRUE /\ pc[Main] = "idle"
      BY <1>2 DEF Serve, lock
    <2> QED
      BY <2>1 DEF Phases
  <1>3. ASSUME NEW p \in Procs, Called(p) PROVE Phases'
    <2>1. pc \in [Procs -> PCs]
      BY DEF IInv, TypeOK
    <2>2. ASSUME NEW id \in Ids, NEW f \in Factories, Register(p, id, f) PROVE Phases'
      <3>1. /\ pc' = [pc EXCEPT ![p] = "lock"] /\ blocked' = blocked /\ serving' = serving
            /\ p = Main /\ ~serving
        BY <2>2 DEF Register, Begin, Goto, Runs, lock
      <3> QED
        BY <2>1, <3>1 DEF Phases
    <2>3. ASSUME pc' = [pc EXCEPT ![p] = "rlock"], blocked' = blocked, serving' = serving, serving
          PROVE  Phases'
      BY <2>1, <2>3 DEF Phases
    <2>4. ASSUME NEW ids \in SUBSET Ids, LookUp(p, ids) PROVE Phases'
      BY <2>3, <2>4 DEF LookUp, Begin, Goto, lock
    <2>5. CASE GetAuthorizers(p)
      BY <2>3, <2>5 DEF GetAuthorizers, Begin, Goto, lock
    <2> QED
      BY <1>3, <2>2, <2>4, <2>5 DEF Called
  <1>4. ASSUME NEW p \in Procs, Step(p) PROVE Phases'
    <2>1. pc \in [Procs -> PCs]
      BY DEF IInv, TypeOK
    <2>2. CASE \/ RegisterLocks(p) \/ RegisterEnters(p) \/ RegisterPanics(p)
               \/ RegisterSets(p) \/ RegisterUnlocks(p)
      <3>1. PICK to \in Writing \cup {"idle"} : pc' = [pc EXCEPT ![p] = to]
        BY <2>2 DEF RegisterLocks, RegisterEnters, RegisterPanics, RegisterSets, RegisterUnlocks, Goto
      <3>2. pc[p] \in Writing
        BY <2>2 DEF RegisterLocks, RegisterEnters, RegisterPanics, RegisterSets, RegisterUnlocks,
           Goto, Runs
      <3>3. blocked' = {} /\ serving' = serving
        BY <2>2 DEF RegisterLocks, RegisterEnters, RegisterPanics, RegisterSets, RegisterUnlocks,
           KeepOut, Unlock, lock, Phases
      <3> QED
        BY <2>1, <3>1, <3>2, <3>3 DEF Phases
    <2>3. CASE \/ ScanLocks(p) \/ (\E id \in Ids : ScanPicks(p, id))
               \/ ValidateLocks(p) \/ ValidateReads(p) \/ ValidateUnlocks(p)
               \/ (\E more \in BOOLEAN : ScanReads(p, more)) \/ ScanEnds(p) \/ ScanUnlocks(p)
      <3> USE DEF ScanLocks, ScanPicks, ValidateLocks, ValidateReads, ValidateUnlocks, ScanReads,
              ScanEnds, ScanUnlocks
      <3>1. PICK to \in PCs \ Writing : pc' = [pc EXCEPT ![p] = to]
        BY <2>3 DEF Goto, PCs, AfterValidate, AfterRead
      <3>2. pc[p] \notin Writing \cup {"idle"}
        BY <2>3 DEF Goto, Runs
      <3>3. serving
        BY <3>2 DEF Phases
      <3>4. blocked' = {} /\ serving' = serving
        BY <2>3, <3>3, NoWriterServing DEF RLock, RUnlock, ReleasesInner, lock, Phases
      <3> QED
        BY <2>1, <3>1, <3>2, <3>3, <3>4 DEF Phases
    <2> QED
      BY <1>4, <2>2, <2>3 DEF Step
  <1> QED
    BY <1>1, <1>2, <1>3, <1>4 DEF Next

(* Nobody ever waits for a registry of a program that only registers in    *)
(* its init functions: the nested lock is a hazard of embedding programs   *)
(* that register later.                                                    *)
THEOREM InitOnlyNeverWaits == Spec => []NobodyWaits
  <1> DEFINE J == IInv /\ (Late = {} => Phases)
  <1>1. Init => J
    <2>1. Init => Phases
      BY DEF Init, Phases, Writing
    <2> QED
      BY <2>1, InitInv
  <1>2. J /\ [Next]_vars => J'
    BY NextInv, PhasesKept
  <1>3. J => NobodyWaits
    <2> SUFFICES ASSUME IInv, Phases, NEW p \in Procs, Stuck(p) PROVE FALSE
      BY DEF NobodyWaits
    <2>1. p \notin blocked
      BY DEF Phases
    <2>2. CASE pc[p] = "lock" /\ writer # None
      <3>1. writer \in Procs /\ pc[writer] \in {"drain", "check", "unlock"}
        BY <2>2 DEF IInv, TypeOK, Own, HoldsWrite
      <3> QED
        BY <2>2, <3>1 DEF Phases, Writing
    <2>3. CASE pc[p] = "drain" /\ ~Drained
      <3>1. PICK r \in Procs : readers[r] # 0
        BY <2>3 DEF Drained
      <3>2. pc[r] \in {"pick", "validate", "exists", "validated", "read", "runlock"}
        BY <3>1 DEF IInv, TypeOK, Own, HoldsReads, Level
      <3> QED
        BY <2>3, <3>2 DEF Phases, Writing
    <2> QED
      BY <2>1, <2>2, <2>3 DEF Stuck
  <1> QED
    BY <1>1, <1>2, <1>3, PTL DEF Spec

(* The writer that a goroutine inside waits for waits for that goroutine. *)
LEMMA WriterDrains ==
  ASSUME IInv, NEW p \in Procs, WaitsForItself(p)
  PROVE  writer \in Procs /\ pc[writer] = "drain"
  <1>1. p \in blocked /\ readers[p] > 0 /\ readers[p] \in 0..2
    BY DEF WaitsForItself, IInv, TypeOK
  <1>2. writer \in Procs
    BY <1>1 DEF IInv, TypeOK, Own, HoldsReads
  <1>3. pc[writer] \in {"drain", "check", "unlock"}
    BY <1>2 DEF IInv, Own, HoldsWrite
  <1>4. ~Drained
    BY <1>1 DEF Drained
  <1> QED
    BY <1>2, <1>3, <1>4 DEF IInv, Own, Excludes

(* Nothing lets either of them go. *)
SelfWaitLasts ==
  [][(\E p \in Procs : WaitsForItself(p)) =>
       /\ \A p \in Procs : WaitsForItself(p) => WaitsForItself(p)'
       /\ UNCHANGED <<writer, table>>
       /\ blocked \subseteq blocked']_vars

LEMMA SelfWaitStep ==
  ASSUME IInv, [Next]_vars, NEW p \in Procs, WaitsForItself(p)
  PROVE  /\ WaitsForItself(p)'
         /\ UNCHANGED <<writer, table>>
         /\ blocked \subseteq blocked'
  <1>1. writer \in Procs /\ pc[writer] = "drain"
    BY WriterDrains
  <1>2. p \in blocked /\ readers[p] > 0 /\ nested[p] /\ readers \in [Procs -> 0..2]
        /\ nested \in [Procs -> BOOLEAN]
    BY DEF WaitsForItself, IInv, TypeOK
  <1>3. \A q \in Procs : pc[q] \notin {"check", "unlock"}
    BY <1>1 DEF IInv, Own, HoldsWrite
  <1>4. writer # None
    BY <1>1, NoneAssumption
  <1> USE DEF WaitsForItself
  <1>5. CASE UNCHANGED vars \/ Serve
    BY <1>2, <1>5 DEF vars, Serve, lock, scan
  <1>6. ASSUME NEW q \in Procs, Called(q)
        PROVE  WaitsForItself(p)' /\ UNCHANGED <<writer, table>> /\ blocked \subseteq blocked'
    <2>1. q # p
      BY <1>2, <1>6 DEF Called, Register, LookUp, GetAuthorizers, Begin, Goto, Runs
    <2>2. UNCHANGED <<table, lock>>
      BY <1>6 DEF Called, Register, LookUp, GetAuthorizers, Begin
    <2>3. nested'[p] = nested[p]
      BY <1>2, <1>6, <2>1 DEF Called, Register, LookUp, GetAuthorizers, scan
    <2> QED
      BY <1>2, <2>2, <2>3 DEF lock
  <1>7. ASSUME NEW q \in Procs, Step(q)
        PROVE  WaitsForItself(p)' /\ UNCHANGED <<writer, table>> /\ blocked \subseteq blocked'
    <2>1. q # p /\ pc[q] \notin {"check", "unlock"}
      BY <1>2, <1>3, <1>7
      DEF Step, RegisterLocks, RegisterEnters, RegisterPanics, RegisterSets, RegisterUnlocks,
          ScanLocks, ScanPicks, ValidateLocks, ValidateReads, ValidateUnlocks, ScanReads,
          ScanEnds, ScanUnlocks, Goto, Runs
    <2>2. CASE RegisterLocks(q) \/ RegisterPanics(q) \/ RegisterSets(q) \/ RegisterUnlocks(q)
      BY <1>4, <2>1, <2>2
      DEF RegisterLocks, RegisterPanics, RegisterSets, RegisterUnlocks, KeepOut, Goto, Runs
    <2>3. CASE RegisterEnters(q) \/ (\E id \in Ids : ScanPicks(q, id)) \/ ValidateReads(q)
               \/ (\E more \in BOOLEAN : ScanReads(q, more)) \/ ScanEnds(q)
      BY <1>2, <2>3
      DEF RegisterEnters, ScanPicks, ValidateReads, ScanReads, ScanEnds, lock, scan
    <2>4. CASE ScanLocks(q) \/ ValidateLocks(q)
      BY <1>2, <1>4, <2>4 DEF ScanLocks, ValidateLocks, RLock, scan
    <2>5. CASE ValidateUnlocks(q) \/ ScanUnlocks(q)
      <3>1. readers'[p] = readers[p] /\ nested'[p] = nested[p]
            /\ UNCHANGED <<writer, blocked, table>>
        BY <1>2, <2>1, <2>5 DEF ValidateUnlocks, ScanUnlocks, RUnlock, ReleasesInner, scan
      <3> QED
        BY <1>2, <3>1
    <2> QED
      BY <1>7, <2>2, <2>3, <2>4, <2>5 DEF Step
  <1> QED
    BY <1>5, <1>6, <1>7 DEF Next

(* Once GetAuthorizers asks for the read lock again while a writer waits,  *)
(* it never gets it, the writer never gets in, and the registry is closed  *)
(* to everybody who asks for it.                                           *)
THEOREM NestedWaitIsForever == Spec => SelfWaitLasts
  <1>1. IInv /\ [Next]_vars =>
          ((\E p \in Procs : WaitsForItself(p)) =>
             /\ \A p \in Procs : WaitsForItself(p) => WaitsForItself(p)'
             /\ UNCHANGED <<writer, table>>
             /\ blocked \subseteq blocked')
    BY SelfWaitStep
  <1> QED
    BY <1>1, Invariance, PTL DEF Spec, SelfWaitLasts
=============================================================================
