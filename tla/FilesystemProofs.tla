--------------------------- MODULE FilesystemProofs ---------------------------
(***************************************************************************)
(* Proofs about Filesystem.  The invariant keeps, for every place in Run,  *)
(* what was at the target when Run looked at it; an answer that differs    *)
(* from what is there now has then seen two states.                        *)
(***************************************************************************)
EXTENDS Filesystem, FiniteSetTheorems, WellFoundedInduction, SequenceTheorems, TLAPS

-----------------------------------------------------------------------------
(* RESPONSES *)

Response(status, data, raw) == [status |-> status, data |-> data, raw |-> raw]

With(data, key, value) ==
  [k \in DOMAIN data \cup {key} |-> IF k = key THEN value ELSE data[k]]

LEMMA Adds ==
  ASSUME NEW status, NEW data, NEW raw, NEW key, NEW value
  PROVE  AddValue(Response(status, data, raw), key, value)
           = Response(status, With(data, key, value), raw)
  BY DEF AddValue, Response, With

(* Setting the status of any response keeps its data and its raw body.     *)
LEMMA SetsStatus ==
  ASSUME NEW status, NEW data, NEW raw, NEW new
  PROVE  Status(Response(status, data, raw), new)
           = Response(new, With(With(data, "status", new), "message", new), raw)
  <1>1. [Response(status, data, raw) EXCEPT !.status = new] = Response(new, data, raw)
    BY DEF Response
  <1> QED
    BY <1>1, Adds DEF Status

(* What is true of every response Run returns. *)
Consistent(r) ==
  /\ "status" \in DOMAIN r.data /\ r.data["status"] = r.status
  /\ r.status = 500 <=> "error" \in DOMAIN r.data

Base == With(With(<<>>, "status", 200), "message", 200)

LEMMA NewIs == NewResponse(200) = Response(200, Base, NoBytes)
  BY SetsStatus DEF NewResponse, Response, Base

LEMMA BaseIs == DOMAIN Base = {"status", "message"} /\ Base["status"] = 200
  BY DEF Base, With

(* 200 without a result, and with one. *)
LEMMA NewAnswer ==
  /\ NewResponse(200).status = 200 /\ NewResponse(200).raw = NoBytes
  /\ Consistent(NewResponse(200))
  BY NewIs, BaseIs DEF Response, Consistent

LEMMA ResultAnswer ==
  ASSUME NEW value
  PROVE  /\ Result(NewResponse(200), value).status = 200
         /\ Result(NewResponse(200), value).raw = NoBytes
         /\ Consistent(Result(NewResponse(200), value))
  <1>1. Result(NewResponse(200), value) = Response(200, With(Base, "result", value), NoBytes)
    BY NewIs, Adds DEF Result
  <1> QED
    BY <1>1, BaseIs DEF Response, Consistent, With

LEMMA FileAnswer ==
  ASSUME NEW value, NEW name
  PROVE  /\ AddValue(Result(NewResponse(200), value), "filename", name).status = 200
         /\ AddValue(Result(NewResponse(200), value), "filename", name).raw = NoBytes
         /\ Consistent(AddValue(Result(NewResponse(200), value), "filename", name))
  <1>1. AddValue(Result(NewResponse(200), value), "filename", name)
          = Response(200, With(With(Base, "result", value), "filename", name), NoBytes)
    BY NewIs, Adds DEF Result
  <1> QED
    BY <1>1, BaseIs DEF Response, Consistent, With

LEMMA RawAnswer ==
  ASSUME NEW bytes
  PROVE  /\ Raw(NewResponse(200), bytes).status = 200
         /\ Raw(NewResponse(200), bytes).raw = bytes
         /\ Consistent(Raw(NewResponse(200), bytes))
  <1>1. Raw(NewResponse(200), bytes) = Response(200, Base, bytes)
    BY NewIs DEF Raw, Response
  <1> QED
    BY <1>1, BaseIs DEF Response, Consistent

(* 404, and 500 with its error. *)
LEMMA NotFoundAnswer ==
  /\ Status(NewResponse(200), 404).status = 404
  /\ Status(NewResponse(200), 404).raw = NoBytes
  /\ Consistent(Status(NewResponse(200), 404))
  <1>1. Status(NewResponse(200), 404)
          = Response(404, With(With(Base, "status", 404), "message", 404), NoBytes)
    BY NewIs, SetsStatus
  <1> QED
    BY <1>1, BaseIs DEF Response, Consistent, With

LEMMA FailedAnswer == Failed.status = 500 /\ Failed.raw = NoBytes /\ Consistent(Failed)
  <1>1. Failed = Response(500,
          With(With(With(Base, "status", 500), "message", 500), "error", "err"), NoBytes)
    BY NewIs, SetsStatus, Adds DEF Failed, Error
  <1> QED
    BY <1>1, BaseIs DEF Response, Consistent, With

Misprinted == Status(Error(NewResponse(200), "err"), 500)

LEMMA MisprintedAnswer ==
  Misprinted.status = 500 /\ Misprinted.raw = NoBytes /\ Consistent(Misprinted)
  <1>1. Misprinted = Response(500,
          With(With(With(Base, "error", "err"), "status", 500), "message", 500), NoBytes)
    BY NewIs, SetsStatus, Adds DEF Misprinted, Error
  <1> QED
    BY <1>1, BaseIs DEF Response, Consistent, With

-----------------------------------------------------------------------------
(* PARAMETERS *)

(* A set of indices has a last one.                                        *)
LEMMA LastExists ==
  ASSUME NEW n \in Nat, NEW S, S \subseteq 1..n, S # {}
  PROVE  LastOf(S) \in S
  <1> DEFINE T == {n - i : i \in S}
  <1>1. T \subseteq Nat /\ T # {}
    <2>1. \A i \in S : n - i \in Nat
      OBVIOUS
    <2>2. T \subseteq Nat
      BY <2>1
    <2>3. PICK i \in S : TRUE
      OBVIOUS
    <2>4. n - i \in T
      BY <2>3
    <2> QED
      BY <2>2, <2>4
  <1>2. PICK m \in T : \A k \in T : ~(<<k, m>> \in OpToRel(<, Nat))
    <2> HIDE DEF T
    <2> QED
      BY <1>1, NatLessThanWellFounded, WFMin
  <1>3. ASSUME NEW k \in T PROVE m <= k
    <2>1. k \in Nat /\ m \in Nat
      BY <1>1
    <2>2. ~(k < m)
      BY <1>2, <2>1 DEF OpToRel
    <2> QED
      BY <2>1, <2>2
  <1>4. PICK i \in S : m = n - i
    BY <1>2
  <1>5. \A j \in S : j <= i
    BY <1>3, <1>4
  <1> QED
    BY <1>4, <1>5 DEF LastOf

(* What a parameter makes of a value is permitted.                         *)
LEMMA CleanPermitted ==
  ASSUME NEW ps, NEW sent, NEW name, NEW i \in DOMAIN ps,
         ps[i].name = name
  PROVE  Clean(ps[i], sent[name]) \in Permitted(ps, sent, name)
  BY DEF Clean, Permitted

LEMMA LevelType ==
  ASSUME NEW e \in Seq(ParamConfigs) \cup {Unconfigured},
         NEW m \in Seq(ParamConfigs) \cup {Unconfigured}
  PROVE  Level(e, m) \in Seq(ParamConfigs)
  BY DEF Level

LEMMA CleanType ==
  ASSUME NEW p \in ParamConfigs, NEW v \in Values
  PROVE  Clean(p, v) \in Values
  BY ValuesAssumption DEF Clean, ParamConfigs

(* The parameters a task sees have names and values, and are permitted.    *)
LEMMA ParamsAre ==
  ASSUME NEW ps \in Seq(ParamConfigs), NEW sent \in [Names -> Values]
  PROVE  /\ DOMAIN GetParams(ps, sent) \subseteq Names
         /\ \A n \in DOMAIN GetParams(ps, sent) :
              /\ GetParams(ps, sent)[n] \in Values
              /\ GetParams(ps, sent)[n] \in Permitted(ps, sent, n)
  <1>1. DOMAIN GetParams(ps, sent) \subseteq Names
    BY DEF GetParams
  <1>2. ASSUME NEW n \in DOMAIN GetParams(ps, sent)
        PROVE  /\ GetParams(ps, sent)[n] \in Values
               /\ GetParams(ps, sent)[n] \in Permitted(ps, sent, n)
    <2> DEFINE i == LastOf(Sets(ps, sent, n))
    <2>1. n \in Names /\ Sets(ps, sent, n) # {}
      BY <1>2 DEF GetParams
    <2>2. Len(ps) \in Nat /\ DOMAIN ps = 1..Len(ps)
      OBVIOUS
    <2>3. Sets(ps, sent, n) \subseteq 1..Len(ps)
      BY <2>2 DEF Sets
    <2>4. i \in Sets(ps, sent, n)
      BY <2>1, <2>2, <2>3, LastExists
    <2>5. i \in DOMAIN ps /\ ps[i].name = n /\ ps[i] \in ParamConfigs
      <3> HIDE DEF i
      <3>1. i \in DOMAIN ps /\ ps[i].name = n
        BY <2>4 DEF Sets
      <3> QED
        BY <3>1, <2>2
    <2>6. GetParams(ps, sent)[n] = Clean(ps[i], sent[n])
      BY <1>2, <2>1 DEF GetParams
    <2> QED
      BY <2>1, <2>5, <2>6, CleanPermitted, CleanType
  <1> QED
    BY <1>1, <1>2

-----------------------------------------------------------------------------
(* THE INVARIANT *)

(* The histories have what is there now, and what Run decided on.          *)
Seen ==
  /\ Running => /\ Sight(fs, blocks, target) \in sights
                /\ lasting \subseteq Listing(fs) /\ Listing(fs) \subseteq listed
  /\ pc \in {"readdir", "lstat"} => Dir \in sights
  /\ pc = "open" => \E s \in sights : s \in Whole

(* What was read of a file that nobody wrote is what was at the path.      *)
FileRead ==
  /\ pc \in {"idle", "stat", "readdir", "lstat", "open"} => content = <<>>
  /\ pc = "output" => content # <<>>
  /\ pc = "read" =>
       /\ content \notin Whole
       /\ \/ torn
          \/ /\ blocks[open] \in sights
             /\ content # <<>> => content[1] = blocks[open][1]
  /\ content # <<>> /\ pc # "read" => content \in Whole /\ (torn \/ content \in sights)

(* What is left to look at was there, and only that may be missing.        *)
DirRead ==
  /\ pc \in {"idle", "stat", "readdir", "open", "read", "output"} => todo = {} /\ items = {}
  /\ items \subseteq listed
  /\ pc = "lstat" =>
       /\ \A e \in todo : \E x \in listed : x.name = e
       /\ target = Root => \A x \in lasting : x \in items \/ x.name \in todo

Explained ==
  \/ denied
  \/ "broken" \in {config.file, config.directory, config.output}
  \/ \E s, t \in sights : s # t
  \/ \E x \in listed : x \notin lasting

(* What a response rests on. *)
Justified ==
  /\ Consistent(reply)
  /\ reply.status = 404 => denied \/ Absent \in sights \/ (Dir \in sights /\ ~config.index)
  /\ reply.status = 500 => Explained
  /\ reply.status = 200 => ~denied
  /\ reply.status = 200 /\ content = <<>> /\ target = Root => lasting \subseteq items
  /\ reply.raw # NoBytes => IsRaw

Wire ==
  IF config.embedded THEN Sent(Result(NewResponse(200), "list"), <<reply>>)
  ELSE Sent(reply, <<>>)

Replies ==
  /\ pc # "idle" => params = GetQueryParams(config.endpoint, config.method, query)
  /\ pc \in {"returned", "done"} => Justified
  /\ pc \notin {"returned", "done"} => ~denied
  /\ Done => wire = Wire

IInv == TypeOK /\ Seen /\ FileRead /\ DirRead /\ Replies

-----------------------------------------------------------------------------
(* TYPES *)

LEMMA ConfigType ==
  ASSUME config \in Configs
  PROVE  /\ config.path \in Paths
         /\ config.endpoint \in Seq(ParamConfigs) \cup {Unconfigured}
         /\ config.method \in Seq(ParamConfigs) \cup {Unconfigured}
  BY FilesystemAssumption DEF FilesystemConfigs

LEMMA SightType ==
  ASSUME NEW f \in [Paths -> Nodes], NEW b \in [Inodes -> Whole], NEW p \in Paths
  PROVE  /\ Sight(f, b, p) \in Sights
         /\ f[p] \in Inodes <=> Sight(f, b, p) \in Whole
         /\ f[p] = Dir <=> Sight(f, b, p) = Dir
         /\ f[p] = Absent <=> Sight(f, b, p) = Absent
         /\ f[p] \in Inodes => Sight(f, b, p) = b[f[p]]
  BY FilesystemAssumption DEF Sight, Sights, Nodes

LEMMA ListingType ==
  ASSUME NEW f \in [Paths -> Nodes]
  PROVE  /\ Listing(f) \subseteq Items
         /\ \A x \in Listing(f) : f[x.name] # Absent /\ x.is_dir = (f[x.name] = Dir)
         /\ \A e \in Entries : f[e] # Absent =>
              [name |-> e, is_dir |-> f[e] = Dir] \in Listing(f)
  <1>1. ASSUME NEW x \in Listing(f)
        PROVE  x \in Items /\ f[x.name] # Absent /\ x.is_dir = (f[x.name] = Dir)
    <2>1. PICK e \in Entries : f[e] # Absent /\ x = [name |-> e, is_dir |-> IsDir(f[e])]
      BY DEF Listing
    <2>2. IsDir(f[e]) \in BOOLEAN
      BY DEF IsDir
    <2> QED
      BY <2>1, <2>2 DEF Items, IsDir
  <1>2. ASSUME NEW e \in Entries, f[e] # Absent
        PROVE  [name |-> e, is_dir |-> f[e] = Dir] \in Listing(f)
    BY <1>2 DEF Listing, IsDir
  <1> QED
    BY <1>1, <1>2

LEMMA RootIs == Root \in Paths /\ Entries \subseteq Paths
  BY DEF Paths

LEMMA PutType ==
  ASSUME fs \in [Paths -> Nodes], NEW p \in Paths, NEW n \in Nodes
  PROVE  Put(p, n) \in [Paths -> Nodes]
  BY DEF Put

(* What others do leaves a tree.                                           *)
LEMMA OthersType ==
  ASSUME TypeOK, Others
  PROVE  \E f \in [Paths -> Nodes], b \in [Inodes -> Whole] : IsTree(f) /\ Becomes(f, b)
  <1>1. fs \in [Paths -> Nodes] /\ IsTree(fs) /\ blocks \in [Inodes -> Whole]
    BY DEF TypeOK
  <1>2. Absent \in Nodes /\ Dir \in Nodes /\ Inodes \subseteq Nodes /\ Absent # Dir
        /\ \A i \in Inodes : i # Dir
    BY FilesystemAssumption DEF Nodes
  <1>3. ASSUME NEW p \in Paths, Removes(p)
        PROVE  \E f \in [Paths -> Nodes], b \in [Inodes -> Whole] : IsTree(f) /\ Becomes(f, b)
    <2> DEFINE f == IF p = Root THEN [r \in Paths |-> Absent] ELSE Put(p, Absent)
    <2>1. f \in [Paths -> Nodes]
      BY <1>1, <1>2, PutType
    <2>2. IsTree(f)
      BY <1>1, RootIs DEF IsTree, Put
    <2>3. Becomes(f, blocks)
      BY <1>3 DEF Removes
    <2> HIDE DEF f
    <2> QED
      BY <1>1, <2>1, <2>2, <2>3
  <1>4. ASSUME NEW p \in Paths, MakesDir(p)
        PROVE  \E f \in [Paths -> Nodes], b \in [Inodes -> Whole] : IsTree(f) /\ Becomes(f, b)
    <2>1. Put(p, Dir) \in [Paths -> Nodes]
      BY <1>1, <1>2, PutType
    <2>2. IsTree(Put(p, Dir))
      BY <1>1, <1>4, RootIs DEF IsTree, Put, MakesDir
    <2>3. Becomes(Put(p, Dir), blocks)
      BY <1>4 DEF MakesDir
    <2> QED
      BY <1>1, <2>1, <2>2, <2>3
  <1>5. ASSUME NEW p \in Paths, NEW i \in Inodes, NEW b \in Blocks, Places(p, i, b)
        PROVE  \E f \in [Paths -> Nodes], c \in [Inodes -> Whole] : IsTree(f) /\ Becomes(f, c)
    <2>1. Put(p, i) \in [Paths -> Nodes]
      BY <1>1, <1>2, PutType
    <2>2. IsTree(Put(p, i))
      BY <1>1, <1>2, <1>5, RootIs, FilesystemAssumption DEF IsTree, Put, Places
    <2>3. <<b, b>> \in Whole
      BY DEF Whole
    <2>4. [blocks EXCEPT ![i] = <<b, b>>] \in [Inodes -> Whole]
      BY <1>1, <2>3
    <2>5. Becomes(Put(p, i), [blocks EXCEPT ![i] = <<b, b>>])
      BY <1>5 DEF Places
    <2> QED
      BY <2>1, <2>2, <2>4, <2>5
  <1>6. ASSUME NEW i \in Inodes, NEW k \in 1..2, NEW b \in Blocks, Writes(i, k, b)
        PROVE  \E f \in [Paths -> Nodes], c \in [Inodes -> Whole] : IsTree(f) /\ Becomes(f, c)
    <2>1. [blocks[i] EXCEPT ![k] = b] \in Whole
      BY <1>1 DEF Whole
    <2>2. [blocks EXCEPT ![i][k] = b] \in [Inodes -> Whole]
      BY <1>1, <2>1
    <2> QED
      BY <1>1, <1>6, <2>2 DEF Writes
  <1> QED
    BY <1>3, <1>4, <1>5, <1>6 DEF Others

-----------------------------------------------------------------------------
(* THE INITIAL STATES *)

LEMMA InitInv == Init => IInv
  <1> SUFFICES ASSUME Init PROVE IInv
    OBVIOUS
  <1>1. TypeOK
    <2>1. reply.status = 200 /\ reply.raw = NoBytes
      BY NewAnswer DEF Init
    <2>2. fs \in [Paths -> Nodes] /\ IsTree(fs) /\ blocks \in [Inodes -> Whole]
      BY FilesystemAssumption DEF Init
    <2>3. query \in [Names -> Values]
      BY ValuesAssumption DEF Init
    <2>4. wire.status = 0 /\ wire.body = "nothing"
      BY DEF Init
    <2>5. DOMAIN params = {}
      <3>1. params = <<>>
        BY DEF Init
      <3> QED
        BY <3>1
    <2>6. NoInode \notin Inodes /\ MaxChanges \in Nat
      BY FilesystemAssumption
    <2>7. /\ config \in Configs /\ changes = 0 /\ pc = "idle" /\ target = Root
          /\ todo = {} /\ items = {} /\ open = NoInode /\ content = <<>>
          /\ sights = {} /\ listed = {} /\ lasting = {} /\ torn = FALSE
          /\ denied = FALSE
      BY DEF Init
    <2>8. changes \in 0..MaxChanges
      BY <2>6, <2>7
    <2>9. /\ pc \in PCs /\ target \in Paths
          /\ open \in IF pc = "read" THEN Inodes ELSE {NoInode}
          /\ content \in {<<>>} \cup [1..1 -> Blocks] \cup Whole
          /\ torn \in BOOLEAN /\ denied \in BOOLEAN
      BY <2>6, <2>7, RootIs DEF PCs
    <2>10. /\ todo \in SUBSET Entries /\ items \in SUBSET Items
          /\ sights \in SUBSET Sights
          /\ listed \in SUBSET Items /\ lasting \in SUBSET Items
      BY <2>7
    <2> QED
      BY <2>1, <2>2, <2>3, <2>4, <2>5, <2>7, <2>8, <2>9, <2>10 DEF TypeOK
  <1>2. Seen /\ FileRead /\ DirRead /\ Replies
    BY DEF Init, Seen, FileRead, DirRead, Replies, Running, Done
  <1> QED
    BY <1>1, <1>2 DEF IInv

-----------------------------------------------------------------------------
(* THE FILE SYSTEM CHANGES *)

LEMMA BecomesInv ==
  ASSUME IInv, NEW f \in [Paths -> Nodes], NEW b \in [Inodes -> Whole], IsTree(f), Becomes(f, b)
  PROVE  IInv'
  <1>1. /\ fs' = f /\ blocks' = b /\ changes' = changes + 1 /\ changes < MaxChanges
        /\ UNCHANGED <<config, pc, query, target, params, todo, items, open, content,
                       reply, wire, denied>>
        /\ torn' = (torn \/ (open # NoInode /\ b[open] # blocks[open]))
    BY DEF Becomes, reading
  <1>2. /\ Running => /\ sights' = sights \cup {Sight(f, b, target)}
                      /\ listed' = listed \cup Listing(f)
                      /\ lasting' = lasting \cap Listing(f)
        /\ ~Running => sights' = sights /\ listed' = listed /\ lasting' = lasting
    BY DEF Becomes
  <1>3. Sight(f, b, target) \in Sights /\ Listing(f) \subseteq Items
    BY SightType, ListingType DEF IInv, TypeOK
  <1>4. sights \subseteq sights' /\ listed \subseteq listed' /\ lasting' \subseteq lasting
    BY <1>2
  <1>5. TypeOK'
    <2>1. sights' \in SUBSET Sights /\ listed' \in SUBSET Items /\ lasting' \in SUBSET Items
      BY <1>2, <1>3 DEF IInv, TypeOK
    <2>2. changes' \in 0..MaxChanges
      <3>1. changes \in 0..MaxChanges
        BY DEF IInv, TypeOK
      <3>2. MaxChanges \in Nat
        BY FilesystemAssumption
      <3> QED
        BY <1>1, <3>1, <3>2
    <2>3. torn' \in BOOLEAN
      BY <1>1
    <2> QED
      BY <1>1, <2>1, <2>2, <2>3 DEF IInv, TypeOK
  <1>6. Seen'
    <2>1. Running' <=> Running
      BY <1>1 DEF Running
    <2> QED
      BY <1>1, <1>2, <1>4, <2>1 DEF IInv, Seen, Sight, Listing
  <1>7. FileRead'
    <2>1. pc = "read" => open # NoInode
      <3>1. open \in IF pc = "read" THEN Inodes ELSE {NoInode}
        BY DEF IInv, TypeOK
      <3>2. NoInode \notin Inodes
        BY FilesystemAssumption
      <3> QED
        BY <3>1, <3>2
    <2> QED
      BY <1>1, <1>4, <2>1 DEF IInv, FileRead
  <1>8. DirRead'
    BY <1>1, <1>4 DEF IInv, DirRead
  <1>9. Replies'
    <2>1. Explained => Explained'
      BY <1>1, <1>4 DEF Explained
    <2>2. Justified => Justified'
      BY <1>1, <1>4, <2>1 DEF Justified, IsRaw, Output, Consistent
    <2> QED
      BY <1>1, <2>2 DEF IInv, Replies, Done, Wire
  <1> QED
    BY <1>5, <1>6, <1>7, <1>8, <1>9 DEF IInv

LEMMA OthersInv == ASSUME IInv, Others PROVE IInv'
  <1>1. PICK f \in [Paths -> Nodes], b \in [Inodes -> Whole] : IsTree(f) /\ Becomes(f, b)
    BY OthersType DEF IInv
  <1> QED
    BY <1>1, BecomesInv

-----------------------------------------------------------------------------
(* RUN BEGINS *)

LEMMA BeginInv ==
  ASSUME IInv, NEW sent \in [Names -> Values], NEW path \in Asked, Begin(sent, path)
  PROVE  IInv'
  <1>1. /\ pc = "idle" /\ query' = sent
        /\ params' = GetQueryParams(config.endpoint, config.method, sent)
        /\ target' = IF config.file = "url" THEN path ELSE config.path
        /\ sights' = {Sight(fs, blocks, target')}
        /\ listed' = Listing(fs) /\ lasting' = Listing(fs)
        /\ UNCHANGED <<config, fs, blocks, changes, todo, items, open, content, wire, torn,
                       denied>>
    BY DEF Begin, storage, reading
  <1>2. target' \in Paths
    <2>1. config \in Configs
      BY DEF IInv, TypeOK
    <2>2. path \in Paths
      BY FilesystemAssumption
    <2> QED
      BY <1>1, <2>1, <2>2, ConfigType
  <1>3. Sight(fs, blocks, target') \in Sights /\ Listing(fs) \subseteq Items
    BY <1>2, SightType, ListingType DEF IInv, TypeOK
  <1>4. \/ /\ "broken" \in {config.file, config.directory}
           /\ pc' = "returned" /\ reply' = Failed
        \/ pc' = "stat" /\ reply' = reply
    BY DEF Begin
  <1>5. content = <<>> /\ todo = {} /\ items = {}
    BY <1>1 DEF IInv, FileRead, DirRead
  <1>6. TypeOK'
    <2>1. /\ DOMAIN params' \subseteq Names
          /\ \A n \in DOMAIN params' : params'[n] \in Values
      <3>1. config \in Configs
        BY DEF IInv, TypeOK
      <3>2. Level(config.endpoint, config.method) \in Seq(ParamConfigs)
        BY <3>1, ConfigType, LevelType
      <3> QED
        BY <1>1, <3>2, ParamsAre DEF GetQueryParams
    <2>2. reply'.status \in {200, 404, 500} /\ reply'.raw \in Whole \cup {NoBytes}
      BY <1>4, FailedAnswer DEF IInv, TypeOK
    <2>3. sights' \in SUBSET Sights /\ listed' \in SUBSET Items /\ lasting' \in SUBSET Items
      BY <1>1, <1>3
    <2>4. pc' \in PCs /\ open' \in IF pc' = "read" THEN Inodes ELSE {NoInode}
      BY <1>1, <1>4 DEF IInv, TypeOK, PCs
    <2> QED
      BY <1>1, <1>2, <2>1, <2>2, <2>3, <2>4 DEF IInv, TypeOK
  <1>7. Seen'
    BY <1>1, <1>4 DEF Seen, Running, Sight, Listing
  <1>8. FileRead' /\ DirRead'
    BY <1>1, <1>4, <1>5 DEF FileRead, DirRead
  <1>9. Replies'
    <2>1. ~denied'
      BY <1>1 DEF IInv, Replies
    <2> QED
      BY <1>1, <1>4, <2>1, FailedAnswer DEF Replies, Justified, Explained, Done, Consistent
  <1> QED
    BY <1>6, <1>7, <1>8, <1>9 DEF IInv

-----------------------------------------------------------------------------
(* RUN GOES ON *)

LEMMA LeavesKeeps ==
  ASSUME NEW from, NEW to, Leaves(from, to)
  PROVE  /\ pc = from /\ pc' = to
         /\ UNCHANGED <<config, fs, blocks, changes, query, target, params, wire,
                        sights, listed, lasting, torn>>
  BY DEF Leaves, storage, histories

LEMMA GoesKeeps ==
  ASSUME NEW from, NEW to, Goes(from, to)
  PROVE  /\ pc = from /\ pc' = to
         /\ UNCHANGED <<config, fs, blocks, changes, query, target, params, wire,
                        sights, listed, lasting, torn, denied>>
  BY LeavesKeeps DEF Goes

(* What is at the target now, in terms of the histories.                   *)
LEMMA Looks ==
  ASSUME IInv, Running
  PROVE  /\ fs[target] = Absent => Absent \in sights
         /\ fs[target] = Dir => Dir \in sights
         /\ fs[target] \in Inodes => blocks[fs[target]] \in sights /\ blocks[fs[target]] \in Whole
         /\ fs[target] # Dir => \E s \in sights : s # Dir
         /\ fs[target] \notin Inodes => \E s \in sights : s \notin Whole
         /\ fs[target] \in Nodes
  <1>1. /\ fs \in [Paths -> Nodes] /\ blocks \in [Inodes -> Whole] /\ target \in Paths
        /\ Sight(fs, blocks, target) \in sights
    BY DEF IInv, TypeOK, Seen
  <1> QED
    BY <1>1, SightType

LEMMA ReturnsInv ==
  ASSUME IInv, NEW from \in {"stat", "readdir", "lstat", "open", "output"}, NEW response,
         Returns(from, response), UNCHANGED reading,
         response.status \in {200, 404, 500}, response.raw \in Whole \cup {NoBytes},
         Consistent(response),
         response.status = 404 => Absent \in sights \/ (Dir \in sights /\ ~config.index),
         response.status = 500 => Explained,
         response.status = 200 /\ content = <<>> /\ target = Root => lasting \subseteq items,
         response.raw # NoBytes => IsRaw
  PROVE  IInv'
  <1>1. /\ pc = from /\ pc' = "returned" /\ reply' = response
        /\ UNCHANGED <<config, fs, blocks, changes, query, target, params, wire,
                       sights, listed, lasting, torn, denied, todo, items, open, content>>
    BY GoesKeeps DEF Returns, reading
  <1>2. TypeOK'
    <2>1. pc' \in PCs /\ open' \in IF pc' = "read" THEN Inodes ELSE {NoInode}
      <3>1. open \in IF pc = "read" THEN Inodes ELSE {NoInode}
        BY DEF IInv, TypeOK
      <3> QED
        BY <1>1, <3>1 DEF PCs
    <2> QED
      BY <1>1, <2>1 DEF IInv, TypeOK
  <1>3. Seen'
    BY <1>1 DEF IInv, Seen, Running, Sight, Listing
  <1>4. FileRead' /\ DirRead'
    BY <1>1 DEF IInv, FileRead, DirRead
  <1>5. Replies'
    <2>1. Explained' <=> Explained
      BY <1>1 DEF Explained
    <2>2. IsRaw' <=> IsRaw
      BY <1>1 DEF IsRaw, Output
    <2>3. Consistent(reply)'
      BY <1>1 DEF Consistent
    <2>6. ~denied
      BY <1>1 DEF IInv, Replies
    <2>4. Justified'
      BY <1>1, <2>1, <2>2, <2>3, <2>6 DEF Justified
    <2>5. params' = GetQueryParams(config.endpoint, config.method, query)'
      BY <1>1 DEF IInv, Replies
    <2> QED
      BY <1>1, <2>4, <2>5 DEF Replies, Done
  <1> QED
    BY <1>2, <1>3, <1>4, <1>5 DEF IInv

LEMMA NotFoundInv == ASSUME IInv, NotFound PROVE IInv'
  <1>1. Returns("stat", Status(NewResponse(200), 404)) /\ UNCHANGED reading /\ ServesNothing
    BY DEF NotFound
  <1>2. Running
    BY <1>1, GoesKeeps DEF Returns, Running
  <1>3. Absent \in sights \/ (Dir \in sights /\ ~config.index)
    BY <1>1, <1>2, Looks DEF ServesNothing, IsDir
  <1> QED
    BY <1>1, <1>3, NotFoundAnswer, ReturnsInv

LEMMA ReadDirFailsInv == ASSUME IInv, ReadDirFails PROVE IInv'
  <1>1. PICK from \in {"readdir", "lstat"} :
          /\ Returns(from, Failed) /\ UNCHANGED reading
          /\ from = "readdir" => fs[target] # Dir
          /\ from = "lstat" => \E e \in todo : fs[Root] \in Inodes \/ fs[e] = Absent
    BY DEF ReadDirFails, IsDir
  <1>2. pc = from /\ Running
    BY <1>1, GoesKeeps DEF Returns, Running
  <1>3. CASE from = "readdir"
    <2>1. Dir \in sights
      BY <1>2, <1>3 DEF IInv, Seen
    <2>2. \E s \in sights : s # Dir
      BY <1>1, <1>2, <1>3, Looks
    <2>3. Explained
      BY <2>1, <2>2 DEF Explained
    <2> QED
      BY <1>1, <2>3, FailedAnswer, ReturnsInv
  <1>4. CASE from = "lstat"
    <2>1. PICK e \in todo : fs[Root] \in Inodes \/ fs[e] = Absent
      BY <1>1, <1>4
    <2>2. e \in Entries /\ IsTree(fs) /\ fs \in [Paths -> Nodes]
      BY DEF IInv, TypeOK
    <2>3. fs[e] = Absent
      BY <2>1, <2>2, FilesystemAssumption DEF IsTree
    <2>4. PICK x \in listed : x.name = e
      BY <1>2, <1>4 DEF IInv, DirRead
    <2>5. x \notin Listing(fs)
      BY <2>2, <2>3, <2>4, ListingType
    <2>6. Explained
      BY <1>2, <2>4, <2>5 DEF IInv, Seen, Explained
    <2> QED
      BY <1>1, <2>6, FailedAnswer, ReturnsInv
  <1> QED
    BY <1>3, <1>4

LEMMA ListsInv == ASSUME IInv, Lists PROVE IInv'
  <1> DEFINE answer == Result(NewResponse(200), {Shown(item) : item \in items})
  <1>1. todo = {} /\ Returns("lstat", answer) /\ UNCHANGED reading
    BY DEF Lists
  <1>2. answer.status = 200 /\ answer.raw = NoBytes /\ Consistent(answer)
    BY ResultAnswer
  <1>3. pc = "lstat"
    BY <1>1, GoesKeeps DEF Returns
  <1>4. target = Root => lasting \subseteq items
    BY <1>1, <1>3 DEF IInv, DirRead
  <1> HIDE DEF answer
  <1> QED
    BY <1>1, <1>2, <1>4, ReturnsInv

LEMMA OpenFailsInv == ASSUME IInv, OpenFails PROVE IInv'
  <1>1. Returns("open", Failed) /\ UNCHANGED reading /\ fs[target] \notin Inodes
    BY DEF OpenFails
  <1>2. pc = "open" /\ Running
    BY <1>1, GoesKeeps DEF Returns, Running
  <1>3. Explained
    BY <1>1, <1>2, Looks DEF IInv, Seen, Explained
  <1> QED
    BY <1>1, <1>3, FailedAnswer, ReturnsInv

(* Whatever the system refuses is answered with an error. *)
LEMMA OSFailsInv == ASSUME IInv, OSFails PROVE IInv'
  <1>1. PICK from \in {"stat", "readdir", "lstat", "open", "read"} :
          /\ Leaves(from, "returned")
          /\ reply' = Failed \/ reply' = Status(NewResponse(200), 404)
    BY DEF OSFails
  <1>2. /\ pc' = "returned" /\ pc = from
        /\ UNCHANGED <<config, fs, blocks, changes, query, target, params, wire,
                       sights, listed, lasting, torn, todo, items>>
        /\ open' = NoInode /\ content' = <<>> /\ denied' = TRUE
    BY <1>1, LeavesKeeps DEF OSFails
  <1>3. /\ reply'.status \in {404, 500} /\ reply'.raw = NoBytes
        /\ Consistent(reply')
    BY <1>1, FailedAnswer, NotFoundAnswer
  <1>4. TypeOK'
    <2>1. pc' \in PCs /\ open' \in IF pc' = "read" THEN Inodes ELSE {NoInode}
      BY <1>2 DEF PCs
    <2> QED
      BY <1>2, <1>3, <2>1 DEF IInv, TypeOK
  <1>5. Seen'
    BY <1>2 DEF IInv, Seen, Running, Sight, Listing
  <1>6. FileRead' /\ DirRead'
    BY <1>2 DEF IInv, FileRead, DirRead
  <1>7. Replies'
    <2>1. Explained'
      BY <1>2 DEF Explained
    <2>2. Justified'
      BY <1>2, <1>3, <2>1 DEF Justified, Consistent
    <2>3. params' = GetQueryParams(config.endpoint, config.method, query)'
      BY <1>2 DEF IInv, Replies
    <2> QED
      BY <1>2, <2>2, <2>3 DEF Replies, Done
  <1> QED
    BY <1>4, <1>5, <1>6, <1>7 DEF IInv

LEMMA OutputFailsInv == ASSUME IInv, OutputFails PROVE IInv'
  <1>1. Returns("output", Misprinted) /\ UNCHANGED reading /\ config.output = "broken"
    BY DEF OutputFails, Misprinted
  <1>2. Explained
    BY <1>1 DEF Explained
  <1> QED
    BY <1>1, <1>2, MisprintedAnswer, ReturnsInv

LEMMA RespondsInv == ASSUME IInv, Responds PROVE IInv'
  <1> DEFINE file == AddValue(Result(NewResponse(200), "base64"), "filename", "name")
             bytes == Raw(NewResponse(200), content)
  <1>1. Returns("output", IF IsRaw THEN bytes ELSE file) /\ UNCHANGED reading
    BY DEF Responds
  <1>2. pc = "output"
    BY <1>1, GoesKeeps DEF Returns
  <1>3. content # <<>> /\ content \in Whole
    BY <1>2 DEF IInv, FileRead
  <1>4. bytes.status = 200 /\ bytes.raw = content /\ Consistent(bytes)
    BY RawAnswer
  <1>5. file.status = 200 /\ file.raw = NoBytes /\ Consistent(file)
    BY FileAnswer
  <1> HIDE DEF file, bytes
  <1>6. CASE IsRaw
    BY <1>1, <1>3, <1>4, <1>6, ReturnsInv
  <1>7. CASE ~IsRaw
    BY <1>1, <1>3, <1>5, <1>7, ReturnsInv
  <1> QED
    BY <1>6, <1>7

-----------------------------------------------------------------------------
(* RUN READS *)

(* A step inside Run leaves the response alone; the rest is its own.       *)
LEMMA MovesInv ==
  ASSUME IInv, NEW from \in PCs \ {"idle", "returned", "done"},
         NEW to \in PCs \ {"idle", "returned", "done"},
         Goes(from, to), UNCHANGED reply,
         todo' \in SUBSET Entries, items' \in SUBSET Items,
         open' \in IF to = "read" THEN Inodes ELSE {NoInode},
         content' \in {<<>>} \cup [1..1 -> Blocks] \cup Whole,
         to \in {"readdir", "lstat"} => Dir \in sights,
         to = "open" => \E s \in sights : s \in Whole,
         FileRead', DirRead'
  PROVE  IInv'
  <1>1. /\ pc = from /\ pc' = to
        /\ UNCHANGED <<config, fs, blocks, changes, query, target, params, wire,
                       sights, listed, lasting, torn, denied, reply>>
    BY GoesKeeps
  <1>2. TypeOK'
    BY <1>1 DEF IInv, TypeOK
  <1>3. Seen'
    BY <1>1 DEF IInv, Seen, Running, Sight, Listing
  <1>4. Replies'
    BY <1>1 DEF IInv, Replies, Done
  <1> QED
    BY <1>2, <1>3, <1>4 DEF IInv

LEMMA StatInv == ASSUME IInv, StatDir \/ StatFile PROVE IInv'
  <1>1. PICK to \in {"readdir", "open"} :
          /\ Goes("stat", to) /\ UNCHANGED <<todo, items, open, content, reply>>
          /\ to = "readdir" => fs[target] = Dir
          /\ to = "open" => fs[target] \in Inodes
    BY DEF StatDir, StatFile, reading, IsDir
  <1>2. /\ pc = "stat" /\ pc' = to /\ Running
        /\ UNCHANGED <<target, sights, listed, lasting, torn, blocks>>
    BY <1>1, GoesKeeps DEF Running
  <1>3. /\ to = "readdir" => Dir \in sights
        /\ to = "open" => \E s \in sights : s \in Whole
    BY <1>1, <1>2, Looks
  <1>4. FileRead' /\ DirRead'
    BY <1>1, <1>2 DEF IInv, FileRead, DirRead
  <1>5. /\ todo' \in SUBSET Entries /\ items' \in SUBSET Items
        /\ content' \in {<<>>} \cup [1..1 -> Blocks] \cup Whole
        /\ open' = NoInode
    BY <1>1, <1>2 DEF IInv, TypeOK
  <1>6. /\ "stat" \in PCs \ {"idle", "returned", "done"}
        /\ to \in PCs \ {"idle", "returned", "done"} /\ to # "read" /\ to # "lstat"
    BY DEF PCs
  <1> QED
    BY <1>1, <1>3, <1>4, <1>5, <1>6, MovesInv

LEMMA ReadNamesInv == ASSUME IInv, ReadNames PROVE IInv'
  <1>1. /\ fs[target] = Dir /\ Goes("readdir", "lstat")
        /\ todo' = IF target = Root THEN {e \in Entries : fs[e] # Absent} ELSE {}
        /\ UNCHANGED <<items, open, content, reply>>
    BY DEF ReadNames, IsDir
  <1>2. /\ pc = "readdir" /\ pc' = "lstat" /\ Running
        /\ UNCHANGED <<target, sights, listed, lasting, torn, blocks>>
    BY <1>1, GoesKeeps DEF Running
  <1>3. fs \in [Paths -> Nodes] /\ lasting \subseteq Listing(fs) /\ Listing(fs) \subseteq listed
        /\ listed \subseteq Items
    BY <1>2 DEF IInv, TypeOK, Seen
  <1>4. \A e \in todo' : \E x \in listed : x.name = e
    <2>1. ASSUME NEW e \in todo' PROVE \E x \in listed : x.name = e
      <3>1. e \in Entries /\ fs[e] # Absent
        BY <1>1, <2>1
      <3>2. [name |-> e, is_dir |-> fs[e] = Dir] \in listed
        BY <1>3, <3>1, ListingType
      <3> QED
        BY <3>2
    <2> QED
      BY <2>1
  <1>5. target = Root => \A x \in lasting : x.name \in todo'
    <2>1. ASSUME target = Root, NEW x \in lasting PROVE x.name \in todo'
      <3>1. x.name \in Entries /\ fs[x.name] # Absent
        BY <1>3, ListingType DEF Items
      <3> QED
        BY <1>1, <2>1, <3>1
    <2> QED
      BY <2>1
  <1>6. FileRead' /\ DirRead'
    BY <1>1, <1>2, <1>4, <1>5 DEF IInv, FileRead, DirRead
  <1>7. /\ todo' \in SUBSET Entries /\ items' \in SUBSET Items
        /\ content' \in {<<>>} \cup [1..1 -> Blocks] \cup Whole
        /\ open' = NoInode
    BY <1>1, <1>2 DEF IInv, TypeOK
  <1>8. Dir \in sights
    BY <1>2 DEF IInv, Seen
  <1>9. {"readdir", "lstat"} \subseteq PCs \ {"idle", "returned", "done"}
    BY DEF PCs
  <1> QED
    BY <1>1, <1>6, <1>7, <1>8, <1>9, MovesInv

LEMMA LstatInv == ASSUME IInv, NEW e \in Entries, Lstat(e) PROVE IInv'
  <1>1. /\ e \in todo /\ Goes("lstat", "lstat")
        /\ todo' = todo \ {e} /\ items' = items \cup Found(e)
        /\ UNCHANGED <<open, content, reply>>
    BY DEF Lstat
  <1>2. /\ pc = "lstat" /\ pc' = "lstat" /\ Running
        /\ UNCHANGED <<target, sights, listed, lasting, torn, blocks>>
    BY <1>1, GoesKeeps DEF Running
  <1>3. fs \in [Paths -> Nodes] /\ lasting \subseteq Listing(fs) /\ Listing(fs) \subseteq listed
        /\ listed \subseteq Items
    BY <1>2 DEF IInv, TypeOK, Seen
  <1>4. Found(e) \subseteq Listing(fs)
    BY <1>3, ListingType DEF Found, IsDir
  <1>5. ASSUME NEW x \in lasting, x.name = e PROVE x \in Found(e)
    <2>1. x \in Items /\ fs[e] # Absent /\ x.is_dir = (fs[e] = Dir)
      BY <1>3, <1>5, ListingType
    <2>2. x = [name |-> e, is_dir |-> IsDir(fs[e])]
      BY <1>5, <2>1 DEF Items, IsDir
    <2> QED
      BY <2>1, <2>2 DEF Found
  <1>6. DirRead'
    BY <1>1, <1>2, <1>3, <1>4, <1>5 DEF IInv, DirRead
  <1>7. FileRead'
    BY <1>1, <1>2 DEF IInv, FileRead
  <1>8. /\ todo' \in SUBSET Entries /\ items' \in SUBSET Items
        /\ content' \in {<<>>} \cup [1..1 -> Blocks] \cup Whole
        /\ open' = NoInode
    BY <1>1, <1>2, <1>3, <1>4 DEF IInv, TypeOK
  <1>9. Dir \in sights
    BY <1>2 DEF IInv, Seen
  <1>10. "lstat" \in PCs \ {"idle", "returned", "done"}
    BY DEF PCs
  <1> QED
    BY <1>1, <1>6, <1>7, <1>8, <1>9, <1>10, MovesInv

LEMMA OpensInv == ASSUME IInv, Opens PROVE IInv'
  <1>1. /\ fs[target] \in Inodes /\ Goes("open", "read") /\ open' = fs[target]
        /\ UNCHANGED <<todo, items, content, reply>>
    BY DEF Opens
  <1>2. /\ pc = "open" /\ pc' = "read" /\ Running
        /\ UNCHANGED <<target, sights, listed, lasting, torn, blocks>>
    BY <1>1, GoesKeeps DEF Running
  <1>3. blocks[open'] \in sights
    BY <1>1, <1>2, Looks
  <1>4. content = <<>> /\ content \notin Whole
    <2>1. content = <<>>
      BY <1>2 DEF IInv, FileRead
    <2>2. DOMAIN <<>> # 1..2
      OBVIOUS
    <2> QED
      BY <2>1, <2>2 DEF Whole
  <1>5. FileRead' /\ DirRead'
    BY <1>1, <1>2, <1>3, <1>4 DEF IInv, FileRead, DirRead
  <1>6. /\ todo' \in SUBSET Entries /\ items' \in SUBSET Items
        /\ content' \in {<<>>} \cup [1..1 -> Blocks] \cup Whole
    BY <1>1 DEF IInv, TypeOK
  <1>7. {"open", "read"} \subseteq PCs \ {"idle", "returned", "done"}
    BY DEF PCs
  <1> QED
    BY <1>1, <1>5, <1>6, <1>7, MovesInv

(* The first block, and the second.                                        *)
LEMMA ReadsInv == ASSUME IInv, Reads PROVE IInv'
  <1>1. /\ Goes("read", IF Len(content) = 1 THEN "output" ELSE "read")
        /\ content' = Append(content, blocks[open][Len(content) + 1])
        /\ open' = IF Len(content) = 1 THEN NoInode ELSE open
        /\ UNCHANGED <<todo, items, reply>>
    BY DEF Reads, Source, OpenAfter
  <1>2. /\ pc = "read" /\ pc' = IF Len(content) = 1 THEN "output" ELSE "read"
        /\ UNCHANGED <<target, sights, listed, lasting, torn, blocks>>
    BY <1>1, GoesKeeps
  <1>3. open \in Inodes /\ blocks[open] \in Whole /\ todo \in SUBSET Entries
        /\ items \in SUBSET Items /\ blocks \in [Inodes -> Whole]
    BY <1>2 DEF IInv, TypeOK
  <1>4. content = <<>> \/ content \in [1..1 -> Blocks]
    BY <1>2 DEF IInv, TypeOK, FileRead
  <1>5. torn \/ (/\ blocks[open] \in sights
                 /\ content # <<>> => content[1] = blocks[open][1])
    BY <1>2 DEF IInv, FileRead
  <1>6. todo' = {} /\ items' = {}
    BY <1>1, <1>2 DEF IInv, DirRead
  <1>7. DirRead'
    BY <1>2, <1>6 DEF DirRead
  <1>8. {"read", "output"} \subseteq PCs \ {"idle", "returned", "done"}
    BY DEF PCs
  <1>9. CASE content = <<>>
    <2>1. Len(content) = 0 /\ content' = <<blocks[open][1]>>
      BY <1>1, <1>9
    <2>2. content' \in [1..1 -> Blocks] /\ content' # <<>> /\ content'[1] = blocks[open][1]
          /\ content' \notin Whole
      BY <1>3, <2>1 DEF Whole
    <2>3. pc' = "read" /\ open' = open
      BY <1>1, <1>2, <2>1
    <2>4. FileRead'
      BY <1>2, <1>5, <2>2, <2>3 DEF FileRead
    <2> QED
      BY <1>1, <1>3, <1>6, <1>7, <1>8, <2>1, <2>2, <2>3, <2>4, MovesInv
  <1>10. CASE content \in [1..1 -> Blocks]
    <2>1. Len(content) = 1 /\ content = <<content[1]>> /\ content[1] \in Blocks
          /\ content # <<>>
      BY <1>10
    <2>2. /\ content' \in [1..2 -> Blocks]
          /\ content'[1] = content[1] /\ content'[2] = blocks[open][2]
      <3>1. content' = Append(content, blocks[open][2])
        BY <1>1, <2>1
      <3>2. blocks[open][2] \in Blocks
        BY <1>3 DEF Whole
      <3>3. content \in Seq(Blocks)
        <4>1. PICK c \in Blocks : content = <<c>>
          BY <2>1
        <4>2. <<c>> \in Seq(Blocks)
          OBVIOUS
        <4> QED
          BY <4>1, <4>2
      <3>4. /\ content' \in Seq(Blocks) /\ Len(content') = 2
            /\ content'[1] = content[1] /\ content'[2] = blocks[open][2]
        <4> DEFINE d == blocks[open][2]
        <4>1. Len(content) = 1
          BY <2>1
        <4>2. d \in Blocks /\ content' = Append(content, d)
          BY <3>1, <3>2
        <4> HIDE DEF d
        <4>3. /\ Append(content, d) \in Seq(Blocks)
              /\ Len(Append(content, d)) = Len(content) + 1
              /\ \A i \in 1..Len(content) : Append(content, d)[i] = content[i]
              /\ Append(content, d)[Len(content) + 1] = d
          BY <3>3, <4>2, AppendProperties
        <4> QED
          BY <4>1, <4>2, <4>3 DEF d
      <3> QED
        BY <3>4
    <2>3. content' \in Whole /\ content' # <<>>
      BY <2>2 DEF Whole
    <2>4. content[1] = blocks[open][1] => content' = blocks[open]
      BY <1>3, <2>2 DEF Whole
    <2>5. pc' = "output" /\ open' = NoInode
      BY <1>1, <1>2, <2>1
    <2>6. FileRead'
      BY <1>2, <1>5, <2>1, <2>3, <2>4, <2>5 DEF FileRead
    <2> QED
      BY <1>1, <1>3, <1>6, <1>7, <1>8, <2>1, <2>3, <2>5, <2>6, MovesInv
  <1> QED
    BY <1>4, <1>9, <1>10

-----------------------------------------------------------------------------
(* THE ANSWER IS WRITTEN *)

LEMMA WireIs ==
  /\ Wire.status = IF config.embedded THEN 200 ELSE reply.status
  /\ Wire.body \in {"raw", "json", "nothing"}
  /\ Wire.body = "nothing" => config.embedded /\ reply.raw # NoBytes
  <1>1. Result(NewResponse(200), "list").status = 200
        /\ Result(NewResponse(200), "list").raw = NoBytes
    BY ResultAnswer
  <1>2. \A i \in DOMAIN <<reply>> : <<reply>>[i] = reply
    OBVIOUS
  <1>3. DOMAIN <<>> = {}
    OBVIOUS
  <1>4. CASE config.embedded
    BY <1>1, <1>2, <1>4 DEF Wire, Sent, Nests
  <1>5. CASE ~config.embedded
    BY <1>3, <1>5 DEF Wire, Sent
  <1> QED
    BY <1>4, <1>5

LEMMA JustifiedStays ==
  ASSUME Justified,
         UNCHANGED <<config, target, params, items, content, reply, sights, listed, lasting, denied>>
  PROVE  Justified'
  <1>1. Explained' <=> Explained
    BY DEF Explained
  <1>2. IsRaw' <=> IsRaw
    BY DEF IsRaw, Output
  <1>3. Consistent(reply)'
    BY DEF Justified, Consistent
  <1> QED
    BY <1>1, <1>2, <1>3 DEF Justified

LEMMA WriteInv == ASSUME IInv, Write PROVE IInv'
  <1>1. /\ pc = "returned" /\ pc' = "done" /\ wire' = Wire
        /\ UNCHANGED <<config, fs, blocks, changes, query, target, params, todo, items,
                       open, content, reply, sights, listed, lasting, torn, denied>>
    BY DEF Write, Wire, storage, reading, histories
  <1>2. wire' = Wire'
    BY <1>1 DEF Wire
  <1>3. TypeOK'
    <2>1. wire'.status \in {0, 200, 404, 500} /\ wire'.body \in {"raw", "json", "nothing"}
      <3>1. reply.status \in {200, 404, 500}
        BY DEF IInv, TypeOK
      <3> QED
        BY <1>1, <3>1, WireIs
    <2>2. pc' \in PCs /\ open' \in IF pc' = "read" THEN Inodes ELSE {NoInode}
      BY <1>1 DEF IInv, TypeOK, PCs
    <2> QED
      BY <1>1, <2>1, <2>2 DEF IInv, TypeOK
  <1>4. Seen' /\ FileRead' /\ DirRead'
    BY <1>1 DEF IInv, Seen, FileRead, DirRead, Running
  <1>5. Replies'
    <2>1. Justified'
      BY <1>1, JustifiedStays DEF IInv, Replies
    <2>2. params' = GetQueryParams(config.endpoint, config.method, query)'
      BY <1>1 DEF IInv, Replies
    <2> QED
      BY <1>1, <1>2, <2>1, <2>2 DEF Replies, Done
  <1> QED
    BY <1>3, <1>4, <1>5 DEF IInv

-----------------------------------------------------------------------------
(* THEOREMS *)

LEMMA StutterInv == ASSUME IInv, UNCHANGED vars PROVE IInv'
  <1>1. /\ UNCHANGED <<config, fs, blocks, changes, pc, query, target, params, todo, items,
                       open, content, reply, wire, sights, listed, lasting, torn, denied>>
    BY DEF vars, storage, reading, histories
  <1>2. TypeOK'
    BY <1>1 DEF IInv, TypeOK
  <1>3. Seen' /\ FileRead' /\ DirRead'
    BY <1>1 DEF IInv, Seen, FileRead, DirRead, Running, Sight, Listing
  <1>4. Replies'
    <2>1. Justified => Justified'
      BY <1>1, JustifiedStays
    <2> QED
      BY <1>1, <2>1 DEF IInv, Replies, Done, Wire
  <1> QED
    BY <1>2, <1>3, <1>4 DEF IInv

LEMMA NextInv == IInv /\ [Next]_vars => IInv'
  <1> SUFFICES ASSUME IInv, [Next]_vars PROVE IInv'
    OBVIOUS
  <1>1. ASSUME NEW sent \in [Names -> Values], NEW path \in Asked, Begin(sent, path)
        PROVE  IInv'
    BY <1>1, BeginInv
  <1>2. CASE Run
    <2>1. ASSUME NEW e \in Entries, Lstat(e) PROVE IInv'
      BY <2>1, LstatInv
    <2> QED
      BY <1>2, <2>1, NotFoundInv, StatInv, ReadNamesInv, ReadDirFailsInv, ListsInv,
         OpensInv, OpenFailsInv, ReadsInv, OutputFailsInv, RespondsInv, WriteInv DEF Run
  <1>3. CASE Others
    BY <1>3, OthersInv
  <1>4. CASE UNCHANGED vars
    BY <1>4, StutterInv
  <1>5. CASE OSFails
    BY <1>5, OSFailsInv
  <1> QED
    BY <1>1, <1>2, <1>3, <1>4, <1>5 DEF Next

THEOREM Invariance == Spec => []IInv
  BY InitInv, NextInv, PTL DEF Spec

(* Types; a file is open only while it is read.                            *)
THEOREM TypeCorrect == Spec => []TypeOK
  <1>1. IInv => TypeOK
    BY DEF IInv
  <1> QED
    BY <1>1, Invariance, PTL

(* A file that is not written in place is served as it was at one instant  *)
(* of the run, although it was looked up twice and read in pieces.         *)
THEOREM ContentIsReal == Spec => []ContentJustified
  <1>1. IInv => ContentJustified
    BY DEF IInv, FileRead, ContentJustified, Done
  <1> QED
    BY <1>1, Invariance, PTL

(* A request for a file fails only if there was nothing to serve, if       *)
(* something changed during the run or if the system refused a call, and   *)
(* it does fail then.                                                      *)
THEOREM FailuresAreReal == Spec => []FailureJustified
  <1>1. IInv => FailureJustified
    <2> SUFFICES ASSUME IInv, Done PROVE
          /\ reply.status = 404 =>
               denied \/ Absent \in sights \/ (Dir \in sights /\ ~config.index)
          /\ reply.status = 500 =>
               \/ denied
               \/ "broken" \in {config.file, config.directory, config.output}
               \/ \E s, t \in sights : s # t
               \/ listed # lasting
          /\ reply.status = 200 => ~denied
      BY DEF FailureJustified
    <2>1. Justified
      BY DEF IInv, Replies, Done
    <2> QED
      BY <2>1 DEF Justified, Explained
  <1> QED
    BY <1>1, Invariance, PTL

(* A listing has only what was there, and all that was there throughout.   *)
THEOREM ListingsAreReal == Spec => []ListingJustified
  <1>1. IInv => ListingJustified
    BY DEF IInv, Replies, DirRead, Justified, ListingJustified, Served, Done
  <1> QED
    BY <1>1, Invariance, PTL

(* A client gets raw bytes only by a value the configuration lets pass.    *)
THEOREM RawIsAsked == Spec => []RawOnlyWhenAsked
  <1>1. IInv => RawOnlyWhenAsked
    <2> SUFFICES ASSUME IInv, Done, reply.raw # NoBytes, config.output # "raw"
                 PROVE  /\ config.output = "query"
                        /\ Permitted(Level(config.endpoint, config.method), query, "output")
                             \cap RawValues # {}
      BY DEF RawOnlyWhenAsked
    <2> DEFINE level == Level(config.endpoint, config.method)
    <2>1. IsRaw /\ params = GetParams(level, query)
      BY DEF IInv, Replies, Justified, Done, GetQueryParams
    <2>2. /\ config.output = "query" /\ "output" \in DOMAIN params
          /\ params["output"] \in RawValues
      BY <2>1, FilesystemAssumption DEF IsRaw, Output
    <2>3. config \in Configs /\ query \in [Names -> Values]
      BY DEF IInv, TypeOK
    <2>4. level \in Seq(ParamConfigs)
      BY <2>3, ConfigType, LevelType
    <2> HIDE DEF level
    <2>5. params["output"] \in Permitted(level, query, "output")
      BY <2>1, <2>2, <2>3, <2>4, ParamsAre
    <2> QED
      BY <2>2, <2>5 DEF level
  <1> QED
    BY <1>1, Invariance, PTL

(* An answer has a body that agrees with its status line, but for a raw    *)
(* file inside a multi task.                                               *)
THEOREM AnswersAreComplete == Spec => []AnswerComplete
  <1>1. IInv => AnswerComplete
    BY WireIs DEF IInv, Replies, Justified, Consistent, AnswerComplete, Done
  <1> QED
    BY <1>1, Invariance, PTL

-----------------------------------------------------------------------------
(* HOW LONG A RUN CAN TAKE *)

(* Steps Run has left at most, until the answer is sent. *)
StepsLeft ==
  CASE pc = "stat"     -> Cardinality(Entries) + 6
    [] pc = "readdir"  -> Cardinality(Entries) + 5
    [] pc = "lstat"    -> Cardinality(todo) + 2
    [] pc = "open"     -> 5
    [] pc = "read"     -> IF content = <<>> THEN 4 ELSE 3
    [] pc = "output"   -> 2
    [] pc = "returned" -> 1
    [] OTHER           -> 0

TakesFewSteps ==
  [][/\ pc' # "idle" => StepsLeft' \in 0..(Cardinality(Entries) + 6)
     /\ Run \/ OSFails => StepsLeft' < StepsLeft
     /\ Others => StepsLeft' = StepsLeft]_vars

LEMMA StepsType ==
  ASSUME IsFiniteSet(Entries), TypeOK
  PROVE  /\ Cardinality(Entries) \in Nat
         /\ IsFiniteSet(todo) /\ Cardinality(todo) \in 0..Cardinality(Entries)
         /\ StepsLeft \in 0..(Cardinality(Entries) + 6)
  <1>1. todo \in SUBSET Entries
    BY DEF TypeOK
  <1>2. IsFiniteSet(todo) /\ Cardinality(todo) <= Cardinality(Entries)
    BY <1>1, FS_Subset
  <1>3. Cardinality(Entries) \in Nat /\ Cardinality(todo) \in Nat
    BY <1>2, FS_CardinalityType
  <1> QED
    BY <1>2, <1>3 DEF StepsLeft

(* Every step of Run is one of those left, also one that the system fails. *)
LEMMA RunAdvances ==
  ASSUME IsFiniteSet(Entries), IInv, IInv', Run \/ OSFails
  PROVE  StepsLeft' < StepsLeft
  <1> DEFINE n == Cardinality(Entries)
             k == Cardinality(todo)
  <1>1. n \in Nat /\ k \in 0..n /\ IsFiniteSet(todo)
    BY StepsType DEF IInv
  <1>2. Cardinality(todo') \in 0..n
    <2>1. todo' \in SUBSET Entries
      BY DEF IInv, TypeOK
    <2>2. IsFiniteSet(todo') /\ Cardinality(todo') <= n
      BY <2>1, FS_Subset
    <2> QED
      BY <1>1, <2>2, FS_CardinalityType
  <1> HIDE DEF n, k
  <1>3. CASE NotFound \/ StatDir \/ StatFile
    <2>1. pc = "stat" /\ pc' \in {"returned", "readdir", "open"}
      BY <1>3 DEF NotFound, StatDir, StatFile, Returns, Goes, Leaves
    <2>2. StepsLeft = n + 6 /\ StepsLeft' \in {1, n + 5, 5}
      BY <2>1 DEF StepsLeft, n
    <2> QED
      BY <1>1, <2>2
  <1>4. CASE ReadNames
    <2>1. pc = "readdir" /\ pc' = "lstat"
      BY <1>4 DEF ReadNames, Goes, Leaves
    <2>2. StepsLeft = n + 5 /\ StepsLeft' = Cardinality(todo') + 2
      BY <2>1 DEF StepsLeft, n
    <2> QED
      BY <1>1, <1>2, <2>2
  <1>5. ASSUME NEW e \in Entries, Lstat(e) PROVE StepsLeft' < StepsLeft
    <2>1. pc = "lstat" /\ pc' = "lstat" /\ e \in todo /\ todo' = todo \ {e}
      BY <1>5 DEF Lstat, Goes, Leaves
    <2>2. Cardinality(todo') = k - 1
      BY <1>1, <2>1, FS_RemoveElement DEF k
    <2>3. StepsLeft = k + 2 /\ StepsLeft' = Cardinality(todo') + 2
      BY <2>1 DEF StepsLeft, k
    <2> QED
      BY <1>1, <2>2, <2>3
  <1>6. CASE ReadDirFails \/ Lists
    <2>1. pc \in {"readdir", "lstat"} /\ pc' = "returned"
      BY <1>6 DEF ReadDirFails, Lists, Returns, Goes, Leaves
    <2>2. StepsLeft' = 1 /\ StepsLeft \in {n + 5, k + 2}
      BY <2>1 DEF StepsLeft, n, k
    <2> QED
      BY <1>1, <2>2
  <1>7. CASE Opens \/ OpenFails
    <2>1. pc = "open" /\ pc' \in {"read", "returned"}
      BY <1>7 DEF Opens, OpenFails, Returns, Goes, Leaves
    <2> QED
      BY <2>1 DEF StepsLeft
  <1>8. CASE Reads
    <2>1. /\ pc = "read" /\ pc' = IF Len(content) = 1 THEN "output" ELSE "read"
          /\ content' = Append(content, blocks[Source][Len(content) + 1])
      BY <1>8 DEF Reads, Goes, Leaves
    <2>2. content = <<>> \/ content \in [1..1 -> Blocks]
      BY <2>1 DEF IInv, TypeOK, FileRead
    <2>3. CASE content = <<>>
      <3>1. pc' = "read" /\ content' # <<>>
        BY <2>1, <2>3
      <3> QED
        BY <2>1, <2>3, <3>1 DEF StepsLeft
    <2>4. CASE content \in [1..1 -> Blocks]
      <3>1. content # <<>> /\ Len(content) = 1
        BY <2>4
      <3> QED
        BY <2>1, <3>1 DEF StepsLeft
    <2> QED
      BY <2>2, <2>3, <2>4
  <1>9. CASE OutputFails \/ Responds
    <2>1. pc = "output" /\ pc' = "returned"
      BY <1>9 DEF OutputFails, Responds, Returns, Goes, Leaves
    <2> QED
      BY <2>1 DEF StepsLeft
  <1>10. CASE Write
    <2>1. pc = "returned" /\ pc' = "done"
      BY <1>10 DEF Write
    <2> QED
      BY <2>1 DEF StepsLeft
  <1>11. CASE OSFails
    <2>1. pc \in {"stat", "readdir", "lstat", "open", "read"} /\ pc' = "returned"
      BY <1>11 DEF OSFails, Leaves
    <2>2. StepsLeft' = 1 /\ StepsLeft \in {n + 6, n + 5, k + 2, 5, 4, 3}
      BY <2>1 DEF StepsLeft, n, k
    <2> QED
      BY <1>1, <2>2
  <1> QED
    BY <1>3, <1>4, <1>5, <1>6, <1>7, <1>8, <1>9, <1>10, <1>11 DEF Run

(* A request for a directory of n entries is answered after at most n + 6  *)
(* steps of its own, one for a file after at most six; whatever is done to *)
(* the files meanwhile neither takes a step back nor adds one.             *)
THEOREM RunsEnd == ASSUME IsFiniteSet(Entries) PROVE Spec => TakesFewSteps
  <1>1. ASSUME IInv, IInv', [Next]_vars
        PROVE  /\ pc' # "idle" => StepsLeft' \in 0..(Cardinality(Entries) + 6)
               /\ Run \/ OSFails => StepsLeft' < StepsLeft
               /\ Others => StepsLeft' = StepsLeft
    <2>1. StepsLeft' \in 0..(Cardinality(Entries) + 6)
      <3>1. todo' \in SUBSET Entries
        BY <1>1 DEF IInv, TypeOK
      <3>2. IsFiniteSet(todo') /\ Cardinality(todo') <= Cardinality(Entries)
        BY <3>1, FS_Subset
      <3>3. Cardinality(Entries) \in Nat /\ Cardinality(todo') \in Nat
        BY <3>2, FS_CardinalityType
      <3> QED
        BY <3>2, <3>3 DEF StepsLeft
    <2>2. ASSUME Others PROVE StepsLeft' = StepsLeft
      <3>1. UNCHANGED <<pc, todo, content>>
        BY <2>2 DEF Others, Removes, MakesDir, Places, Writes, Becomes, reading
      <3> QED
        BY <3>1 DEF StepsLeft
    <2> QED
      BY <1>1, <2>1, <2>2, RunAdvances
  <1>2. Spec => [][Next]_vars
    BY PTL DEF Spec
  <1> QED
    BY <1>1, <1>2, Invariance, PTL DEF TakesFewSteps
=============================================================================
