------------------------------ MODULE Filesystem ------------------------------
(***************************************************************************)
(* A request that is served by a filesystem task, from its query           *)
(* parameters to the bytes sent: FilesystemTask.Run looks at a path, then  *)
(* lists the directory or reads the file that is there by then, and makes  *)
(* a response of it.  The task runs by itself or embedded in a multi task. *)
(*                                                                         *)
(* Meanwhile others change the file system: they create, remove, replace   *)
(* (rename over) and write files.  It has one directory, Root, with        *)
(* entries.  A file is an inode with two blocks, which are read one after  *)
(* the other.  Runs only read the file system, so one at a time is         *)
(* modelled.                                                               *)
(***************************************************************************)
EXTENDS Naturals, Sequences, Responses, QueryParams

CONSTANTS
  Root,         (* the path of the directory                               *)
  Entries,      (* the paths in it                                         *)
  Inodes,       (* files                                                   *)
  Blocks,       (* contents of a block                                     *)
  Absent, Dir,  (* nothing, or a directory, is at a path                   *)
  NoInode,      (* no file is open                                         *)
  Configs,      (* configurations of the task and its parameters           *)
  Trees,        (* what may be at each path to begin with                  *)
  Contents,     (* what may be in each inode then                          *)
  Asked,        (* the paths clients ask for, where the url decides        *)
  RawValues,    (* the values that mean raw, trimmed and in lower case     *)
  MaxChanges    (* bound on the changes of the file system                 *)

Paths == {Root} \cup Entries
Nodes == {Absent, Dir} \cup Inodes
Whole == [1..2 -> Blocks]

(* Entries need their directory. *)
IsTree(f) == f[Root] # Dir => \A e \in Entries : f[e] = Absent

(* What is at a path, for an inode: its content. *)
Sights == {Absent, Dir} \cup Whole
Items  == [name : Entries, is_dir : BOOLEAN]

(* A template is "plain", stands for a value of the request, or "broken". *)
FilesystemConfigs ==
  [file : {"plain", "url", "broken"}, directory : {"plain", "broken"}, path : Paths,
   index : BOOLEAN, output : {"plain", "raw", "query", "broken"}, embedded : BOOLEAN,
   endpoint : Seq(ParamConfigs) \cup {Unconfigured},
   method : Seq(ParamConfigs) \cup {Unconfigured}]

ASSUME FilesystemAssumption ==
  /\ Configs \subseteq FilesystemConfigs
  /\ Root \notin Entries /\ Asked \subseteq Paths
  /\ Trees \subseteq {f \in [Paths -> Nodes] : IsTree(f)}
  /\ Contents \subseteq [Inodes -> Whole]
  /\ Absent # Dir /\ NoInode \notin Inodes /\ {Absent, Dir} \cap (Inodes \cup Whole) = {}
  /\ Bytes = Whole
  /\ "output" \in Names /\ "" \notin RawValues
  /\ MaxChanges \in Nat

VARIABLES
  config,    (* of the route                                               *)
  fs,        (* what is at each path                                       *)
  blocks,    (* the content of each inode                                  *)
  changes,   (* how often the file system changed                          *)
  pc,        (* where Run is                                               *)
  query,     (* the query the client sent                                  *)
  target,    (* the path the templates make                                *)
  params,    (* the cleaned query parameters                               *)
  todo,      (* names ReadDir still looks at                               *)
  items,     (* what it found                                              *)
  open,      (* the file ReadFile opened                                   *)
  content,   (* the blocks it read                                         *)
  reply,     (* the response of Run                                        *)
  wire,      (* what was sent                                              *)
  sights,    (* what was at the target at some time since the run began    *)
  listed,    (* the entries, with their kinds, of some time since then     *)
  lasting,   (* those that were there all the time                         *)
  torn,      (* the open file was written in place                         *)
  denied     (* the system refused a call, whatever is at the path         *)

storage   == <<fs, blocks, changes>>
reading   == <<todo, items, open, content>>
histories == <<sights, listed, lasting, torn>>
vars ==
  <<config, storage, pc, query, target, params, reading, reply, wire, histories, denied>>

-----------------------------------------------------------------------------
(* THE FILE SYSTEM *)

IsDir(node)       == node = Dir
Sight(f, b, path) == IF f[path] \in Inodes THEN b[f[path]] ELSE f[path]
Listing(f) ==
  {[name |-> e, is_dir |-> IsDir(f[e])] : e \in {x \in Entries : f[x] # Absent}}

Running == pc \notin {"idle", "done"}

(* The file system becomes f with contents b. *)
Becomes(f, b) ==
  /\ changes < MaxChanges
  /\ changes' = changes + 1
  /\ fs' = f /\ blocks' = b
  /\ sights'  = IF Running THEN sights \cup {Sight(f, b, target)} ELSE sights
  /\ listed'  = IF Running THEN listed \cup Listing(f) ELSE listed
  /\ lasting' = IF Running THEN lasting \cap Listing(f) ELSE lasting
  /\ torn'    = (torn \/ (open # NoInode /\ b[open] # blocks[open]))
  /\ UNCHANGED <<config, pc, query, target, params, reading, reply, wire, denied>>

Put(path, node) == [fs EXCEPT ![path] = node]

(* Inodes of removed files stay while they are open. *)
Free(i) == i # open /\ \A p \in Paths : fs[p] # i

Removes(path) ==
  /\ fs[path] # Absent
  /\ Becomes(IF path = Root THEN [p \in Paths |-> Absent] ELSE Put(path, Absent), blocks)

MakesDir(path) ==
  /\ fs[path] = Absent /\ (path # Root => fs[Root] = Dir)
  /\ Becomes(Put(path, Dir), blocks)

(* A new file, or one renamed over an old one. *)
Places(path, i, b) ==
  /\ fs[path] # Dir /\ (path # Root => fs[Root] = Dir) /\ Free(i)
  /\ Becomes(Put(path, i), [blocks EXCEPT ![i] = <<b, b>>])

Writes(i, k, b) ==
  /\ ~Free(i) /\ blocks[i][k] # b
  /\ Becomes(fs, [blocks EXCEPT ![i][k] = b])

Others ==
  \/ \E p \in Paths : Removes(p) \/ MakesDir(p)
  \/ \E i \in Inodes, b \in Blocks :
       (\E p \in Paths : Places(p, i, b)) \/ (\E k \in 1..2 : Writes(i, k, b))

-----------------------------------------------------------------------------
(* FILESYSTEMTASK.RUN *)

Init ==
  /\ config \in Configs
  /\ fs \in Trees
  /\ blocks \in Contents
  /\ changes = 0
  /\ pc = "idle"
  /\ query = [n \in Names |-> ""]
  /\ target = Root
  /\ params = <<>>
  /\ todo = {} /\ items = {} /\ open = NoInode /\ content = <<>>
  /\ reply = NewResponse(200)
  /\ wire = [status |-> 0, body |-> "nothing"]
  /\ sights = {} /\ listed = {} /\ lasting = {} /\ torn = FALSE
  /\ denied = FALSE

Leaves(from, to) ==
  /\ pc = from /\ pc' = to
  /\ UNCHANGED <<config, storage, query, target, params, wire, histories>>

Goes(from, to) == Leaves(from, to) /\ UNCHANGED denied

Returns(from, response) == Goes(from, "returned") /\ reply' = response

Failed == Error(Status(NewResponse(200), 500), "err")

(* Handle prepares the parameters, Run interpolates file and directory;    *)
(* from then on the histories are kept.                                    *)
Begin(sent, path) ==
  /\ pc = "idle"
  /\ query' = sent
  /\ params' = GetQueryParams(config.endpoint, config.method, sent)
  /\ target' = IF config.file = "url" THEN path ELSE config.path
  /\ IF "broken" \in {config.file, config.directory}
     THEN pc' = "returned" /\ reply' = Failed
     ELSE pc' = "stat" /\ UNCHANGED reply
  /\ sights' = {Sight(fs, blocks, target')}
  /\ listed' = Listing(fs) /\ lasting' = Listing(fs)
  /\ UNCHANGED <<config, storage, reading, wire, torn, denied>>

(* A bug would serve no directory. *)
ServesFilesOnly == fs[target] \notin Inodes
ServesNothing   == fs[target] = Absent \/ (IsDir(fs[target]) /\ ~config.index)

NotFound ==
  /\ ServesNothing
  /\ Returns("stat", Status(NewResponse(200), 404))
  /\ UNCHANGED reading

StatDir ==
  /\ IsDir(fs[target]) /\ config.index
  /\ Goes("stat", "readdir")
  /\ UNCHANGED <<reading, reply>>

StatFile ==
  /\ fs[target] \in Inodes
  /\ Goes("stat", "open")
  /\ UNCHANGED <<reading, reply>>

(* ReadDir reads the names, and then looks at each of them: one that is    *)
(* gone is left out (since Go 1.16 it is an error), one whose directory is *)
(* a file by then is an error.                                             *)
ReadNames ==
  /\ IsDir(fs[target])
  /\ Goes("readdir", "lstat")
  /\ todo' = IF target = Root THEN {e \in Entries : fs[e] # Absent} ELSE {}
  /\ UNCHANGED <<items, open, content, reply>>

(* A bug would not look at the kind. *)
FoundAsFile(e) == IF fs[e] = Absent THEN {} ELSE {[name |-> e, is_dir |-> FALSE]}

Found(e) == IF fs[e] = Absent THEN {} ELSE {[name |-> e, is_dir |-> IsDir(fs[e])]}

Lstat(e) ==
  /\ e \in todo /\ fs[Root] \notin Inodes
  /\ Goes("lstat", "lstat")
  /\ todo' = todo \ {e}
  /\ items' = items \cup Found(e)
  /\ UNCHANGED <<open, content, reply>>

ReadDirFails ==
  /\ \/ ~IsDir(fs[target]) /\ Returns("readdir", Failed)
     \/ (\E e \in todo : fs[Root] \in Inodes \/ fs[e] = Absent) /\ Returns("lstat", Failed)
  /\ UNCHANGED reading

(* A response for each of them is nested in the answer. *)
Shown(item) ==
  AddValue(Result(StripStatusData(NewResponse(200)), item.name), "is_dir", item.is_dir)

Lists ==
  /\ todo = {}
  /\ Returns("lstat", Result(NewResponse(200), {Shown(item) : item \in items}))
  /\ UNCHANGED reading

(* ReadFile opens whatever is there by now; a directory opens, but cannot  *)
(* be read.                                                                *)
Opens ==
  /\ fs[target] \in Inodes
  /\ Goes("open", "read")
  /\ open' = fs[target]
  /\ UNCHANGED <<todo, items, content, reply>>

OpenFailsRetrying ==
  /\ fs[target] \notin Inodes
  /\ Goes("open", "open")
  /\ UNCHANGED <<reading, reply>>

OpenFails ==
  /\ fs[target] \notin Inodes
  /\ Returns("open", Failed)
  /\ UNCHANGED reading

(* Where a read continues: in the file that is open; a bug would look the  *)
(* path up again.                                                          *)
SourceByPath == IF fs[target] \in Inodes THEN fs[target] ELSE open
Source       == open

(* The file is closed after the last block; a bug would forget it. *)
OpenAlways == open
OpenAfter  == IF Len(content) = 1 THEN NoInode ELSE open

Reads ==
  /\ Goes("read", IF Len(content) = 1 THEN "output" ELSE "read")
  /\ content' = Append(content, blocks[Source][Len(content) + 1])
  /\ open' = OpenAfter
  /\ UNCHANGED <<todo, items, reply>>

(* The output is "" if the parameter has no value, or what the template    *)
(* prints for that; neither means raw.                                     *)
Output ==
  IF config.output = "query" /\ "output" \in DOMAIN params THEN params["output"] ELSE ""

IsRaw == config.output = "raw" \/ Output \in RawValues

OutputFails ==
  /\ config.output = "broken"
  /\ Returns("output", Status(Error(NewResponse(200), "err"), 500))
  /\ UNCHANGED reading

Responds ==
  /\ config.output # "broken"
  /\ Returns("output", IF IsRaw THEN Raw(NewResponse(200), content)
                       ELSE AddValue(Result(NewResponse(200), "base64"), "filename", "name"))
  /\ UNCHANGED reading

(* Write, of the response or of that of the multi task around it. *)
Write ==
  /\ pc = "returned" /\ pc' = "done"
  /\ wire' = IF config.embedded THEN Sent(Result(NewResponse(200), "list"), <<reply>>)
             ELSE Sent(reply, <<>>)
  /\ UNCHANGED <<config, storage, query, target, params, reading, reply, histories, denied>>

(* Stat, ReadDir or ReadFile also fail when the system refuses a call for  *)
(* a reason of its own: permissions, too many open files, an I/O error.    *)
(* What was read by then is dropped.                                       *)
OSFails ==
  /\ \/ Leaves("stat", "returned") /\ reply' = Status(NewResponse(200), 404)
     \/ /\ \/ \E from \in {"readdir", "open", "read"} : Leaves(from, "returned")
           \/ todo # {} /\ Leaves("lstat", "returned")
        /\ reply' = Failed
  /\ denied' = TRUE
  /\ open' = NoInode /\ content' = <<>>
  /\ UNCHANGED <<todo, items>>

Run ==
  \/ NotFound \/ StatDir \/ StatFile
  \/ ReadNames \/ (\E e \in Entries : Lstat(e)) \/ ReadDirFails \/ Lists
  \/ Opens \/ OpenFails \/ Reads \/ OutputFails \/ Responds
  \/ Write

Next ==
  \/ \E sent \in [Names -> Values], path \in Asked : Begin(sent, path)
  \/ Run \/ OSFails
  \/ Others

(* The goroutine of the request runs, and a call of the system returns,    *)
(* with or without an error.                                               *)
Spec == Init /\ [][Next]_vars /\ WF_vars(Run)

-----------------------------------------------------------------------------
(* PROPERTIES *)

PCs == {"idle", "stat", "readdir", "lstat", "open", "read", "output", "returned", "done"}

(* Types; entries are in a directory, and a file is open only while it is  *)
(* read.                                                                   *)
TypeOK ==
  /\ config \in Configs
  /\ fs \in [Paths -> Nodes] /\ IsTree(fs)
  /\ blocks \in [Inodes -> Whole]
  /\ changes \in 0..MaxChanges
  /\ pc \in PCs
  /\ query \in [Names -> Values]
  /\ target \in Paths
  /\ DOMAIN params \subseteq Names /\ \A n \in DOMAIN params : params[n] \in Values
  /\ todo \in SUBSET Entries /\ items \in SUBSET Items
  /\ open \in IF pc = "read" THEN Inodes ELSE {NoInode}
  /\ content \in {<<>>} \cup [1..1 -> Blocks] \cup Whole
  /\ reply.status \in {200, 404, 500} /\ reply.raw \in Whole \cup {NoBytes}
  /\ wire.status \in {0, 200, 404, 500} /\ wire.body \in {"raw", "json", "nothing"}
  /\ sights \in SUBSET Sights
  /\ listed \in SUBSET Items /\ lasting \in SUBSET Items
  /\ torn \in BOOLEAN /\ denied \in BOOLEAN

Done   == pc = "done"
Served == Done /\ reply.status = 200

(* The content of an answer was that of the path at one instant of the     *)
(* run, although path and file were looked up twice; a file written in     *)
(* place meanwhile may be a mixture.                                       *)
ContentJustified ==
  Done /\ content # <<>> => torn \/ content \in sights

(* Unless the system refused a call, 404 says that at some instant nothing *)
(* could be served from the path, and 500 that a template is broken or     *)
(* that what is there changed between two looks.  What could not be read   *)
(* is never answered with 200.                                             *)
FailureJustified ==
  Done =>
    /\ reply.status = 404 =>
         denied \/ Absent \in sights \/ (Dir \in sights /\ ~config.index)
    /\ reply.status = 500 =>
         \/ denied
         \/ "broken" \in {config.file, config.directory, config.output}
         \/ \E s, t \in sights : s # t
         \/ listed # lasting
    /\ reply.status = 200 => ~denied

(* A listing has nothing that was not there, as what it was, at some time  *)
(* of the run, and everything that was there all the time.                 *)
ListingJustified ==
  Served /\ content = <<>> =>
    /\ items \subseteq listed
    /\ target = Root => lasting \subseteq items

(* Raw bytes are sent only if the configuration, or a value it lets pass,  *)
(* asks for them.                                                          *)
RawOnlyWhenAsked ==
  Done /\ reply.raw # NoBytes =>
    \/ config.output = "raw"
    \/ /\ config.output = "query"
       /\ Permitted(Level(config.endpoint, config.method), query, "output") \cap RawValues # {}

(* The answer is complete: it has a body, but for a raw file in a multi    *)
(* task, and JSON shows the status of the status line, and an error with   *)
(* 500.                                                                    *)
AnswerComplete ==
  Done =>
    /\ wire.body = "nothing" => config.embedded /\ reply.raw # NoBytes
    /\ ~config.embedded => wire.status = reply.status
    /\ wire.body = "json" =>
         /\ "status" \in DOMAIN reply.data /\ reply.data["status"] = reply.status
         /\ reply.status = 500 <=> "error" \in DOMAIN reply.data

(* Every request is answered, whatever happens to the files.               *)
AlwaysAnswers == (pc # "idle") ~> Done
=============================================================================
