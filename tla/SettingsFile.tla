---------------------------- MODULE SettingsFile ----------------------------
(***************************************************************************)
(* The settings: settings.json on disk (src/config.rs) and the live        *)
(* snapshot the server and the engine share (put_config in src/server.rs,  *)
(* main in src/main.rs, the automatic registration in src/mcp.rs).  Of the *)
(* settings only the list of repositories, the schema version and the      *)
(* fields a migration introduces are told apart.                           *)
(*                                                                         *)
(* Three kinds of task read or write the file without a lock: GET          *)
(* /api/config and the MCP tool load it (and a load may write it), PUT     *)
(* /api/config replaces it.  Every file operation is a step of its own.    *)
(***************************************************************************)
EXTENDS Naturals, Sequences, FiniteSets, SequencesExt

CONSTANTS
  Spellings,       (* Ways to write the path of a repository.              *)
  Norm,            (* Norm[s]: what normalize_repo_path makes of s.        *)
  Clients,         (* Slots for concurrent requests.                       *)
  CurrentVersion,  (* The schema version of this binary (6 in the code).   *)
  MaxWrites        (* Bound on requests and hand edits in a behaviour.     *)

Repos == {Norm[s] : s \in Spellings}

(* What the checked instances assume of the constants.                     *)
SettingsAssumption ==
  /\ Repos \subseteq Spellings
  /\ \A r \in Repos : Norm[r] = r
  /\ CurrentVersion \in Nat \ {0}
  /\ MaxWrites \in Nat

VARIABLES
  file,    (* The document in settings.json.                               *)
  mem,     (* The repositories of the live settings.                       *)
  up,      (* Is the process running?                                      *)
  pc,      (* pc[c]: where the request (or the boot) c is.                 *)
  goal,    (* goal[c]: what c loads the file for.                          *)
  doc,     (* doc[c]: the document c has in hand.                          *)
  owed,    (* owed[c]: the new repositories c has still to trigger.        *)
  age,     (* age[r]: how often r has entered the live settings.           *)
  saved,   (* History: the repository lists that were ever in the file.    *)
  writes   (* Requests and hand edits so far.                              *)

vars == <<file, mem, up, pc, goal, doc, owed, age, saved, writes>>

(***************************************************************************)
(* Documents.  Version v introduces field v, so a document written by      *)
(* version v has the fields 2 .. v; a hand-written one may lack some.      *)
(***************************************************************************)
Absent == [kind |-> "absent", version |-> 0, fields |-> {}, repos |-> <<>>]
Corrupt == [Absent EXCEPT !.kind = "corrupt"]
Document(v, repos) ==
  [kind |-> "json", version |-> v, fields |-> 2 .. v, repos |-> repos]

(* A migration step adds the field its version introduces.                 *)
Migrations(from) == {step + 1 : step \in from .. CurrentVersion - 1}

(* The steps from the file's version up, then the stamp.                   *)
Migrated(d) ==
  [d EXCEPT !.fields = @ \cup Migrations(d.version), !.version = CurrentVersion]

Normalised(list) == [i \in DOMAIN list |-> Norm[list[i]]]

(* The name r is in the list before any q.                                 *)
Before(list, r, q) ==
  \E i \in DOMAIN list : list[i] = r /\ \A j \in 1 .. i : list[j] # q

(* The lists with the same names, each once, in the order of first places. *)
Deduplicated(list) ==
  {kept \in [1 .. Cardinality(Range(list)) -> Range(list)] :
     /\ Range(kept) = Range(list)
     /\ \A i, j \in DOMAIN kept : i < j => Before(list, kept[i], kept[j])}

(* Each repository once, at its first place: there is one such list.       *)
Canonical(list) == CHOOSE kept \in Deduplicated(Normalised(list)) : TRUE

Lists == SeqOf(Spellings, 2)
RepoLists == SeqOf(Repos, 3)

TypeOK ==
  /\ file.kind \in {"absent", "corrupt", "json"}
  /\ file.version \in 0 .. CurrentVersion + 1
  /\ file.repos \in SeqOf(Spellings, 3)
  /\ mem \in RepoLists
  /\ up \in BOOLEAN
  /\ pc \in [Clients -> {"idle", "bootstrap", "read", "resave", "normalise",
                         "loaded", "failed", "persist", "swap", "register"}]
  /\ goal \in [Clients -> Repos \cup {"get", "boot", "put"}]
  /\ \A c \in Clients : doc[c].repos \in SeqOf(Spellings, 3)
  /\ \A c \in Clients : pc[c] # "register" => owed[c] = {}
  /\ age \in [Repos -> 0 .. MaxWrites + 1]
  /\ writes \in 0 .. MaxWrites
  /\ ~up => \A c \in Clients : pc[c] # "idle" => goal[c] = "boot"

(* What a user may have left in the file.                                  *)
HandWritten ==
  {Absent, Corrupt}
    \cup {Document(v, list) : v \in {1, CurrentVersion + 1},
                              list \in {<<>>} \cup {<<s>> : s \in Spellings}}
    \cup {[Document(CurrentVersion, list) EXCEPT !.fields = {}] : list \in Lists}

Init ==
  /\ file \in HandWritten
  /\ mem = <<>> /\ up = FALSE
  /\ pc = [c \in Clients |-> "idle"]
  /\ goal = [c \in Clients |-> "get"]
  /\ doc = [c \in Clients |-> Absent]
  /\ owed = [c \in Clients |-> {}]
  /\ age = [r \in Repos |-> 0]
  /\ saved = {file.repos}
  /\ writes = 0

-----------------------------------------------------------------------------
(* write_settings_atomic: the rename makes the new document visible.  A    *)
(* step that fails before it leaves the old one; the last step, the        *)
(* permissions, may fail with the new one in place.                        *)
WriteFile(d) == file' = d /\ saved' = saved \cup {d.repos}
Unwritten == UNCHANGED <<file, saved>>

Goto(c, step) == pc' = [pc EXCEPT ![c] = step]

(* ensure_dir_and_load, for GET /api/config, for the automatic             *)
(* registration of repository g and for main.                              *)
Load(c, g) ==
  /\ pc[c] = "idle"
  /\ IF g = "boot" THEN ~up /\ \A d \in Clients : pc[d] = "idle" ELSE up
  /\ writes < MaxWrites /\ writes' = writes + 1
  /\ goal' = [goal EXCEPT ![c] = g]
  /\ Goto(c, "bootstrap")
  /\ UNCHANGED <<file, mem, up, doc, owed, age, saved>>

Bootstrap(c) ==
  /\ pc[c] = "bootstrap"
  /\ \/ file.kind # "absent" /\ Unwritten /\ Goto(c, "read")
     \/ /\ file.kind = "absent"
        /\ \/ WriteFile(Document(CurrentVersion, <<>>)) /\ Goto(c, "read")
           \/ WriteFile(Document(CurrentVersion, <<>>)) /\ Goto(c, "failed")
           \/ Unwritten /\ Goto(c, "failed")
  /\ UNCHANGED <<mem, up, goal, doc, owed, age, writes>>

ReadFile(c) ==
  /\ pc[c] = "read"
  /\ LET readable == file.kind = "json" /\ file.version \in 1 .. CurrentVersion
     IN  /\ doc' = [doc EXCEPT ![c] = IF readable THEN Migrated(file) ELSE @]
         /\ Goto(c, IF ~readable THEN "failed"
                    ELSE IF file.version < CurrentVersion THEN "resave"
                    ELSE "normalise")
  /\ UNCHANGED <<file, mem, up, goal, owed, age, saved, writes>>

(* The migrated document replaces whatever is in the file by now.          *)
Resave(c) ==
  /\ pc[c] = "resave"
  /\ \/ WriteFile(doc[c]) /\ Goto(c, "normalise")
     \/ (WriteFile(doc[c]) \/ Unwritten) /\ Goto(c, "failed")
  /\ UNCHANGED <<mem, up, goal, doc, owed, age, writes>>

(* The cleaned list is saved if it differs; a failure is ignored.          *)
Normalise(c) ==
  /\ pc[c] = "normalise"
  /\ LET clean == [doc[c] EXCEPT !.repos = Canonical(@)]
     IN  /\ doc' = [doc EXCEPT ![c] = clean]
         /\ \/ clean.repos # doc[c].repos /\ WriteFile(clean)
            \/ Unwritten
  /\ Goto(c, "loaded")
  /\ UNCHANGED <<mem, up, goal, owed, age, writes>>

(* GET returns the document.                                               *)
Answer(c) ==
  /\ pc[c] \in {"loaded", "failed"} /\ goal[c] = "get"
  /\ Goto(c, "idle")
  /\ UNCHANGED <<file, mem, up, goal, doc, owed, age, saved, writes>>

(* main starts with what it loaded, or exits.                              *)
Boot(c) ==
  /\ pc[c] \in {"loaded", "failed"} /\ goal[c] = "boot"
  /\ up' = (pc[c] = "loaded")
  /\ mem' = IF pc[c] = "loaded" THEN doc[c].repos ELSE mem
  /\ age' = IF pc[c] = "loaded"
            THEN [r \in Repos |-> IF Contains(mem', r) THEN 1 ELSE 0]
            ELSE age
  /\ Goto(c, "idle")
  /\ UNCHANGED <<file, goal, doc, owed, saved, writes>>

(* The MCP tool appends the repository to the document it loaded and       *)
(* writes that; the live settings do not learn of it.                      *)
AutoAdd(c) ==
  /\ pc[c] \in {"loaded", "failed"} /\ goal[c] \in Repos
  /\ \/ /\ pc[c] = "loaded" /\ ~Contains(doc[c].repos, goal[c])
        /\ WriteFile([doc[c] EXCEPT !.repos = Append(@, goal[c]),
                                    !.version = CurrentVersion])
     \/ Unwritten
  /\ Goto(c, "idle")
  /\ UNCHANGED <<mem, up, goal, doc, owed, age, writes>>

-----------------------------------------------------------------------------
(* PUT /api/config: normalised but not deduplicated, then written.         *)
Put(c, list) ==
  /\ up /\ pc[c] = "idle"
  /\ writes < MaxWrites /\ writes' = writes + 1
  /\ doc' = [doc EXCEPT ![c] = Document(CurrentVersion, Normalised(list))]
  /\ goal' = [goal EXCEPT ![c] = "put"]
  /\ Goto(c, "persist")
  /\ UNCHANGED <<file, mem, up, owed, age, saved>>

Persist_SwapsAnyway(c) ==
  /\ pc[c] = "persist"
  /\ WriteFile(doc[c]) \/ Unwritten
  /\ Goto(c, "swap")
  /\ UNCHANGED <<mem, up, goal, doc, owed, age, writes>>

Persist(c) ==
  /\ pc[c] = "persist"
  /\ \/ WriteFile(doc[c]) /\ Goto(c, "swap")
     \/ (WriteFile(doc[c]) \/ Unwritten) /\ Goto(c, "idle")
  /\ UNCHANGED <<mem, up, goal, doc, owed, age, writes>>

(* A repository enters the live settings.                                  *)
Enter ==
  age' = [r \in Repos |->
            IF Contains(mem', r) /\ ~Contains(mem, r) THEN age[r] + 1 ELSE age[r]]

(* The repositories of list that are not live yet, by their places in it.  *)
Claims(list) ==
  {[place |-> i, repo |-> list[i], age |-> age'[list[i]]] :
     i \in {j \in DOMAIN list : ~Contains(mem, list[j])}}

Swap_StoresLater(c) ==
  /\ pc[c] = "swap"
  /\ mem' = mem
  /\ Enter
  /\ owed' = [owed EXCEPT ![c] = Claims(doc[c].repos)]
  /\ Goto(c, "register")
  /\ UNCHANGED <<file, up, goal, doc, saved, writes>>

(* The difference is taken against the list that is replaced, and both     *)
(* under one write lock.                                                   *)
Swap(c) ==
  /\ pc[c] = "swap"
  /\ mem' = doc[c].repos
  /\ Enter
  /\ owed' = [owed EXCEPT ![c] = Claims(doc[c].repos)]
  /\ Goto(c, "register")
  /\ UNCHANGED <<file, up, goal, doc, saved, writes>>

(* register_repo and trigger_index for the first repository left, or the   *)
(* answer.                                                                 *)
RegisterAdded(c) ==
  /\ pc[c] = "register"
  /\ \/ /\ \E first \in owed[c] :
             /\ \A claim \in owed[c] : first.place <= claim.place
             /\ owed' = [owed EXCEPT ![c] = @ \ {first}]
        /\ UNCHANGED pc
     \/ /\ owed[c] = {}
        /\ Goto(c, "idle")
        /\ UNCHANGED owed
  /\ UNCHANGED <<file, mem, up, goal, doc, age, saved, writes>>

-----------------------------------------------------------------------------
(* The user edits the file with the process up or down.                    *)
HandEdit ==
  /\ writes < MaxWrites /\ writes' = writes + 1
  /\ \E d \in HandWritten : WriteFile(d)
  /\ UNCHANGED <<mem, up, pc, goal, doc, owed, age>>

(* The process dies between any two steps.                                 *)
Crash ==
  /\ up' = FALSE /\ mem' = <<>>
  /\ \/ up
     \/ \E c \in Clients : pc[c] # "idle"
  /\ pc' = [c \in Clients |-> "idle"]
  /\ owed' = [c \in Clients |-> {}]
  /\ UNCHANGED <<file, goal, doc, age, saved, writes>>

Next ==
  \/ \E c \in Clients :
       \/ \E g \in Repos \cup {"get", "boot"} : Load(c, g)
       \/ Bootstrap(c) \/ ReadFile(c) \/ Resave(c) \/ Normalise(c)
       \/ Answer(c) \/ Boot(c) \/ AutoAdd(c)
       \/ \E list \in Lists : Put(c, list)
       \/ Persist(c) \/ Swap(c) \/ RegisterAdded(c)
  \/ HandEdit
  \/ Crash

Spec == Init /\ [][Next]_vars

-----------------------------------------------------------------------------
(* The live settings are never ahead of the file: the list every task      *)
(* works with has been in settings.json, whichever writes failed and       *)
(* whichever requests interleaved (server.rs: "Memory is only updated on   *)
(* success").                                                              *)
MemoryWasSaved ==
  up => LET live == Canonical(mem)
        IN  \E list \in saved : Canonical(list) = live

(* Two concurrent PUTs that add the same repository do not both trigger    *)
(* its initial index: each entry of a repository into the live settings is *)
(* claimed by one request (server.rs: "closes the PUT/PUT race").          *)
AddedOnce ==
  \A c, d \in Clients :
    c # d => \A x \in owed[c], y \in owed[d] :
               <<x.repo, x.age>> # <<y.repo, y.age>>
=============================================================================
