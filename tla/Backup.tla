------------------------------- MODULE Backup -------------------------------
(***************************************************************************)
(* Backup, restore and diagnostics (core/backup.go).  None of it holds     *)
(* m.mu: packages are read from the files on disk, one after the other,    *)
(* while handlers commit, and a restore replaces them one after the other: *)
(*                                                                         *)
(*   backup   create the archive -> config.yaml -> nodetools.db            *)
(*   restore  the same, as a safety copy -> each part of the upload: copy  *)
(*            to <name>.restore.tmp, rename -> LoadConfig -> ApplyConfig   *)
(*                                                                         *)
(* An archive is named after the second in which it is begun, and what a   *)
(* request has archived is kept with the request.  Any step may fail,      *)
(* which ends the request.  The certificates are unpacked as config.yaml   *)
(* is and are not in the model; of the database, whether it is whole is.   *)
(*                                                                         *)
(* Bounds: Requests at a time; MaxEvents requests, commits of handlers and *)
(* of the watcher, diagnostic packages and restarts together.              *)
(***************************************************************************)
EXTENDS Naturals

CONSTANTS
  Texts,         \* what configurations say
  First, Edits,  \* ... at first, and what handlers make of them
  Uploaded,      \* ... in the packages that users send
  Invalid,       \* ... that LoadConfig refuses
  Cut,           \* ... and what a half-written one may be read as
  Torn,          \* a file that is half written
  Absent,
  Requests, MaxEvents

ASSUME BackupAssumption ==
  /\ Edits \cup Uploaded \cup {First} \subseteq Texts
  /\ Invalid \in Texts \ (Edits \cup {First})
  /\ Cut \subseteq Texts \ {Invalid}
  /\ Torn # Absent
  /\ MaxEvents \in Nat

(* hidden: the secrets read <redacted>. *)
Config == [text: Texts, hidden: BOOLEAN]
Whole  == "whole"
ASSUME FilesAssumption == {Torn, Absent} \cap (Config \cup {Whole}) = {}

Plain(t) == [text |-> t, hidden |-> FALSE]
Parts    == {"config", "database"}
Package  == [config: {Plain(t) : t \in Uploaded} \cup {Absent},
             database: {Whole, Absent}]

ConfigFile == Config \cup {Torn}
Files      == [config: ConfigFile, database: {Whole, Torn}]

VARIABLES
  disk,      \* config.yaml and nodetools.db
  memory,    \* m.cfg
  saving,    \* the commit that is writing config.yaml, and whether the file
             \* that it has open is still the one of that name
  req,       \* what each request is doing
  events

vars == <<disk, memory, saving, req, events>>

Saving == [config: Config, here: BOOLEAN]
NoSave == [config |-> Absent, here |-> FALSE]

(* current: the request was begun in the second that it is now.            *)
(* archive: config.yaml in its archive, until another one takes the name   *)
(* (mixed).                                                                *)
(* shared: another restore was copying the same part at the same time.     *)
(* before and dirty are not in the code: the config.yaml that the restore  *)
(* has replaced, and whether others wrote it after it was archived.        *)
Steps   == {"config", "database", "unpack", "copyConfig", "copyDatabase",
            "load", "apply"}
Request == [pc: Steps, upload: Package, left: SUBSET Parts,
            current: BOOLEAN, archive: ConfigFile \cup {Absent},
            mixed: BOOLEAN, shared: BOOLEAN, loaded: Config \cup {Absent},
            before: ConfigFile \cup {Absent}, dirty: BOOLEAN]
Nothing == [p \in Parts |-> Absent]
Idle    == [pc |-> "idle"]

(* Types: while a commit writes config.yaml, the file is not whole.        *)
TypeOK ==
  /\ disk \in Files
  /\ memory \in Config
  /\ saving \in Saving \cup {NoSave}
  /\ saving.here => disk.config = Torn
  /\ req \in [Requests -> Request \cup {Idle}]
  /\ events \in 0..MaxEvents

Init ==
  /\ disk = [config |-> Plain(First), database |-> Whole]
  /\ memory = Plain(First)
  /\ saving = NoSave
  /\ req = [r \in Requests |-> Idle]
  /\ events = 0

----------------------------------------------------------------------------
At(r, step) == req[r].pc = step
Event       == events < MaxEvents /\ events' = events + 1

(* config.yaml is no longer what the requests in S have archived.          *)
Dirtied(rs, S) ==
  [x \in Requests |->
     IF x \in S /\ rs[x].pc \notin {"idle", "config"} THEN [rs[x] EXCEPT !.dirty = TRUE] ELSE rs[x]]

(* LoadConfig: a file that is cut, or empty, may load as something else.   *)
ReadAs(c) ==
  IF c = Torn THEN [text: Cut, hidden: {FALSE, memory.hidden}]
  ELSE {c} \ [text: {Invalid}, hidden: BOOLEAN]

----------------------------------------------------------------------------
(* Commits, under m.mu: SaveConfig truncates config.yaml and writes it,    *)
(* then a row of history goes where the connections lead.                  *)

Save(c) ==
  /\ saving = NoSave
  /\ saving' = [config |-> c, here |-> TRUE]
  /\ disk' = [disk EXCEPT !.config = Torn]

(* Any handler: what it does not touch stays as it is in m.cfg.            *)
HandlerSaves(t) ==
  /\ Event
  /\ Save([memory EXCEPT !.text = t])
  /\ req' = Dirtied(req, Requests)
  /\ UNCHANGED <<memory>>

SaveEnds ==
  /\ saving # NoSave
  /\ saving' = NoSave
  /\ memory' = saving.config
  /\ disk' = [disk EXCEPT !.config = IF saving.here THEN saving.config ELSE @]
  /\ req' = Dirtied(req, Requests)
  /\ UNCHANGED <<events>>

(* The file or the database cannot be written: m.cfg is rolled back, the   *)
(* file is not.                                                            *)
SaveFails ==
  /\ saving # NoSave
  /\ saving' = NoSave
  /\ \E c \in {disk.config, saving.config} :
       disk' = [disk EXCEPT !.config = IF saving.here THEN c ELSE @]
  /\ req' = Dirtied(req, Requests)
  /\ UNCHANGED <<memory, events>>

(* The reload of WatchConfig, of a file that a restore has replaced.       *)
WatcherReloads ==
  /\ disk.config # memory
  /\ Event
  /\ \E c \in ReadAs(disk.config) : Save(c)
  /\ req' = Dirtied(req, Requests)
  /\ UNCHANGED <<memory>>

(* redactConfig overwrites elements of the slices which ConfigSnapshot     *)
(* shares with m.cfg.                                                      *)
CreateDiagnosticPackage ==
  /\ Event
  /\ saving = NoSave
  /\ memory' = [memory EXCEPT !.hidden = TRUE]
  /\ UNCHANGED <<disk, saving, req>>

----------------------------------------------------------------------------
(* CreateBackupPackage, also the first step of a restore: os.Create        *)
(* truncates an archive of the same name.  A file that cannot be read is   *)
(* left out of it without an error.                                        *)

Writing(x) == At(x, "config") \/ At(x, "database")

Begin(r, upload) ==
  LET namesakes == {x \in Requests : req[x] # Idle /\ req[x].current}
  IN  /\ At(r, "idle")
      /\ Event
      /\ req' = [x \in Requests |->
           CASE x = r ->
                  [pc |-> "config", upload |-> upload, left |-> {},
                   current |-> TRUE, archive |-> Absent,
                   mixed |-> \E y \in namesakes : Writing(y),
                   shared |-> FALSE, loaded |-> Absent, before |-> Absent,
                   dirty |-> FALSE]
             [] x \in namesakes -> [req[x] EXCEPT !.mixed = TRUE]
             [] OTHER -> req[x]]
      /\ UNCHANGED <<disk, memory, saving>>

(* Mutant of ReadConfig: of the configuration, what the manager has.       *)
ReadConfigOfManager(r) ==
  /\ At(r, "config")
  /\ req' = [req EXCEPT ![r].pc = "database", ![r].archive = memory]
  /\ UNCHANGED <<disk, memory, saving, events>>

ReadConfig(r) ==
  /\ At(r, "config")
  /\ \E c \in {disk.config, Absent} :
       req' = [req EXCEPT ![r].pc = "database", ![r].archive = c]
  /\ UNCHANGED <<disk, memory, saving, events>>

Given(upload) == {p \in Parts : upload[p] # Absent}

ReadDatabase(r) ==
  /\ At(r, "database")
  /\ req' = [req EXCEPT ![r] =
       IF @.upload = Nothing THEN Idle
       ELSE [@ EXCEPT !.pc = "unpack", !.left = Given(req[r].upload)]]
  /\ UNCHANGED <<disk, memory, saving, events>>

----------------------------------------------------------------------------
(* restoreZipFile: two restores write to one temporary file, and what the  *)
(* first renames is still being written to by the second.                  *)

Copying(p)   == IF p = "config" THEN "copyConfig" ELSE "copyDatabase"
Copiers(r, p) == {x \in Requests \ {r} : At(x, Copying(p))}

(* Mutant of CopyBegins: the file is truncated and written in place.       *)
CopyBeginsInPlace(r, p) ==
  /\ At(r, "unpack")
  /\ p \in req[r].left
  /\ req' = [req EXCEPT ![r].pc = Copying(p), ![r].left = @ \ {p}]
  /\ disk' = [disk EXCEPT ![p] = Torn]
  /\ UNCHANGED <<memory, saving, events>>

CopyBegins(r, p) ==
  /\ At(r, "unpack")
  /\ p \in req[r].left
  /\ req' = [x \in Requests |->
       CASE x = r -> [req[r] EXCEPT !.pc = Copying(p), !.left = @ \ {p},
                                    !.shared = Copiers(r, p) # {}]
         [] x \in Copiers(r, p) -> [req[x] EXCEPT !.shared = TRUE]
         [] OTHER -> req[x]]
  /\ UNCHANGED <<disk, memory, saving, events>>

Copied(r, p) ==
  IF req[r].shared THEN {req[r].upload[p], disk[p], Torn} ELSE {req[r].upload[p]}

(* The next part, or LoadConfig when config.yaml was among them.           *)
Advanced(r) ==
  CASE req[r].left # {} -> [req[r] EXCEPT !.pc = "unpack", !.shared = FALSE]
    [] req[r].left = {} /\ req[r].upload.config # Absent ->
         [req[r] EXCEPT !.pc = "load", !.shared = FALSE]
    [] OTHER -> Idle

CopyEndsOf(r, p) ==
  /\ At(r, Copying(p))
  /\ \E c \in Copied(r, p) : disk' = [disk EXCEPT ![p] = c]
  /\ LET done == [req EXCEPT ![r] = Advanced(r)]
     IN  req' = IF p = "database" THEN done
                ELSE [Dirtied(done, Requests \ {r}) EXCEPT ![r].before = disk.config]
  /\ UNCHANGED <<memory, events>>

(* Mutant of CopyEnds: the copy is written over the file.                  *)
CopyEndsInPlace(r, p) == CopyEndsOf(r, p) /\ UNCHANGED saving

(* The rename: a commit goes on writing to the file that had the name.     *)
CopyEnds(r, p) ==
  /\ CopyEndsOf(r, p)
  /\ saving' = [saving EXCEPT !.here = @ /\ p # "config"]

(* LoadConfig reads what is there by now.                                  *)
LoadRestored(r) ==
  /\ At(r, "load")
  /\ \/ \E c \in ReadAs(disk.config) :
          req' = [req EXCEPT ![r].pc = "apply", ![r].loaded = c]
     \/ /\ disk.config = Torn \/ ReadAs(disk.config) = {}
        /\ req' = [req EXCEPT ![r] = Idle]
  /\ UNCHANGED <<disk, memory, saving, events>>

ApplyRestored(r) ==
  /\ At(r, "apply")
  /\ Save(req[r].loaded)
  /\ req' = Dirtied([req EXCEPT ![r] = Idle], Requests)
  /\ UNCHANGED <<memory, events>>

(* Any step fails, and what was replaced before it stays replaced.         *)
RestoreFails(r) ==
  /\ req[r] # Idle
  /\ req' = [req EXCEPT ![r] = Idle]
  /\ UNCHANGED <<disk, memory, saving, events>>

SecondPasses ==
  /\ req' = [r \in Requests |->
       IF req[r] = Idle THEN Idle ELSE [req[r] EXCEPT !.current = FALSE]]
  /\ UNCHANGED <<disk, memory, saving, events>>

(* The agent dies or is restarted; it starts again if config.yaml loads,   *)
(* and saves what it has read.                                             *)
Restart ==
  /\ Event
  /\ \E c \in IF saving.here THEN {disk.config, saving.config}
              ELSE {disk.config} :
       \E read \in ReadAs(c) :
         /\ disk' = [disk EXCEPT !.config = read]
         /\ memory' = read
  /\ saving' = NoSave
  /\ req' = [r \in Requests |-> Idle]

Next ==
  \/ \E t \in Edits : HandlerSaves(t)
  \/ SaveEnds \/ SaveFails \/ WatcherReloads
  \/ CreateDiagnosticPackage \/ SecondPasses \/ Restart
  \/ \E r \in Requests :
       \/ \E u \in Package : Begin(r, u)
       \/ ReadConfig(r) \/ ReadDatabase(r)
       \/ \E p \in Parts : CopyBegins(r, p) \/ CopyEnds(r, p)
       \/ LoadRestored(r) \/ ApplyRestored(r) \/ RestoreFails(r)

Spec == Init /\ [][Next]_vars

----------------------------------------------------------------------------
(* What a restore has put in the place of config.yaml can be taken back:   *)
(* the file that was there is in the safety copy, unless it could not be   *)
(* read, another package was begun in the same second, or a commit or      *)
(* another restore wrote the file after it was archived.                   *)
SafetyCopyHolds ==
  \A r \in Requests :
    /\ req[r] # Idle
    /\ req[r].before # Absent
    /\ ~req[r].dirty
    /\ ~req[r].mixed
    => req[r].archive \in {req[r].before, Absent}

(* A file becomes half written only while a commit saves it or two         *)
(* restores copy the same part: never because one restore failed, or died  *)
(* on its way, whatever else was going on.                                 *)
FilesStayWhole ==
  [][\A p \in Parts :
       disk'[p] = Torn /\ disk[p] # Torn =>
         \/ p = "config" /\ saving' # NoSave
         \/ \E r \in Requests : req[r] # Idle /\ req[r].shared]_vars

(* A backup contains the configuration; diagnostic packages are those that *)
(* hide its secrets (web/templates/dashboard.html, line 255).              *)
BackupHoldsSecrets ==
  \A r \in Requests :
    req[r] # Idle /\ req[r].archive \in Config => ~req[r].archive.hidden

============================================================================
