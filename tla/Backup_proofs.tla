--------------------------- MODULE Backup_proofs ---------------------------
(***************************************************************************)
(* Safety of Backup, for every value of its constants: what a restore has  *)
(* replaced is in its safety copy, and no failure leaves a file torn.      *)
(***************************************************************************)
EXTENDS Backup, TLAPS

(* What holds of a request at work while config.yaml is c: it unpacks what *)
(* its upload has, each part once; until it replaces config.yaml, an       *)
(* archive that nobody has made stale is the file that is there, and       *)
(* afterwards the file that was.                                           *)
RequestInv(x, c) ==
  /\ x.left \subseteq Given(x.upload)
  /\ x.pc \in {"config", "database"} => x.left = {} /\ x.before = Absent
  /\ x.pc = "copyConfig" => "config" \in Given(x.upload) \ x.left /\ x.before = Absent
  /\ x.pc = "copyDatabase" => "database" \in Given(x.upload) \ x.left
  /\ x.pc = "apply" => x.loaded # Absent
  /\ "config" \in x.left => x.before = Absent
  /\ ~x.dirty /\ x.pc # "config" =>
       x.archive \in {IF x.before = Absent THEN c ELSE x.before, Absent}

Good(x, c) == x \in Request \cup {Idle} /\ (x # Idle => RequestInv(x, c))

Inv == TypeOK /\ \A r \in Requests : Good(req[r], disk.config)

LEMMA AtWork ==
  ASSUME NEW x \in Request \cup {Idle}
  PROVE  /\ x.pc # "idle" <=> x \in Request
         /\ x # Idle <=> x \in Request
  BY DEF Request, Steps, Idle

LEMMA DiskConfig ==
  ASSUME TypeOK
  PROVE  /\ disk.config \in ConfigFile /\ disk.config # Absent
         /\ \A c \in ConfigFile : [disk EXCEPT !.config = c] \in Files
         /\ \A c \in ConfigFile : [disk EXCEPT !.config = c].config = c
  BY FilesAssumption, BackupAssumption DEF TypeOK, Files, ConfigFile

(* What LoadConfig makes of a file is a configuration, and never one that  *)
(* hides secrets unless the file or m.cfg does.                            *)
LEMMA ReadIsConfig ==
  ASSUME TypeOK, NEW c \in ConfigFile, NEW read \in ReadAs(c)
  PROVE  /\ read \in Config /\ read # Torn /\ read # Absent
         /\ c \in Config => read = c
         /\ c = Torn => ~read.hidden \/ read.hidden = memory.hidden
  <1>1. CASE c = Torn
    <2>1. read \in [text: Cut, hidden: {FALSE, memory.hidden}]
      BY <1>1 DEF ReadAs
    <2>2. memory.hidden \in BOOLEAN /\ Cut \subseteq Texts
      BY BackupAssumption DEF TypeOK, Config
    <2>3. read \in Config
      BY <2>1, <2>2 DEF Config
    <2>4. read.hidden \in {FALSE, memory.hidden}
      BY <2>1
    <2> QED
      BY <1>1, <2>3, <2>4, FilesAssumption
  <1>2. CASE c # Torn
    BY <1>2, FilesAssumption DEF ReadAs, ConfigFile
  <1> QED
    BY <1>1, <1>2

(* A request whose archive is known to be stale does not care for what     *)
(* config.yaml becomes, nor does one that has not read it.                 *)
LEMMA DirtiedIsGood ==
  ASSUME NEW rs \in [Requests -> Request \cup {Idle}], NEW S \in SUBSET Requests,
         NEW r \in S, NEW c, NEW d, Good(rs[r], c)
  PROVE  Good(Dirtied(rs, S)[r], d)
  <1> DEFINE x == rs[r]
             y == [x EXCEPT !.dirty = TRUE]
  <1>1. Dirtied(rs, S)[r] = IF x.pc \notin {"idle", "config"} THEN y ELSE x
    BY DEF Dirtied
  <1>2. CASE x = Idle
    BY <1>1, <1>2 DEF Good, Idle
  <1>3. CASE x \in Request /\ x.pc = "config"
    BY <1>1, <1>3 DEF Good, RequestInv
  <1>4. CASE x \in Request /\ x.pc # "config"
    <2>1. y \in Request
      BY <1>4 DEF Request
    <2>2. x.pc # "idle" /\ x # Idle
      BY <1>4, AtWork
    <2>3. RequestInv(x, c)
      BY <2>2 DEF Good
    <2>4. /\ y.left = x.left /\ y.upload = x.upload /\ y.pc = x.pc
          /\ y.before = x.before /\ y.loaded = x.loaded /\ y.dirty = TRUE
      BY <1>4 DEF Request
    <2>5. RequestInv(y, d)
      BY <2>3, <2>4 DEF RequestInv
    <2> QED
      BY <1>1, <1>4, <2>1, <2>2, <2>5 DEF Good
  <1> QED
    BY <1>2, <1>3, <1>4

LEMMA DirtiedType ==
  ASSUME NEW rs \in [Requests -> Request \cup {Idle}], NEW S \in SUBSET Requests
  PROVE  /\ Dirtied(rs, S) \in [Requests -> Request \cup {Idle}]
         /\ \A r \in Requests \ S : Dirtied(rs, S)[r] = rs[r]
  <1>1. ASSUME NEW x \in Request PROVE [x EXCEPT !.dirty = TRUE] \in Request
    BY DEF Request
  <1>2. ASSUME NEW r \in Requests, rs[r].pc \notin {"idle", "config"}
        PROVE  rs[r] \in Request
    BY <1>2, AtWork
  <1> QED
    BY <1>1, <1>2 DEF Dirtied

(* A step of one request that leaves config.yaml alone.                    *)
LEMMA OneRequest ==
  ASSUME Inv, NEW r \in Requests, NEW v, Good(v, disk.config),
         req' = [req EXCEPT ![r] = v], disk'.config = disk.config
  PROVE  /\ req' \in [Requests -> Request \cup {Idle}]
         /\ \A x \in Requests : Good(req'[x], disk'.config)
  BY DEF Inv, TypeOK, Good

(* A step after which every archive is stale.                              *)
LEMMA AllDirtied ==
  ASSUME Inv, req' = Dirtied(req, Requests)
  PROVE  /\ req' \in [Requests -> Request \cup {Idle}]
         /\ \A x \in Requests : Good(req'[x], disk'.config)
  <1>1. req \in [Requests -> Request \cup {Idle}]
    BY DEF Inv, TypeOK
  <1>2. ASSUME NEW x \in Requests PROVE Good(req'[x], disk'.config)
    BY <1>1, DirtiedIsGood DEF Inv
  <1> QED
    BY <1>1, <1>2, DirtiedType

----------------------------------------------------------------------------
(* Types                                                                   *)

LEMMA InitInv == Init => Inv
  <1> SUFFICES ASSUME Init PROVE Inv
    OBVIOUS
  <1>1. Plain(First) \in Config
    BY BackupAssumption DEF Plain, Config
  <1>2. disk \in Files
    BY <1>1 DEF Init, Files, ConfigFile
  <1> QED
    BY <1>1, <1>2, BackupAssumption DEF Init, Inv, TypeOK, Good, NoSave, Saving

LEMMA SaveType ==
  ASSUME TypeOK, NEW c \in Config, Save(c)
  PROVE  /\ disk' \in Files /\ saving' \in Saving
         /\ saving'.here => disk'.config = Torn
  BY DiskConfig DEF Save, Saving, ConfigFile, TypeOK

----------------------------------------------------------------------------
(* Commits                                                                 *)

LEMMA HandlerSavesStep ==
  ASSUME Inv, NEW t \in Edits, HandlerSaves(t)
  PROVE  Inv'
  <1>1. [memory EXCEPT !.text = t] \in Config
    BY BackupAssumption DEF Inv, TypeOK, Config
  <1>2. events' \in 0..MaxEvents
    BY BackupAssumption DEF HandlerSaves, Event, Inv, TypeOK
  <1> QED
    BY <1>1, <1>2, SaveType, AllDirtied DEF HandlerSaves, Inv, TypeOK

LEMMA SaveEndsStep ==
  ASSUME Inv, SaveEnds \/ SaveFails
  PROVE  Inv'
  <1>1. saving \in Saving /\ saving.config \in Config
    BY DEF SaveEnds, SaveFails, Inv, TypeOK, Saving
  <1>2. disk' \in Files
    BY <1>1, DiskConfig DEF SaveEnds, SaveFails, Inv, ConfigFile
  <1>3. memory' \in Config /\ saving' = NoSave /\ ~saving'.here
    BY <1>1 DEF SaveEnds, SaveFails, NoSave, Inv, TypeOK
  <1> QED
    BY <1>2, <1>3, AllDirtied DEF SaveEnds, SaveFails, Inv, TypeOK

LEMMA WatcherReloadsStep ==
  ASSUME Inv, WatcherReloads
  PROVE  Inv'
  <1>1. PICK c \in ReadAs(disk.config) : Save(c)
    BY DEF WatcherReloads
  <1>2. events' \in 0..MaxEvents
    BY BackupAssumption DEF WatcherReloads, Event, Inv, TypeOK
  <1>3. c \in Config
    BY DiskConfig, ReadIsConfig DEF Inv
  <1> QED
    BY <1>1, <1>2, <1>3, SaveType, AllDirtied DEF WatcherReloads, Inv, TypeOK

LEMMA DiagnosticStep ==
  ASSUME Inv, CreateDiagnosticPackage
  PROVE  Inv'
  <1>1. memory' \in Config
    BY DEF CreateDiagnosticPackage, Inv, TypeOK, Config
  <1>2. events' \in 0..MaxEvents
    BY BackupAssumption DEF CreateDiagnosticPackage, Event, Inv, TypeOK
  <1> QED
    BY <1>1, <1>2 DEF CreateDiagnosticPackage, Inv, TypeOK

----------------------------------------------------------------------------
(* Packages                                                                *)

(* The marks that one request leaves on another.                           *)
LEMMA MarkedIsGood ==
  ASSUME NEW x \in Request, NEW c, Good(x, c),
         NEW y \in {[x EXCEPT !.current = FALSE], [x EXCEPT !.mixed = TRUE],
                    [x EXCEPT !.shared = TRUE]}
  PROVE  Good(y, c)
  <1>1. y \in Request
    BY DEF Request
  <1>2. /\ y.left = x.left /\ y.upload = x.upload /\ y.pc = x.pc
        /\ y.before = x.before /\ y.loaded = x.loaded
        /\ y.dirty = x.dirty /\ y.archive = x.archive
    BY DEF Request
  <1>3. x # Idle /\ y # Idle
    BY <1>1, AtWork
  <1> QED
    BY <1>1, <1>2, <1>3 DEF Good, RequestInv

LEMMA BeginStep ==
  ASSUME Inv, NEW r \in Requests, NEW u \in Package, Begin(r, u)
  PROVE  Inv'
  <1> DEFINE namesakes == {x \in Requests : req[x] # Idle /\ req[x].current}
             mixed == \E y \in namesakes : Writing(y)
             fresh == [pc |-> "config", upload |-> u, left |-> {},
                       current |-> TRUE, archive |-> Absent, mixed |-> mixed,
                       shared |-> FALSE, loaded |-> Absent, before |-> Absent,
                       dirty |-> FALSE]
  <1>1. req' = [x \in Requests |->
                  CASE x = r -> fresh
                    [] x \in namesakes -> [req[x] EXCEPT !.mixed = TRUE]
                    [] OTHER -> req[x]]
    BY DEF Begin
  <1> HIDE DEF mixed
  <1>2. fresh \in Request
    <2>1. mixed \in BOOLEAN
      BY DEF mixed
    <2> QED
      BY <2>1 DEF Request, Steps
  <1>3. Good(fresh, disk.config)
    <2>1. fresh # Idle
      BY <1>2, AtWork
    <2> QED
      BY <1>2, <2>1 DEF Good, RequestInv
  <1> HIDE DEF fresh
  <1>4. ASSUME NEW x \in Requests PROVE Good(req'[x], disk.config)
    <2>1. CASE x = r
      <3>1. r \notin namesakes
        BY AtWork DEF Begin, At, Inv, TypeOK
      <3>2. req'[x] = fresh
        BY <1>1, <2>1, <3>1
      <3> QED
        BY <1>3, <3>2
    <2>2. CASE x # r /\ x \in namesakes
      <3>1. req[x] \in Request /\ Good(req[x], disk.config)
        BY <2>2, AtWork DEF Inv, TypeOK
      <3>2. Good([req[x] EXCEPT !.mixed = TRUE], disk.config)
        BY <3>1, MarkedIsGood
      <3> QED
        BY <1>1, <2>2, <3>2
    <2>3. CASE x # r /\ x \notin namesakes
      BY <1>1, <2>3 DEF Inv
    <2> QED
      BY <2>1, <2>2, <2>3
  <1>5. req' \in [Requests -> Request \cup {Idle}]
    BY <1>1, <1>4 DEF Good
  <1>6. events' \in 0..MaxEvents
    BY BackupAssumption DEF Begin, Event, Inv, TypeOK
  <1> QED
    BY <1>4, <1>5, <1>6 DEF Begin, Inv, TypeOK

LEMMA SecondPassesStep ==
  ASSUME Inv, SecondPasses
  PROVE  Inv'
  <1>1. ASSUME NEW x \in Requests PROVE Good(req'[x], disk.config)
    <2>1. CASE req[x] = Idle
      BY <2>1 DEF SecondPasses, Good
    <2>2. CASE req[x] # Idle
      <3>1. req[x] \in Request /\ Good(req[x], disk.config)
        BY <2>2, AtWork DEF Inv, TypeOK
      <3>2. Good([req[x] EXCEPT !.current = FALSE], disk.config)
        BY <3>1, MarkedIsGood
      <3> QED
        BY <2>2, <3>2 DEF SecondPasses
    <2> QED
      BY <2>1, <2>2
  <1>2. req' \in [Requests -> Request \cup {Idle}]
    BY <1>1 DEF SecondPasses, Good
  <1> QED
    BY <1>1, <1>2 DEF SecondPasses, Inv, TypeOK

(* A request that takes a step and changes nothing but itself.             *)
LEMMA RequestStep ==
  ASSUME Inv, NEW r \in Requests, NEW v, Good(v, disk.config),
         req' = [req EXCEPT ![r] = v],
         UNCHANGED <<disk, memory, saving, events>>
  PROVE  Inv'
  BY OneRequest DEF Inv, TypeOK

LEMMA IdleIsGood == \A c : Good(Idle, c)
  BY DEF Good

LEMMA BusyRequest ==
  ASSUME Inv, NEW r \in Requests, req[r].pc # "idle"
  PROVE  req[r] \in Request /\ req[r] # Idle /\ RequestInv(req[r], disk.config)
  BY AtWork DEF Inv, TypeOK, Good

LEMMA ReadConfigStep ==
  ASSUME Inv, NEW r \in Requests, ReadConfig(r)
  PROVE  Inv'
  <1> DEFINE x == req[r]
  <1>1. x \in Request /\ x # Idle /\ RequestInv(x, disk.config) /\ x.pc = "config"
    BY BusyRequest DEF ReadConfig, At
  <1>2. PICK c \in {disk.config, Absent} :
          req' = [req EXCEPT ![r].pc = "database", ![r].archive = c]
    BY DEF ReadConfig
  <1> DEFINE v == [x EXCEPT !.pc = "database", !.archive = c]
  <1>3. req' = [req EXCEPT ![r] = v]
    BY <1>2 DEF Inv, TypeOK
  <1>4. v \in Request
    BY <1>1, DiskConfig DEF Request, Steps, Inv
  <1>5. /\ v.pc = "database" /\ v.archive = c
        /\ v.left = x.left /\ v.upload = x.upload
        /\ v.before = x.before /\ v.loaded = x.loaded /\ v.dirty = x.dirty
    BY <1>1 DEF Request
  <1>6. RequestInv(v, disk.config)
    BY <1>1, <1>5 DEF RequestInv
  <1>7. Good(v, disk.config)
    BY <1>4, <1>6 DEF Good
  <1> HIDE DEF v
  <1> QED
    BY <1>3, <1>7, RequestStep DEF ReadConfig

LEMMA ReadDatabaseStep ==
  ASSUME Inv, NEW r \in Requests, ReadDatabase(r)
  PROVE  Inv'
  <1> DEFINE x == req[r]
             y == [x EXCEPT !.pc = "unpack", !.left = Given(x.upload)]
             v == IF x.upload = Nothing THEN Idle ELSE y
  <1>1. /\ x \in Request /\ x # Idle /\ RequestInv(x, disk.config)
        /\ x.pc = "database"
    BY BusyRequest DEF ReadDatabase, At
  <1>2. req' = [req EXCEPT ![r] = v]
    BY DEF ReadDatabase, Inv, TypeOK
  <1>3. y \in Request
    BY <1>1 DEF Request, Steps, Given
  <1>4. /\ y.pc = "unpack" /\ y.left = Given(x.upload) /\ y.upload = x.upload
        /\ y.before = x.before /\ y.loaded = x.loaded /\ y.dirty = x.dirty
        /\ y.archive = x.archive
    BY <1>1 DEF Request
  <1>5. RequestInv(y, disk.config)
    BY <1>1, <1>4 DEF RequestInv
  <1>6. Good(v, disk.config)
    BY <1>3, <1>5, IdleIsGood DEF Good
  <1> HIDE DEF v
  <1> QED
    BY <1>2, <1>6, RequestStep DEF ReadDatabase

LEMMA RestoreFailsStep ==
  ASSUME Inv, NEW r \in Requests, RestoreFails(r)
  PROVE  Inv'
  BY IdleIsGood, RequestStep DEF RestoreFails

----------------------------------------------------------------------------
(* Restores                                                                *)

LEMMA CopyBeginsStep ==
  ASSUME Inv, NEW r \in Requests, NEW p \in Parts, CopyBegins(r, p)
  PROVE  Inv'
  <1> DEFINE x == req[r]
             busy == Copiers(r, p) # {}
             v == [x EXCEPT !.pc = Copying(p), !.left = @ \ {p}, !.shared = busy]
  <1>1. /\ x \in Request /\ x # Idle /\ RequestInv(x, disk.config)
        /\ x.pc = "unpack" /\ p \in x.left
    BY BusyRequest DEF CopyBegins, At
  <1>2. req' = [y \in Requests |->
                  CASE y = r -> v
                    [] y \in Copiers(r, p) -> [req[y] EXCEPT !.shared = TRUE]
                    [] OTHER -> req[y]]
    BY DEF CopyBegins
  <1> HIDE DEF busy
  <1>3. Good(v, disk.config)
    <2>1. busy \in BOOLEAN /\ Copying(p) \in {"copyConfig", "copyDatabase"}
      BY DEF busy, Copying
    <2>2. v \in Request
      BY <1>1, <2>1 DEF Request, Steps
    <2>3. /\ v.pc = Copying(p) /\ v.left = x.left \ {p} /\ v.upload = x.upload
          /\ v.before = x.before /\ v.loaded = x.loaded /\ v.dirty = x.dirty
          /\ v.archive = x.archive
      BY <1>1 DEF Request
    <2>4. RequestInv(v, disk.config)
      BY <1>1, <2>3 DEF RequestInv, Copying, Parts
    <2> QED
      BY <2>2, <2>4 DEF Good
  <1> HIDE DEF v
  <1>4. ASSUME NEW y \in Requests PROVE Good(req'[y], disk.config)
    <2>1. CASE y = r
      BY <1>2, <1>3, <2>1 DEF Copiers
    <2>2. CASE y # r /\ y \in Copiers(r, p)
      <3>1. req[y] \in Request /\ Good(req[y], disk.config)
        BY <2>2, BusyRequest DEF Copiers, At, Copying, Inv
      <3>2. Good([req[y] EXCEPT !.shared = TRUE], disk.config)
        BY <3>1, MarkedIsGood
      <3> QED
        BY <1>2, <2>2, <3>2
    <2>3. CASE y # r /\ y \notin Copiers(r, p)
      BY <1>2, <2>3 DEF Inv
    <2> QED
      BY <2>1, <2>2, <2>3
  <1>5. req' \in [Requests -> Request \cup {Idle}]
    BY <1>2, <1>4 DEF Good
  <1> QED
    BY <1>4, <1>5 DEF CopyBegins, Inv, TypeOK

(* What is copied of a part is one of the forms that the file may have.    *)
LEMMA CopiedForms ==
  ASSUME Inv, NEW r \in Requests, NEW p \in Parts, At(r, Copying(p)),
         NEW c \in Copied(r, p)
  PROVE  /\ p = "config" => c \in ConfigFile
         /\ p = "database" => c \in {Whole, Torn}
         /\ c = Torn => disk[p] = Torn \/ req[r].shared
  <1> DEFINE x == req[r]
  <1>1. x \in Request /\ RequestInv(x, disk.config) /\ x.pc = Copying(p)
    BY BusyRequest DEF At, Copying, Parts
  <1>2. x.upload \in Package /\ x.upload[p] # Absent
    BY <1>1 DEF Request, RequestInv, Copying, Given, Parts
  <1>3. /\ p = "config" => x.upload[p] \in Config
        /\ p = "database" => x.upload[p] = Whole
    <2>1. \A t \in Uploaded : Plain(t) \in Config
      BY BackupAssumption DEF Plain, Config
    <2> QED
      BY <1>2, <2>1 DEF Package
  <1>4. x.upload[p] # Torn
    BY <1>3, FilesAssumption DEF Parts
  <1> QED
    BY <1>3, <1>4, DiskConfig DEF Copied, Inv, TypeOK, Files, ConfigFile, Parts

(* A part is done; what the request keeps.                                 *)
LEMMA AdvancedIsGood ==
  ASSUME Inv, NEW r \in Requests, NEW p \in Parts, At(r, Copying(p))
  PROVE  /\ Advanced(r) \in Request \cup {Idle}
         /\ Advanced(r) # Idle =>
              /\ \A f \in {"upload", "left", "archive", "before", "dirty", "loaded"} :
                   Advanced(r)[f] = req[r][f]
              /\ Advanced(r).pc \in {"unpack", "load"}
  <1> DEFINE x == req[r]
  <1>1. x \in Request
    BY BusyRequest DEF At, Copying
  <1>2. ASSUME NEW s \in {"unpack", "load"}
        PROVE  /\ [x EXCEPT !.pc = s, !.shared = FALSE] \in Request
               /\ [x EXCEPT !.pc = s, !.shared = FALSE].pc = s
               /\ \A f \in {"upload", "left", "archive", "before", "dirty", "loaded"} :
                    [x EXCEPT !.pc = s, !.shared = FALSE][f] = x[f]
    BY <1>1 DEF Request, Steps
  <1>3. \/ Advanced(r) = [x EXCEPT !.pc = "unpack", !.shared = FALSE]
        \/ Advanced(r) = [x EXCEPT !.pc = "load", !.shared = FALSE]
        \/ Advanced(r) = Idle
    BY DEF Advanced
  <1> QED
    BY <1>2, <1>3

LEMMA CopyEndsOfConfig ==
  ASSUME Inv, NEW r \in Requests, CopyEndsOf(r, "config")
  PROVE  /\ req' \in [Requests -> Request \cup {Idle}]
         /\ \A y \in Requests : Good(req'[y], disk'.config)
  <1> DEFINE x == req[r]
             a == Advanced(r)
             done == [req EXCEPT ![r] = a]
             v == [a EXCEPT !.before = disk.config]
  <1>1. /\ x \in Request /\ x # Idle /\ RequestInv(x, disk.config)
        /\ x.pc = "copyConfig"
    BY BusyRequest DEF CopyEndsOf, At, Copying
  <1>2. "config" \notin x.left /\ x.upload.config # Absent /\ x.before = Absent
    BY <1>1 DEF RequestInv, Given
  <1>3. a \in Request /\ a # Idle
    <2>1. a # Idle
      BY <1>2, <1>1 DEF Advanced, Idle, Request
    <2> QED
      BY <2>1, AdvancedIsGood DEF CopyEndsOf, Parts
  <1>4. /\ \A f \in {"upload", "left", "archive", "before", "dirty", "loaded"} : a[f] = x[f]
        /\ a.pc \in {"unpack", "load"}
    BY <1>3, AdvancedIsGood DEF CopyEndsOf, Parts
  <1> HIDE DEF a
  <1>5. done \in [Requests -> Request \cup {Idle}] /\ done[r] = a
    BY <1>3 DEF Inv, TypeOK
  <1>6. req' = [Dirtied(done, Requests \ {r}) EXCEPT ![r].before = disk.config]
    BY DEF CopyEndsOf, a
  <1>7. Dirtied(done, Requests \ {r})[r] = a
    BY <1>5, DirtiedType DEF Inv, TypeOK
  <1>8. req' = [Dirtied(done, Requests \ {r}) EXCEPT ![r] = v]
    BY <1>5, <1>6, <1>7, DirtiedType
  <1>9. Good(v, disk'.config)
    <2>1. v \in Request
      BY <1>3, DiskConfig DEF Request, Inv
    <2>2. /\ v.pc = a.pc /\ v.left = x.left /\ v.upload = x.upload
          /\ v.dirty = x.dirty /\ v.archive = x.archive /\ v.before = disk.config
      BY <1>3, <1>4 DEF Request
    <2>3. RequestInv(v, disk'.config)
      BY <1>1, <1>2, <1>4, <2>2, DiskConfig DEF RequestInv, Inv
    <2> QED
      BY <2>1, <2>3 DEF Good
  <1> HIDE DEF v
  <1>10. ASSUME NEW y \in Requests, y # r PROVE Good(req'[y], disk'.config)
    <2>1. Good(done[y], disk.config)
      BY <1>10 DEF Inv, TypeOK
    <2>2. Good(Dirtied(done, Requests \ {r})[y], disk'.config)
      BY <1>5, <1>10, <2>1, DirtiedIsGood
    <2> QED
      BY <1>5, <1>8, <1>10, <2>2, DirtiedType
  <1> QED
    BY <1>5, <1>8, <1>9, <1>10, DirtiedType DEF Good

LEMMA CopyEndsOfDatabase ==
  ASSUME Inv, NEW r \in Requests, CopyEndsOf(r, "database")
  PROVE  /\ req' \in [Requests -> Request \cup {Idle}]
         /\ \A y \in Requests : Good(req'[y], disk'.config)
  <1> DEFINE x == req[r]
             a == Advanced(r)
  <1>1. /\ x \in Request /\ x # Idle /\ RequestInv(x, disk.config)
        /\ x.pc = "copyDatabase"
    BY BusyRequest DEF CopyEndsOf, At, Copying
  <1>2. /\ a \in Request \cup {Idle}
        /\ a # Idle =>
             /\ \A f \in {"upload", "left", "archive", "before", "dirty", "loaded"} :
                  a[f] = x[f]
             /\ a.pc \in {"unpack", "load"}
    BY AdvancedIsGood DEF CopyEndsOf, Parts
  <1> HIDE DEF a
  <1>3. Good(a, disk.config)
    BY <1>1, <1>2 DEF Good, RequestInv
  <1>4. req' = [req EXCEPT ![r] = a] /\ disk'.config = disk.config
    BY DEF CopyEndsOf, a, Inv, TypeOK, Files
  <1> QED
    BY <1>3, <1>4, OneRequest

LEMMA CopyEndsStep ==
  ASSUME Inv, NEW r \in Requests, NEW p \in Parts, CopyEnds(r, p)
  PROVE  Inv'
  <1>1. PICK c \in Copied(r, p) : disk' = [disk EXCEPT ![p] = c]
    BY DEF CopyEnds, CopyEndsOf
  <1>2. /\ p = "config" => c \in ConfigFile
        /\ p = "database" => c \in {Whole, Torn}
    BY CopiedForms DEF CopyEnds, CopyEndsOf
  <1>3. disk' \in Files /\ (p = "database" => disk'.config = disk.config)
    BY <1>1, <1>2 DEF Inv, TypeOK, Files, Parts
  <1>4. saving' \in Saving \cup {NoSave} /\ (saving'.here => disk'.config = Torn)
    <2>1. CASE saving = NoSave
      BY <2>1 DEF CopyEnds, NoSave
    <2>2. CASE saving \in Saving
      BY <1>3, <2>2 DEF CopyEnds, Saving, Parts, Inv, TypeOK
    <2> QED
      BY <2>1, <2>2 DEF Inv, TypeOK
  <1>5. /\ req' \in [Requests -> Request \cup {Idle}]
        /\ \A y \in Requests : Good(req'[y], disk'.config)
    BY CopyEndsOfConfig, CopyEndsOfDatabase DEF CopyEnds, Parts
  <1> QED
    BY <1>3, <1>4, <1>5 DEF CopyEnds, CopyEndsOf, Inv, TypeOK

LEMMA LoadRestoredStep ==
  ASSUME Inv, NEW r \in Requests, LoadRestored(r)
  PROVE  Inv'
  <1> DEFINE x == req[r]
  <1>1. /\ x \in Request /\ x # Idle /\ RequestInv(x, disk.config)
        /\ x.pc = "load"
    BY BusyRequest DEF LoadRestored, At
  <1>2. CASE req' = [req EXCEPT ![r] = Idle]
    BY <1>2, IdleIsGood, RequestStep DEF LoadRestored
  <1>3. ASSUME NEW c \in ReadAs(disk.config),
               req' = [req EXCEPT ![r].pc = "apply", ![r].loaded = c]
        PROVE  Inv'
    <2> DEFINE y == [x EXCEPT !.pc = "apply", !.loaded = c]
    <2>1. c \in Config /\ c # Absent
      BY <1>3, DiskConfig, ReadIsConfig DEF Inv
    <2>2. y \in Request
      BY <1>1, <2>1 DEF Request, Steps
    <2>3. /\ y.pc = "apply" /\ y.left = x.left /\ y.upload = x.upload
          /\ y.before = x.before /\ y.dirty = x.dirty
          /\ y.archive = x.archive /\ y.loaded = c
      BY <1>1 DEF Request
    <2>4. RequestInv(y, disk.config)
      BY <1>1, <2>1, <2>3 DEF RequestInv
    <2>5. Good(y, disk.config)
      BY <2>2, <2>4 DEF Good
    <2>6. req' = [req EXCEPT ![r] = y]
      BY <1>3 DEF Inv, TypeOK
    <2> HIDE DEF y
    <2> QED
      BY <2>5, <2>6, RequestStep DEF LoadRestored
  <1> QED
    BY <1>2, <1>3 DEF LoadRestored

LEMMA ApplyRestoredStep ==
  ASSUME Inv, NEW r \in Requests, ApplyRestored(r)
  PROVE  Inv'
  <1> DEFINE done == [req EXCEPT ![r] = Idle]
  <1>1. req[r] \in Request /\ req[r].loaded \in Config
    BY BusyRequest DEF ApplyRestored, At, RequestInv, Request
  <1>2. /\ done \in [Requests -> Request \cup {Idle}]
        /\ \A y \in Requests : Good(done[y], disk.config)
    BY IdleIsGood DEF Inv, TypeOK
  <1>3. req' = Dirtied(done, Requests)
    BY DEF ApplyRestored
  <1> HIDE DEF done
  <1>4. \A y \in Requests : Good(req'[y], disk'.config)
    BY <1>2, <1>3, DirtiedIsGood
  <1>5. req' \in [Requests -> Request \cup {Idle}]
    BY <1>2, <1>3, DirtiedType
  <1> QED
    BY <1>1, <1>4, <1>5, SaveType DEF ApplyRestored, Inv, TypeOK

LEMMA RestartStep ==
  ASSUME Inv, Restart
  PROVE  Inv'
  <1>0. PICK c \in IF saving.here THEN {disk.config, saving.config} ELSE {disk.config} :
          \E read \in ReadAs(c) :
            disk' = [disk EXCEPT !.config = read] /\ memory' = read
    BY DEF Restart
  <1>1. PICK read \in ReadAs(c) :
          disk' = [disk EXCEPT !.config = read] /\ memory' = read
    BY <1>0
  <1>2. read \in Config
    <2>1. saving.here => saving.config \in Config
      BY DEF Inv, TypeOK, Saving, NoSave
    <2>2. c \in ConfigFile
      BY <1>0, <2>1, DiskConfig DEF ConfigFile, Inv
    <2> QED
      BY <1>1, <2>2, ReadIsConfig DEF Inv
  <1>3. disk' \in Files
    BY <1>1, <1>2, DiskConfig DEF ConfigFile, Inv
  <1>4. events' \in 0..MaxEvents
    BY BackupAssumption DEF Restart, Event, Inv, TypeOK
  <1>5. saving' = NoSave /\ ~saving'.here /\ req' = [x \in Requests |-> Idle]
    BY DEF Restart, NoSave
  <1> QED
    BY <1>1, <1>2, <1>3, <1>4, <1>5, IdleIsGood DEF Inv, TypeOK

LEMMA NextInv == Inv /\ [Next]_vars => Inv'
  <1> SUFFICES ASSUME Inv, [Next]_vars PROVE Inv'
    OBVIOUS
  <1>1. CASE UNCHANGED vars
    BY <1>1 DEF vars, Inv, TypeOK
  <1>2. CASE Next
    BY <1>2, HandlerSavesStep, SaveEndsStep, WatcherReloadsStep, DiagnosticStep,
       SecondPassesStep, RestartStep, BeginStep, ReadConfigStep,
       ReadDatabaseStep, CopyBeginsStep, CopyEndsStep, LoadRestoredStep,
       ApplyRestoredStep, RestoreFailsStep DEF Next
  <1> QED
    BY <1>1, <1>2

LEMMA Invariant == Spec => []Inv
  BY InitInv, NextInv, PTL DEF Spec

----------------------------------------------------------------------------
(* The state is well typed: config.yaml is never absent, and half written  *)
(* as long as a commit has it open.                                        *)
THEOREM TypeCorrect == Spec => []TypeOK
  <1>1. Inv => TypeOK
    BY DEF Inv
  <1> QED
    BY <1>1, Invariant, PTL

(* What a restore has replaced is in its safety copy, for any number of    *)
(* requests, commits, reloads and restarts beside it.                      *)
THEOREM RestoresCanBeUndone == Spec => []SafetyCopyHolds
  <1>1. Inv => SafetyCopyHolds
    <2> SUFFICES ASSUME Inv, NEW r \in Requests, req[r] # Idle,
                        req[r].before # Absent, ~req[r].dirty
                 PROVE  req[r].archive \in {req[r].before, Absent}
      BY DEF SafetyCopyHolds
    <2>1. RequestInv(req[r], disk.config)
      BY DEF Inv, Good
    <2> QED
      BY <2>1 DEF RequestInv
  <1> QED
    BY <1>1, Invariant, PTL

(* No failure leaves a half-written file: only an open commit makes        *)
(* config.yaml one, or two restores that copy the same part.               *)
THEOREM NoFileIsTorn == Spec => FilesStayWhole
  <1> DEFINE Tears(p)   == disk'[p] = Torn /\ disk[p] # Torn
             Excused(p) == \/ p = "config" /\ saving' # NoSave
                           \/ \E r \in Requests : req[r] # Idle /\ req[r].shared
  <1>1. ASSUME Inv, [Next]_vars, NEW p \in Parts, Tears(p) PROVE Excused(p)
    <2>1. ASSUME disk' = disk PROVE FALSE
      BY <1>1, <2>1
    <2>2. ASSUME NEW c, Save(c) PROVE Excused(p)
      <3>1. saving' # NoSave
        BY <2>2 DEF Save, NoSave
      <3>2. p = "config"
        BY <1>1, <2>2 DEF Save, Inv, TypeOK, Files, Parts
      <3> QED
        BY <3>1, <3>2
    <2>3. ASSUME NEW c, disk' = [disk EXCEPT !.config = c],
                 c # Torn \/ disk.config = Torn
          PROVE  FALSE
      BY <1>1, <2>3 DEF Inv, TypeOK, Files, Parts
    <2>4. saving # NoSave => saving.config # Torn
      BY <1>1, FilesAssumption DEF Inv, TypeOK, Saving
    <2>5. CASE SaveEnds
      BY <2>3, <2>4, <2>5, <1>1 DEF SaveEnds, Inv, TypeOK
    <2>6. CASE SaveFails
      BY <2>3, <2>4, <2>6, <1>1 DEF SaveFails, Inv, TypeOK
    <2>7. CASE Restart
      <3>1. PICK c \in IF saving.here THEN {disk.config, saving.config}
                       ELSE {disk.config} :
              \E read \in ReadAs(c) : disk' = [disk EXCEPT !.config = read]
        BY <2>7 DEF Restart
      <3>2. PICK read \in ReadAs(c) : disk' = [disk EXCEPT !.config = read]
        BY <3>1
      <3>3. saving.here => saving.config \in Config
        BY <1>1 DEF Inv, TypeOK, Saving, NoSave
      <3>4. c \in ConfigFile
        BY <1>1, <3>1, <3>3, DiskConfig DEF ConfigFile, Inv
      <3>5. read # Torn
        BY <1>1, <3>4, ReadIsConfig DEF Inv
      <3> QED
        BY <2>3, <3>2, <3>5
    <2>8. ASSUME NEW r \in Requests, NEW q \in Parts, CopyEnds(r, q)
          PROVE  Excused(p)
      <3>1. PICK c \in Copied(r, q) : disk' = [disk EXCEPT ![q] = c]
        BY <2>8 DEF CopyEnds, CopyEndsOf
      <3>2. p = q /\ c = Torn
        BY <1>1, <3>1 DEF Inv, TypeOK, Files, Parts
      <3>3. req[r] # Idle /\ req[r].shared
        BY <1>1, <2>8, <3>2, CopiedForms, BusyRequest
           DEF CopyEnds, CopyEndsOf, At, Copying
      <3> QED
        BY <3>3
    <2>9. CASE Next
      BY <2>1, <2>2, <2>5, <2>6, <2>7, <2>8, <2>9
         DEF Next, HandlerSaves, WatcherReloads, CreateDiagnosticPackage,
             SecondPasses, Begin, ReadConfig, ReadDatabase, CopyBegins,
             LoadRestored, ApplyRestored, RestoreFails
    <2> QED
      BY <1>1, <2>1, <2>9 DEF vars
  <1>2. Inv /\ [Next]_vars => \A p \in Parts : Tears(p) => Excused(p)
    BY <1>1
  <1> HIDE DEF Excused
  <1>3. Inv /\ [Next]_vars => [\A p \in Parts : Tears(p) => Excused(p)]_vars
    BY <1>2
  <1> QED
    BY <1>3, Invariant, PTL DEF Spec, FilesStayWhole, Excused

----------------------------------------------------------------------------
(* Redaction: who has lost the secrets, and how.                           *)

Shown(c) == c \in Config => ~c.hidden

Holds(x) == x \in Request => Shown(x.archive) /\ Shown(x.loaded)

SecretsInv ==
  /\ Shown(disk.config) /\ Shown(memory) /\ Shown(saving.config)
  /\ \A r \in Requests : Holds(req[r])

LEMMA NotConfigs == Shown(Torn) /\ Shown(Absent) /\ Holds(Idle)
  BY FilesAssumption, AtWork DEF Shown, Holds

LEMMA DirtiedHolds ==
  ASSUME NEW rs \in [Requests -> Request \cup {Idle}], NEW S \in SUBSET Requests,
         NEW r \in Requests, Holds(rs[r])
  PROVE  Holds(Dirtied(rs, S)[r])
  <1> DEFINE x == rs[r]
             y == [x EXCEPT !.dirty = TRUE]
  <1>1. Dirtied(rs, S)[r] \in {x, y}
    BY DEF Dirtied
  <1>2. y \in Request => x \in Request
    <2>1. CASE x = Idle
      <3>1. y.pc = "idle"
        BY <2>1 DEF Idle
      <3> QED
        BY <3>1 DEF Request, Steps
    <2> QED
      BY <2>1
  <1>3. x \in Request => y.archive = x.archive /\ y.loaded = x.loaded
    BY DEF Request
  <1> QED
    BY <1>1, <1>2, <1>3 DEF Holds

LEMMA AllDirtiedHold ==
  ASSUME Inv, SecretsInv, req' = Dirtied(req, Requests)
  PROVE  \A r \in Requests : Holds(req'[r])
  BY DirtiedHolds DEF Inv, TypeOK, SecretsInv

LEMMA SaveShown ==
  ASSUME TypeOK, NEW c, Shown(c), Save(c)
  PROVE  Shown(disk'.config) /\ Shown(saving'.config)
  <1>1. disk'.config = Torn /\ saving'.config = c
    BY DEF Save, TypeOK, Files
  <1> QED
    BY <1>1, NotConfigs

LEMMA ReadIsShown ==
  ASSUME TypeOK, NEW c \in ConfigFile, NEW read \in ReadAs(c),
         Shown(c), Shown(memory)
  PROVE  Shown(read)
  BY ReadIsConfig DEF Shown, ConfigFile, TypeOK

(* A request that keeps what it holds, or has read config.yaml.            *)
LEMMA HoldsOn ==
  ASSUME SecretsInv, NEW r \in Requests, req[r] \in Request, NEW y,
         y.archive \in {req[r].archive, disk.config, Absent},
         y.loaded = req[r].loaded \/ Shown(y.loaded)
  PROVE  Holds(y)
  BY NotConfigs DEF SecretsInv, Holds

LEMMA OneHolds ==
  ASSUME Inv, SecretsInv, NEW r \in Requests, NEW v, Holds(v),
         req' = [req EXCEPT ![r] = v]
  PROVE  \A x \in Requests : Holds(req'[x])
  BY DEF Inv, TypeOK, SecretsInv

LEMMA CommitsKeepSecrets ==
  ASSUME Inv, SecretsInv,
         \/ \E t \in Edits : HandlerSaves(t)
         \/ SaveEnds \/ SaveFails \/ WatcherReloads
         \/ \E r \in Requests : ApplyRestored(r)
         \/ Restart
  PROVE  SecretsInv'
  <1>0. /\ disk \in Files /\ memory \in Config /\ TypeOK
        /\ disk.config \in ConfigFile
    BY DiskConfig DEF Inv, TypeOK
  <1>1. ASSUME NEW t \in Edits, HandlerSaves(t) PROVE SecretsInv'
    <2>1. Shown([memory EXCEPT !.text = t])
      BY <1>0 DEF SecretsInv, Shown, Config
    <2> QED
      BY <1>0, <1>1, <2>1, SaveShown, AllDirtiedHold DEF HandlerSaves, SecretsInv
  <1>2. CASE SaveEnds
    <2>1. disk'.config \in {disk.config, saving.config}
      BY <1>0, <1>2 DEF SaveEnds, Files
    <2> QED
      BY <1>2, <2>1, AllDirtiedHold, NotConfigs DEF SaveEnds, SecretsInv, NoSave
  <1>3. CASE SaveFails
    <2>1. disk'.config \in {disk.config, saving.config}
      BY <1>0, <1>3 DEF SaveFails, Files
    <2> QED
      BY <1>3, <2>1, AllDirtiedHold, NotConfigs DEF SaveFails, SecretsInv, NoSave
  <1>4. CASE WatcherReloads
    <2>1. PICK c \in ReadAs(disk.config) : Save(c)
      BY <1>4 DEF WatcherReloads
    <2>2. Shown(c)
      BY <1>0, ReadIsShown DEF SecretsInv
    <2> QED
      BY <1>0, <1>4, <2>1, <2>2, SaveShown, AllDirtiedHold
         DEF WatcherReloads, SecretsInv
  <1>5. ASSUME NEW r \in Requests, ApplyRestored(r) PROVE SecretsInv'
    <2>1. req[r] \in Request
      BY <1>5, BusyRequest DEF ApplyRestored, At
    <2>2. Shown(req[r].loaded)
      BY <2>1 DEF SecretsInv, Holds
    <2>3. Shown(disk'.config) /\ Shown(saving'.config)
      BY <1>0, <1>5, <2>2, SaveShown DEF ApplyRestored
    <2> DEFINE rest == [req EXCEPT ![r] = Idle]
    <2>4. rest \in [Requests -> Request \cup {Idle}]
      BY DEF Inv, TypeOK
    <2>5. \A x \in Requests : Holds(rest[x])
      BY NotConfigs DEF Inv, TypeOK, SecretsInv
    <2>6. req' = Dirtied(rest, Requests)
      BY <1>5 DEF ApplyRestored
    <2> HIDE DEF rest
    <2>7. \A x \in Requests : Holds(req'[x])
      BY <2>4, <2>5, <2>6, DirtiedHolds
    <2> QED
      BY <1>5, <2>3, <2>7 DEF ApplyRestored, SecretsInv
  <1>6. CASE Restart
    <2>1. PICK c \in IF saving.here THEN {disk.config, saving.config}
                     ELSE {disk.config} :
            \E read \in ReadAs(c) :
              disk' = [disk EXCEPT !.config = read] /\ memory' = read
      BY <1>6 DEF Restart
    <2>2. PICK read \in ReadAs(c) :
            disk' = [disk EXCEPT !.config = read] /\ memory' = read
      BY <2>1
    <2>3. saving.here => saving.config \in Config
      BY <1>0 DEF TypeOK, Saving, NoSave
    <2>4. c \in ConfigFile /\ Shown(c)
      BY <1>0, <2>1, <2>3 DEF SecretsInv, ConfigFile
    <2>5. Shown(read) /\ disk'.config = read
      BY <1>0, <2>2, <2>4, ReadIsShown DEF SecretsInv, Files
    <2> QED
      BY <1>6, <2>2, <2>5, NotConfigs DEF Restart, SecretsInv, NoSave
  <1> QED
    BY <1>1, <1>2, <1>3, <1>4, <1>5, <1>6

LEMMA RequestsKeepSecrets ==
  ASSUME Inv, SecretsInv,
         \/ SecondPasses
         \/ \E r \in Requests :
              \/ \E u \in Package : Begin(r, u)
              \/ ReadConfig(r) \/ ReadDatabase(r)
              \/ \E p \in Parts : CopyBegins(r, p)
              \/ LoadRestored(r) \/ RestoreFails(r)
  PROVE  SecretsInv'
  <1>0. \A x \in Requests : req[x] = Idle \/ req[x] \in Request
    BY DEF Inv, TypeOK
  <1>1. ASSUME NEW x \in Requests, req[x] \in Request
        PROVE  /\ Holds([req[x] EXCEPT !.current = FALSE])
               /\ Holds([req[x] EXCEPT !.mixed = TRUE])
               /\ Holds([req[x] EXCEPT !.shared = TRUE])
    BY <1>1 DEF SecretsInv, Holds, Request
  <1>2. SUFFICES \A x \in Requests : Holds(req'[x])
    BY DEF SecretsInv, SecondPasses, Begin, ReadConfig, ReadDatabase,
           CopyBegins, LoadRestored, RestoreFails
  <1>3. CASE SecondPasses
    BY <1>0, <1>1, <1>3, NotConfigs DEF SecondPasses
  <1>4. ASSUME NEW r \in Requests, NEW u \in Package, Begin(r, u),
               NEW x \in Requests
        PROVE  Holds(req'[x])
    <2> DEFINE namesakes == {y \in Requests : req[y] # Idle /\ req[y].current}
               fresh == [pc |-> "config", upload |-> u, left |-> {},
                         current |-> TRUE, archive |-> Absent,
                         mixed |-> \E y \in namesakes : Writing(y),
                         shared |-> FALSE, loaded |-> Absent,
                         before |-> Absent, dirty |-> FALSE]
    <2>1. req'[x] = CASE x = r -> fresh
                      [] x \in namesakes -> [req[x] EXCEPT !.mixed = TRUE]
                      [] OTHER -> req[x]
      BY <1>4 DEF Begin
    <2>2. fresh.archive = Absent /\ fresh.loaded = Absent
      OBVIOUS
    <2> HIDE DEF fresh
    <2>3. Holds(fresh)
      BY <2>2, NotConfigs DEF Holds
    <2>4. r \notin namesakes
      BY <1>0, <1>4, AtWork DEF Begin, At
    <2>5. x \in namesakes => Holds([req[x] EXCEPT !.mixed = TRUE])
      BY <1>0, <1>1
    <2> HIDE DEF namesakes
    <2> QED
      BY <2>1, <2>3, <2>4, <2>5 DEF SecretsInv
  <1>5. ASSUME NEW r \in Requests, ReadConfig(r)
        PROVE  \A x \in Requests : Holds(req'[x])
    <2>1. req[r] \in Request
      BY <1>5, BusyRequest DEF ReadConfig, At
    <2>2. PICK c \in {disk.config, Absent} :
            req' = [req EXCEPT ![r].pc = "database", ![r].archive = c]
      BY <1>5 DEF ReadConfig
    <2> DEFINE y == [req[r] EXCEPT !.pc = "database", !.archive = c]
    <2>3. y.archive = c /\ y.loaded = req[r].loaded
      BY <2>1 DEF Request
    <2>4. req' = [req EXCEPT ![r] = y]
      BY <2>2 DEF Inv, TypeOK
    <2> HIDE DEF y
    <2>5. Holds(y)
      BY <2>1, <2>3, HoldsOn
    <2> QED
      BY <2>4, <2>5, OneHolds
  <1>6. ASSUME NEW r \in Requests, ReadDatabase(r)
        PROVE  \A x \in Requests : Holds(req'[x])
    <2> DEFINE y == [req[r] EXCEPT !.pc = "unpack",
                                   !.left = Given(req[r].upload)]
    <2>1. req[r] \in Request
      BY <1>6, BusyRequest DEF ReadDatabase, At
    <2>2. y.archive = req[r].archive /\ y.loaded = req[r].loaded
      BY <2>1 DEF Request
    <2>3. \/ req' = [req EXCEPT ![r] = Idle]
          \/ req' = [req EXCEPT ![r] = y]
      BY <1>6 DEF ReadDatabase, Inv, TypeOK
    <2> HIDE DEF y
    <2> QED
      BY <2>1, <2>2, <2>3, HoldsOn, OneHolds, NotConfigs
  <1>7. ASSUME NEW r \in Requests, NEW p \in Parts, CopyBegins(r, p),
               NEW x \in Requests
        PROVE  Holds(req'[x])
    <2> DEFINE y == [req[r] EXCEPT !.pc = Copying(p), !.left = @ \ {p},
                                   !.shared = Copiers(r, p) # {}]
    <2>1. req[r] \in Request
      BY <1>7, BusyRequest DEF CopyBegins, At
    <2>2. y.archive = req[r].archive /\ y.loaded = req[r].loaded
      BY <2>1 DEF Request
    <2>3. Holds(y)
      <3> HIDE DEF y
      <3> QED
        BY <2>1, <2>2, HoldsOn
    <2>4. req'[x] = CASE x = r -> y
                      [] x \in Copiers(r, p) -> [req[x] EXCEPT !.shared = TRUE]
                      [] OTHER -> req[x]
      BY <1>7 DEF CopyBegins
    <2>5. x \in Copiers(r, p) => x # r /\ req[x] \in Request
      BY <1>0, AtWork DEF Copiers, At, Copying, Idle
    <2> HIDE DEF y
    <2> QED
      BY <1>1, <2>3, <2>4, <2>5 DEF SecretsInv
  <1>8. ASSUME NEW r \in Requests, LoadRestored(r)
        PROVE  \A x \in Requests : Holds(req'[x])
    <2>1. req[r] \in Request
      BY <1>8, BusyRequest DEF LoadRestored, At
    <2>2. CASE req' = [req EXCEPT ![r] = Idle]
      BY <2>2, OneHolds, NotConfigs
    <2>3. ASSUME NEW c \in ReadAs(disk.config),
                 req' = [req EXCEPT ![r].pc = "apply", ![r].loaded = c]
          PROVE  \A x \in Requests : Holds(req'[x])
      <3> DEFINE y == [req[r] EXCEPT !.pc = "apply", !.loaded = c]
      <3>1. Shown(c)
        BY <2>3, DiskConfig, ReadIsShown DEF Inv, SecretsInv
      <3>2. y.archive = req[r].archive /\ y.loaded = c
        BY <2>1 DEF Request
      <3>3. req' = [req EXCEPT ![r] = y]
        BY <2>3 DEF Inv, TypeOK
      <3> HIDE DEF y
      <3>4. Holds(y)
        BY <2>1, <3>1, <3>2, HoldsOn
      <3> QED
        BY <3>3, <3>4, OneHolds
    <2> QED
      BY <1>8, <2>2, <2>3 DEF LoadRestored
  <1>9. ASSUME NEW r \in Requests, RestoreFails(r)
        PROVE  \A x \in Requests : Holds(req'[x])
    BY <1>9, OneHolds, NotConfigs DEF RestoreFails
  <1> QED
    BY <1>3, <1>4, <1>5, <1>6, <1>7, <1>8, <1>9

(* What users upload has its secrets, so that the file that a restore      *)
(* puts in place has them, too.                                            *)
LEMMA CopyKeepsSecrets ==
  ASSUME Inv, SecretsInv, NEW r \in Requests, NEW p \in Parts, CopyEnds(r, p)
  PROVE  SecretsInv'
  <1> DEFINE a == Advanced(r)
             done == [req EXCEPT ![r] = a]
  <1>1. req[r] \in Request /\ RequestInv(req[r], disk.config)
    BY BusyRequest DEF CopyEnds, CopyEndsOf, At, Copying
  <1>2. PICK c \in Copied(r, p) : disk' = [disk EXCEPT ![p] = c]
    BY DEF CopyEnds, CopyEndsOf
  <1>3. Shown(disk'.config)
    <2>1. CASE p = "config"
      <3>1. req[r].upload.config \in {Plain(t) : t \in Uploaded} \cup {Absent}
        BY <1>1 DEF Request, Package
      <3>2. Shown(req[r].upload.config)
        BY <3>1, NotConfigs DEF Shown, Plain
      <3>3. Shown(c)
        BY <1>2, <2>1, <3>2, NotConfigs DEF Copied, SecretsInv
      <3>4. disk'.config = c
        BY <1>2, <2>1 DEF Inv, TypeOK, Files
      <3> QED
        BY <3>3, <3>4
    <2>2. CASE p = "database"
      BY <1>2, <2>2 DEF Inv, TypeOK, Files, SecretsInv
    <2> QED
      BY <2>1, <2>2 DEF Parts
  <1>4. saving'.config = saving.config
    <2>1. saving' = [saving EXCEPT !.here = @ /\ p # "config"]
      BY DEF CopyEnds
    <2>2. CASE saving = NoSave
      BY <2>1, <2>2 DEF NoSave
    <2>3. CASE saving \in Saving
      BY <2>1, <2>3 DEF Saving
    <2> QED
      BY <2>2, <2>3 DEF Inv, TypeOK
  <1>5. \/ a = Idle
        \/ /\ a.archive = req[r].archive
           /\ a.loaded = req[r].loaded
    <2>1. At(r, Copying(p))
      BY DEF CopyEnds, CopyEndsOf
    <2>2. a # Idle =>
            \A f \in {"upload", "left", "archive", "before", "dirty", "loaded"} :
              a[f] = req[r][f]
      BY <2>1, AdvancedIsGood
    <2> HIDE DEF a
    <2> QED
      BY <2>2
  <1>6. a \in Request \cup {Idle}
    BY AdvancedIsGood DEF CopyEnds, CopyEndsOf
  <1>7. req' = IF p = "database" THEN done
               ELSE [Dirtied(done, Requests \ {r}) EXCEPT ![r].before = disk.config]
    BY DEF CopyEnds, CopyEndsOf
  <1> HIDE DEF a
  <1>8. Holds(a)
    BY <1>1, <1>5, HoldsOn, NotConfigs
  <1>9. /\ done \in [Requests -> Request \cup {Idle}]
        /\ \A x \in Requests : Holds(done[x])
    BY <1>6, <1>8 DEF Inv, TypeOK, SecretsInv
  <1> HIDE DEF done
  <1>10. ASSUME NEW x \in Requests PROVE Holds(req'[x])
    <2> DEFINE ds == Dirtied(done, Requests \ {r})
    <2>1. Holds(ds[x]) /\ ds \in [Requests -> Request \cup {Idle}]
      BY <1>9, DirtiedHolds, DirtiedType
    <2> HIDE DEF ds
    <2>2. Holds([ds[x] EXCEPT !.before = disk.config])
      <3> DEFINE y == [ds[x] EXCEPT !.before = disk.config]
      <3>1. CASE ds[x] = Idle
        <4>1. y.pc = "idle"
          BY <3>1 DEF Idle
        <4> QED
          BY <4>1 DEF Holds, Request, Steps
      <3>2. CASE ds[x] \in Request
        <4>1. y.archive = ds[x].archive /\ y.loaded = ds[x].loaded
          BY <3>2 DEF Request
        <4> HIDE DEF y
        <4>2. Holds(y)
          BY <2>1, <3>2, <4>1 DEF Holds
        <4> QED
          BY <4>2 DEF y
      <3> QED
        BY <2>1, <3>1, <3>2
    <2>3. req' = done \/ req' = [ds EXCEPT ![r].before = disk.config]
      BY <1>7 DEF ds
    <2> QED
      BY <1>9, <2>1, <2>2, <2>3
  <1> QED
    BY <1>3, <1>4, <1>10 DEF CopyEnds, CopyEndsOf, SecretsInv

(* BackupHoldsSecrets does not hold, because of the diagnostic package     *)
(* that redacts the elements which it shares with the manager.  Nothing    *)
(* else loses secrets: as long as no such package is made, every backup    *)
(* and every safety copy has them, whatever commits, restores, failures    *)
(* and restarts there are.                                                 *)
THEOREM OnlyDiagnosticsRedact ==
  Init /\ [][Next /\ ~CreateDiagnosticPackage]_vars => []BackupHoldsSecrets
  <1>1. Init => SecretsInv
    <2>1. ~Plain(First).hidden
      BY DEF Plain
    <2> QED
      BY <2>1, NotConfigs DEF Init, SecretsInv, Shown, NoSave
  <1>2. Inv /\ SecretsInv /\ [Next /\ ~CreateDiagnosticPackage]_vars
        => SecretsInv'
    <2> SUFFICES ASSUME Inv, SecretsInv,
                        [Next /\ ~CreateDiagnosticPackage]_vars
                 PROVE  SecretsInv'
      OBVIOUS
    <2>1. CASE UNCHANGED vars
      BY <2>1 DEF vars, SecretsInv
    <2>2. CASE Next /\ ~CreateDiagnosticPackage
      BY <2>2, CommitsKeepSecrets, RequestsKeepSecrets, CopyKeepsSecrets
         DEF Next
    <2> QED
      BY <2>1, <2>2
  <1>3. Inv /\ SecretsInv => BackupHoldsSecrets
    BY DEF Inv, TypeOK, SecretsInv, Holds, Shown, BackupHoldsSecrets
  <1>4. [Next /\ ~CreateDiagnosticPackage]_vars => [Next]_vars
    OBVIOUS
  <1> QED
    BY <1>1, <1>2, <1>3, <1>4, Invariant, PTL DEF Spec

=============================================================================
