------------------------------ MODULE Snapshots ------------------------------
(***************************************************************************)
(* snapshot.c, multicam.c and the file half of vapix.c: pictures taken on  *)
(* the transitions of the rules, from the camera and from other cameras,   *)
(* and pruned to a limit; and, in the CGI process, the pictures taken by   *)
(* hand, which share the directory and know nothing of the limit.          *)
(*                                                                         *)
(* A picture's name is the second its capture began and what was captured, *)
(* so two captures may have one name.  A capture truncates the file of its *)
(* name, fills it, and unlinks whatever has that name if it fails.  The    *)
(* prune reads the directory entry by entry; any of its calls may fail,    *)
(* and each failure is passed over.                                        *)
(***************************************************************************)
EXTENDS Naturals, Sequences, FiniteSets, Functions

CONSTANTS
  Event,     \* the rules whose transitions are photographed
  Camera,    \* the other cameras
  Label,     \* what a picture's name says after the time
  Manual, Test_Snapshot,  \* the labels of pictures taken by hand
  Safe,      \* the label of a rule, as sanitize_type writes it
  Labelled,  \* the label of a camera and a rule, as sanitize writes them
  Settings,  \* the settings an operator may save
  Before,    \* the .jpg files that may be in the directory to begin with
  ScanMax,   \* PRUNE_MAX_FILES
  MaxFiles,  \* bound on the captures of a behaviour
  MaxTime    \* bound on the clock, in seconds

Proc   == {"daemon", "cgi"}
Action == {"activated", "cleared"}

Setting ==
  [enabled : BOOLEAN,         \* SnapshotEnabled
   on : SUBSET Action,        \* SnapshotOnActivate, SnapshotOnClear
   cams : Seq(Camera),
   max : Nat]                 \* SnapshotMaxCount; 0 keeps everything

ASSUME LabelAssumption ==
  /\ {Manual, Test_Snapshot} \subseteq Label
  /\ Safe \in [Event -> Label] /\ Labelled \in [Camera \X Event -> Label]
ASSUME BeforeAssumption ==
  \A b \in Before :
    /\ b \in Seq([name : [at : {0}, what : Label], mtime : {0}, whole : {TRUE}])
    /\ Len(b) <= MaxFiles
    /\ \A m, n \in 1..Len(b) : b[m].name = b[n].name => m = n
ASSUME SettingsAssumption == Settings \subseteq Setting
ASSUME BoundAssumption == ScanMax \in Nat \ {0} /\ MaxFiles \in Nat /\ MaxTime \in Nat

VARIABLES
  now,       \* the clock
  file,      \* what was there, and what the captures so far have written
  dir,       \* the directory: the file each name stands for
  job,       \* what each process is at
  since,     \* what was opened since the last scan began
  spared,    \* what the last prune could not stat or unlink
  limit      \* the limit the last prune enforced; 0 if it did not finish

vars == <<now, file, dir, job, since, spared, limit>>

Serial == 1..MaxFiles
Time   == 0..MaxTime
Name   == [at : Time, what : Label]

Shoot(what) == [do |-> "shoot", what |-> what]
Stamp       == [do |-> "stamp"]
Prune       == [do |-> "prune"]

NoJob == [todo |-> << >>, at |-> 0, max |-> 0, got |-> FALSE, writing |-> 0,
          scanning |-> FALSE, read |-> << >>, victims |-> {}]

TypeOK ==
  /\ now \in Time
  /\ Len(file) <= MaxFiles
  /\ \A n \in 1..Len(file) :
       file[n] \in [name : Name, mtime : Time, whole : BOOLEAN]
  /\ DOMAIN dir \subseteq Name
  /\ \A name \in DOMAIN dir : dir[name] \in 1..Len(file) /\ file[dir[name]].name = name
  /\ \A p \in Proc :
       /\ job[p].at \in Time /\ job[p].max \in Nat /\ job[p].got \in BOOLEAN
       /\ job[p].writing \in 0..Len(file)
       /\ job[p].scanning \in BOOLEAN
       /\ \A name \in DOMAIN job[p].read :
            job[p].read[name] \in [n : 1..Len(file), mtime : Time]
       /\ job[p].victims \subseteq Name
       /\ job[p].todo = << >> => job[p] = NoJob
  /\ since \subseteq Serial /\ spared \subseteq Serial
  /\ limit \in Nat

Init ==
  /\ now = 0
  /\ file \in Before
  /\ dir = [name \in {file[n].name : n \in 1..Len(file)} |->
              CHOOSE n \in 1..Len(file) : file[n].name = name]
  /\ job = [p \in Proc |-> NoJob]
  /\ since = {} /\ spared = {}
  /\ limit = 0

-----------------------------------------------------------------------------
(***************************************************************************)
(* What on_alert_transition has photographed: the camera's own picture and *)
(* a prune, then, with a time stamp of their own, those of the other       *)
(* cameras and one prune for all of them.                                  *)
(***************************************************************************)
Cameras(s, e) ==
  IF s.cams = << >> THEN << >>
  ELSE <<Stamp>> \o [i \in 1..Len(s.cams) |-> Shoot(Labelled[<<s.cams[i], e>>])]
                 \o <<Prune>>

Local(s, e) == IF s.enabled THEN <<Shoot(Safe[e]), Prune>> ELSE << >>

Begin(p, todo, max) ==
  /\ job[p] = NoJob
  /\ todo # << >>
  /\ job' = [job EXCEPT ![p] = [NoJob EXCEPT !.todo = todo, !.at = now, !.max = max]]
  /\ UNCHANGED <<now, file, dir, since, spared, limit>>

(* s is what the poll read when it began.                                  *)
Transition(e, action, s) ==
  /\ action \in s.on
  /\ Begin("daemon", Local(s, e) \o Cameras(s, e), s.max)

(* The web UI's buttons: no limit, and SnapshotEnabled is not asked.       *)
endpoint_capture_now   == Begin("cgi", <<Shoot(Manual)>>, 0)
endpoint_test_snapshot == Begin("cgi", <<Shoot(Test_Snapshot)>>, 0)

At(p, what) == job[p].todo # << >> /\ Head(job[p].todo).do = what

(* Defective: the end of the last step is not noticed.                     *)
NeverDone(p, got) ==
  [job[p] EXCEPT !.todo = Tail(@), !.got = got, !.writing = 0,
                  !.scanning = FALSE, !.read = << >>, !.victims = {}]

(* The job after its current step.                                         *)
Next1(p, got) ==
  IF Len(job[p].todo) = 1 THEN NoJob
  ELSE [job[p] EXCEPT !.todo = Tail(@), !.got = got, !.writing = 0,
                  !.scanning = FALSE, !.read = << >>, !.victims = {}]

NewStamp(p) ==
  /\ At(p, "stamp")
  /\ job' = [job EXCEPT ![p] = [Next1(p, FALSE) EXCEPT !.at = now]]
  /\ UNCHANGED <<now, file, dir, since, spared, limit>>

-----------------------------------------------------------------------------
(***************************************************************************)
(* vapix_snapshot_to_file and its remote twin.                             *)
(***************************************************************************)
NameOf(p) == [at |-> job[p].at, what |-> Head(job[p].todo).what]
Without(name) == Restrict(dir, DOMAIN dir \ {name})

(* fopen(path, "wb"): a new file, or the one of that name emptied, which   *)
(* is the end of what it held.                                             *)
Open(p) ==
  /\ At(p, "shoot") /\ job[p].writing = 0
  /\ LET name == NameOf(p)
         n    == Len(file) + 1
     IN  /\ n <= MaxFiles
         /\ file' = Append(file, [name |-> name, mtime |-> now, whole |-> FALSE])
         /\ dir' = [m \in DOMAIN dir \cup {name} |-> IF m = name THEN n ELSE dir[m]]
         /\ since' = since \cup {n}
         /\ job' = [job EXCEPT ![p].writing = n]
  /\ UNCHANGED <<now, spared, limit>>

(* The directory cannot be made or written: nothing is taken.              *)
OpenFails(p) ==
  /\ At(p, "shoot") /\ job[p].writing = 0
  /\ job' = [job EXCEPT ![p] = Next1(p, job[p].got)]
  /\ UNCHANGED <<now, file, dir, since, spared, limit>>

(* The picture has come; if the file was pruned meanwhile, nobody notices. *)
Saved(p) ==
  /\ At(p, "shoot") /\ job[p].writing # 0
  /\ file' = [file EXCEPT ![job[p].writing].whole = TRUE,
                          ![job[p].writing].mtime = now]
  /\ job' = [job EXCEPT ![p] = Next1(p, TRUE)]
  /\ UNCHANGED <<now, dir, since, spared, limit>>

(* No answer, another code than 200, or an error page.                     *)
Fails(p) ==
  /\ At(p, "shoot") /\ job[p].writing # 0
  /\ dir' = Without(NameOf(p))
  /\ job' = [job EXCEPT ![p] = Next1(p, job[p].got)]
  /\ UNCHANGED <<now, file, since, spared, limit>>

-----------------------------------------------------------------------------
(***************************************************************************)
(* snapshot_prune, after a picture was saved: the first ScanMax entries of *)
(* the directory, in no order, are scanned; the oldest of them are         *)
(* unlinked, one by one, until max are left.                               *)
(***************************************************************************)
(* Defective: the order of prune_cmp reversed.                             *)
Newest(read, k) ==
  {V \in SUBSET DOMAIN read :
     /\ Cardinality(V) = k
     /\ \A v \in V, u \in DOMAIN read \ V : read[v].mtime >= read[u].mtime}

(* The sets of the k oldest names; qsort leaves ties in any order.         *)
Oldest(read, k) ==
  {V \in SUBSET DOMAIN read :
     /\ Cardinality(V) = k
     /\ \A v \in V, u \in DOMAIN read \ V : read[v].mtime <= read[u].mtime}

(* Defective: one more than the limit is kept.                             *)
OneTooFew(S, max) == IF Cardinality(S) <= max + 1 THEN 0 ELSE Cardinality(S) - (max + 1)

ToDelete(S, max) == IF Cardinality(S) <= max THEN 0 ELSE Cardinality(S) - max

PruneSkipped(p) ==
  /\ At(p, "prune") /\ (~job[p].got \/ job[p].max = 0)
  /\ job' = [job EXCEPT ![p] = Next1(p, FALSE)]
  /\ UNCHANGED <<now, file, dir, since, spared, limit>>

(* opendir fails: the limit is not looked at.                              *)
OpendirFails(p) ==
  /\ At(p, "prune") /\ job[p].got /\ job[p].max > 0
  /\ ~job[p].scanning /\ job[p].victims = {}
  /\ job' = [job EXCEPT ![p] = Next1(p, FALSE)]
  /\ UNCHANGED <<now, file, dir, since, spared, limit>>

Opendir(p) ==
  /\ At(p, "prune") /\ job[p].got /\ job[p].max > 0
  /\ ~job[p].scanning /\ job[p].victims = {}
  /\ job' = [job EXCEPT ![p].scanning = TRUE]
  /\ since' = {} /\ spared' = {} /\ limit' = 0
  /\ UNCHANGED <<now, file, dir>>

(* The entries that readdir still has to return; it may leave out, and may *)
(* return, what came after it began, and returns nothing twice.            *)
Unread(p) ==
  {name \in DOMAIN dir : name \notin DOMAIN job[p].read /\ dir[name] \notin spared}

HasSpace(p) == Cardinality(DOMAIN job[p].read) < ScanMax

(* One entry and its stat; what is gone by then is passed over.            *)
ReadEntry(p) ==
  /\ job[p].scanning /\ HasSpace(p)
  /\ \E name \in Unread(p) :
       LET entry == [n |-> dir[name], mtime |-> file[dir[name]].mtime]
       IN  job' = [job EXCEPT ![p].read =
                     [m \in DOMAIN @ \cup {name} |-> IF m = name THEN entry ELSE @[m]]]
  /\ UNCHANGED <<now, file, dir, since, spared, limit>>

(* stat fails: the entry is skipped, and does not count.                   *)
StatFails(p) ==
  /\ job[p].scanning /\ HasSpace(p)
  /\ \E name \in Unread(p) : spared' = spared \cup {dir[name]}
  /\ UNCHANGED <<now, file, dir, job, since, limit>>

AllRead(p) == \A name \in Unread(p) : dir[name] \in since

(* The end of the directory, or no more space: the oldest are chosen.      *)
Choose(p) ==
  /\ job[p].scanning
  /\ AllRead(p) \/ ~HasSpace(p)
  /\ LET read == job[p].read
     IN  \E V \in Oldest(read, ToDelete(DOMAIN read, job[p].max)) :
           job' = [job EXCEPT ![p] =
                     IF V = {} THEN Next1(p, FALSE)
                     ELSE [@ EXCEPT !.scanning = FALSE, !.read = << >>, !.victims = V]]
  /\ limit' = IF AllRead(p) THEN job[p].max ELSE 0
  /\ UNCHANGED <<now, file, dir, since, spared>>

(* The job without a file that it was going to unlink.                     *)
Struck(p, name) ==
  IF job[p].victims = {name} THEN Next1(p, FALSE)
  ELSE [job[p] EXCEPT !.victims = @ \ {name}]

Unlink(p) ==
  /\ \E name \in job[p].victims :
       /\ dir' = Without(name)
       /\ job' = [job EXCEPT ![p] = Struck(p, name)]
  /\ UNCHANGED <<now, file, since, spared, limit>>

(* unlink fails: this is logged, and the next file is tried.               *)
UnlinkFails(p) ==
  /\ \E name \in job[p].victims \cap DOMAIN dir :
       /\ spared' = spared \cup {dir[name]}
       /\ job' = [job EXCEPT ![p] = Struck(p, name)]
  /\ UNCHANGED <<now, file, dir, since, limit>>

snapshot_prune(p) ==
  \/ PruneSkipped(p) \/ OpendirFails(p)
  \/ Opendir(p) \/ ReadEntry(p) \/ StatFails(p) \/ Choose(p)
  \/ Unlink(p) \/ UnlinkFails(p)

-----------------------------------------------------------------------------
(* A process dies and another takes its place.                             *)
Restart(p) ==
  /\ job[p] # NoJob
  /\ job' = [job EXCEPT ![p] = NoJob]
  /\ limit' = IF job[p].victims # {} THEN 0 ELSE limit
  /\ UNCHANGED <<now, file, dir, since, spared>>

Tick ==
  /\ now < MaxTime
  /\ now' = now + 1
  /\ UNCHANGED <<file, dir, job, since, spared, limit>>

snapshot_capture(p) == Open(p) \/ OpenFails(p) \/ Saved(p) \/ Fails(p)

Next ==
  \/ \E e \in Event, a \in Action, s \in Settings : Transition(e, a, s)
  \/ endpoint_capture_now \/ endpoint_test_snapshot
  \/ \E p \in Proc : snapshot_capture(p) \/ NewStamp(p) \/ snapshot_prune(p) \/ Restart(p)
  \/ Tick

Spec == Init /\ [][Next]_vars

-----------------------------------------------------------------------------
Listed == {dir[name] : name \in DOMAIN dir}

(* README: the limit "automatically deletes the oldest .jpg files after    *)
(* each new capture".  Of the files that were there when the last prune    *)
(* began to scan the directory, no more than the limit are left once it is *)
(* done, whatever was captured by hand, failed or was overwritten          *)
(* meanwhile, as long as the scan reached the end of the directory and the *)
(* prune was finished; but for those whose stat or unlink failed, which    *)
(* stay on top of the limit until a later prune.                           *)
LimitHolds ==
  limit > 0 => Cardinality(Listed \ (since \cup spared))
                 <= limit + Cardinality(job["daemon"].victims)

(* A saved picture is lost only to a prune, for as many others as the      *)
(* limit allows, all written since its capture began, or to a capture of   *)
(* its name: one begun in the same second for a rule or a label that is    *)
(* written alike, whether that succeeds (Open) or not (Fails).             *)
Kept(n) == n \in Listed /\ file[n].whole

LossHasCause ==
  [][\A n \in 1..Len(file) :
       (Kept(n) /\ ~Kept(n)') =>
         \/ Cardinality({m \in 1..Len(file) \ {n} : file[m].mtime >= file[n].name.at})
              >= job["daemon"].max /\ job["daemon"].max > 0
         \/ \E p \in Proc : At(p, "shoot") /\ NameOf(p) = file[n].name]_vars
=============================================================================
