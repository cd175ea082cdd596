--------------------------- MODULE SnapshotsProofs ---------------------------
(***************************************************************************)
(* Pictures for any rules, settings, names, limits and numbers of          *)
(* captures: the types, the limit of a prune, and what pictures are lost   *)
(* to.                                                                     *)
(***************************************************************************)
EXTENDS Snapshots, SequenceTheorems, FiniteSetTheorems, TLAPS

File == [name : Name, mtime : Time, whole : BOOLEAN]
Step == [do : {"shoot"}, what : Label] \cup [do : {"stamp", "prune"}]
Read == UNION {[D -> [n : Nat, mtime : Time]] : D \in SUBSET Name}
Job  == [todo : Seq(Step), at : Time, max : Nat, got : BOOLEAN, writing : Nat,
         scanning : BOOLEAN, read : Read, victims : SUBSET Name]

Shapes ==
  /\ now \in Time
  /\ file \in Seq(File) /\ Len(file) <= MaxFiles
  /\ job \in [Proc -> Job]
  /\ since \subseteq Serial /\ spared \subseteq Serial /\ limit \in Nat

(* A name stands for a file that was opened under it.                      *)
DirOK ==
  /\ DOMAIN dir \subseteq Name /\ IsFiniteSet(DOMAIN dir)
  /\ dir \in [DOMAIN dir -> 1..Len(file)]
  /\ \A name \in DOMAIN dir : file[dir[name]].name = name

(* What is to be done never ends with a time stamp: a prune follows.       *)
EndsWell(todo) == todo # << >> => todo[Len(todo)].do # "stamp"

(* A job of process p: what it holds belongs to its current step, and only *)
(* the daemon, with a limit, has chosen what to unlink.                    *)
JobFits(p, j, files) ==
  /\ j.todo = << >> => j = NoJob
  /\ EndsWell(j.todo)
  /\ j.writing # 0 => j.todo # << >> /\ Head(j.todo).do = "shoot" /\ j.writing <= files
  /\ j.victims # {} \/ j.scanning =>
       /\ j.todo # << >> /\ Head(j.todo).do = "prune"
       /\ j.got /\ j.max > 0
  /\ j.victims # {} => ~j.scanning
  /\ ~j.scanning => j.read = << >>
  /\ IsFiniteSet(j.victims) /\ IsFiniteSet(DOMAIN j.read)
  /\ p = "cgi" => j.max = 0
  /\ j.at <= now

JobsOK == \A p \in Proc : JobFits(p, job[p], Len(file))

(* The clock does not run backwards.                                       *)
TimesOK ==
  \A n \in 1..Len(file) : file[n].name.at <= file[n].mtime /\ file[n].mtime <= now

(* What a scan has read of the directory: files of those names, whose time *)
(* may have changed since, to a later one.                                 *)
ReadOK ==
  \A p \in Proc : \A m \in DOMAIN job[p].read :
    /\ job[p].read[m].n \in 1..Len(file)
    /\ file[job[p].read[m].n].name = m
    /\ m.at <= job[p].read[m].mtime
    /\ job[p].read[m].mtime <= file[job[p].read[m].n].mtime

Sound == Shapes /\ DirOK /\ JobsOK /\ TimesOK /\ ReadOK

(* For each picture that is going to be unlinked there are as many others  *)
(* as the limit allows, written since the capture of its name began.       *)
VictimsOlder ==
  \A v \in job["daemon"].victims :
    \E U \in SUBSET (1..Len(file)) :
      /\ Cardinality(U) >= job["daemon"].max
      /\ \A m \in U : file[m].name # v /\ file[m].mtime >= v.at

(* Of what the last prune scanned, the names it did not choose hold no     *)
(* more than the limit.                                                    *)
Survivors ==
  {dir[name] : name \in DOMAIN dir \ job["daemon"].victims} \ (since \cup spared)

SurvivorsFew == limit > 0 => Cardinality(Survivors) <= limit

IInv == Sound /\ VictimsOlder /\ SurvivorsFew

-----------------------------------------------------------------------------
LEMMA FunctionSeq ==
  ASSUME NEW S, NEW n \in Nat, NEW f \in [1..n -> S]
  PROVE  f \in Seq(S)
OBVIOUS

(* A concatenation ends with what its second part ends with.               *)
LEMMA LastOfConcat ==
  ASSUME NEW S, NEW a \in Seq(S), NEW b \in Seq(S), b # << >>
  PROVE  /\ a \o b \in Seq(S) /\ a \o b # << >>
         /\ (a \o b)[Len(a \o b)] = b[Len(b)]
<1> DEFINE m == Len(a)
           k == Len(b)
<1>1. m \in Nat /\ k \in Nat /\ k # 0
  BY LenProperties, EmptySeq
<1>2. /\ a \o b \in Seq(S) /\ Len(a \o b) = m + k
      /\ \A i \in 1..(m + k) : (a \o b)[i] = IF i <= m THEN a[i] ELSE b[i - m]
  BY ConcatProperties
<1> HIDE DEF m, k
<1>3. m + k \in 1..(m + k) /\ ~(m + k <= m) /\ (m + k) - m = k
  BY <1>1
<1>4. (a \o b)[m + k] = b[k]
  BY <1>2, <1>3
<1>5. a \o b # << >>
  BY <1>1, <1>2, EmptySeq
<1> QED BY <1>2, <1>4, <1>5 DEF k

(* The image of a finite set.                                              *)
LEMMA ImageOf ==
  ASSUME NEW f, NEW S, IsFiniteSet(S)
  PROVE  /\ IsFiniteSet({f[x] : x \in S})
         /\ Cardinality({f[x] : x \in S}) <= Cardinality(S)
         /\ (\A x, y \in S : f[x] = f[y] => x = y) =>
              Cardinality({f[x] : x \in S}) = Cardinality(S)
<1> DEFINE T == {f[x] : x \in S}
           g == [x \in S |-> f[x]]
<1>1. g \in Surjection(S, T)
  BY DEF Surjection
<1>2. (\A x, y \in S : f[x] = f[y] => x = y) => g \in Injection(S, T)
  BY DEF Injection, IsInjective
<1> HIDE DEF T, g
<1>3. /\ IsFiniteSet(T) /\ Cardinality(T) <= Cardinality(S)
      /\ Cardinality(T) = Cardinality(S) <=> g \in Injection(S, T)
  BY <1>1, FS_Surjection
<1> QED BY <1>2, <1>3 DEF T

LEMMA NothingRead == << >> \in Read /\ DOMAIN << >> = {}
<1>1. << >> \in [{} -> [n : Nat, mtime : Time]] /\ DOMAIN << >> = {}
  OBVIOUS
<1> QED BY <1>1 DEF Read

LEMMA NoJobType ==
  ASSUME now \in Time
  PROVE  /\ NoJob \in Job /\ NoJob.todo = << >> /\ NoJob.victims = {} /\ NoJob.writing = 0
         /\ ~NoJob.scanning /\ NoJob.read = << >>
         /\ \A p \in Proc, n \in Nat : JobFits(p, NoJob, n)
<1>1. 0 \in Time /\ << >> \in Seq(Step) /\ 0 <= now
  BY BoundAssumption, EmptySeq DEF Time
<1>2. NoJob \in Job
  BY <1>1, NothingRead DEF NoJob, Job
<1>3. ASSUME NEW p \in Proc, NEW n \in Nat PROVE JobFits(p, NoJob, n)
  BY <1>1, FS_EmptySet, NothingRead DEF NoJob, JobFits, EndsWell
<1> QED BY <1>2, <1>3 DEF NoJob

(* The job after a step: idle or at its next step, holding nothing.        *)
LEMMA Next1Fits ==
  ASSUME Sound, NEW p \in Proc, job[p].todo # << >>, NEW got \in BOOLEAN
  PROVE  /\ Next1(p, got) \in Job
         /\ Next1(p, got).victims = {} /\ Next1(p, got).writing = 0
         /\ ~Next1(p, got).scanning /\ Next1(p, got).read = << >>
         /\ \A n \in Nat : JobFits(p, Next1(p, got), n)
         /\ Head(job[p].todo).do = "stamp" => Next1(p, got).todo # << >>
<1>1. job[p] \in Job /\ JobFits(p, job[p], Len(file)) /\ now \in Time
  BY DEF Sound, Shapes, JobsOK
<1>2. CASE Len(job[p].todo) = 1
  <2>1. Head(job[p].todo) = job[p].todo[Len(job[p].todo)]
    BY <1>2
  <2> QED BY <1>1, <1>2, <2>1, NoJobType DEF Next1, JobFits, EndsWell
<1>3. CASE Len(job[p].todo) # 1
  <2> DEFINE todo == job[p].todo
  <2>1. todo \in Seq(Step) /\ todo # << >>
    BY <1>1 DEF Job
  <2>2. Tail(todo) \in Seq(Step) /\ Len(todo) \in Nat /\ Len(Tail(todo)) = Len(todo) - 1
    BY <2>1, HeadTailProperties, LenProperties
  <2>3. Tail(todo) # << >>
    <3>1. Len(Tail(todo)) # 0
      BY <1>3, <2>2
    <3> QED BY <3>1, EmptySeq
  <2> DEFINE j == [job[p] EXCEPT !.todo = Tail(todo), !.got = got, !.writing = 0,
                                 !.scanning = FALSE, !.read = << >>, !.victims = {}]
  <2>4. Next1(p, got) = j
    BY <1>3 DEF Next1
  <2>5. /\ j \in Job /\ j.todo = Tail(todo) /\ j.writing = 0 /\ j.victims = {}
        /\ j.max = job[p].max /\ j.at = job[p].at /\ ~j.scanning /\ j.read = << >>
    BY <1>1, <2>2, NothingRead DEF Job
  <2>a. EndsWell(Tail(todo))
    <3>1. EndsWell(todo)
      BY <1>1 DEF JobFits
    <3> DEFINE k == Len(Tail(todo))
    <3>2. k \in Nat /\ k # 0 /\ k + 1 = Len(todo)
      <4>1. k # 0
        BY <2>2, <2>3, EmptySeq
      <4> HIDE DEF k, todo
      <4> QED BY <2>2, <4>1 DEF k
    <3> HIDE DEF k
    <3>3. Tail(todo)[k] = todo[k + 1]
      <4> HIDE DEF todo
      <4>1. \A i \in 1..k : Tail(todo)[i] = todo[i + 1]
        BY <2>1, HeadTailProperties DEF k
      <4> QED BY <3>2, <4>1
    <3> HIDE DEF todo
    <3> QED BY <2>1, <3>1, <3>2, <3>3 DEF EndsWell, k
  <2> HIDE DEF todo, j
  <2>6. \A n \in Nat : JobFits(p, j, n)
    BY <1>1, <2>3, <2>5, <2>a, FS_EmptySet, NothingRead DEF JobFits
  <2> QED BY <2>3, <2>4, <2>5, <2>6
<1> QED BY <1>2, <1>3

-----------------------------------------------------------------------------
(***************************************************************************)
(* The steps that change nothing but one job, which holds nothing before   *)
(* or after.                                                               *)
(***************************************************************************)
Quiet(p) ==
  \/ \E e \in Event, a \in Action, s \in Settings : p = "daemon" /\ Transition(e, a, s)
  \/ p = "cgi" /\ (endpoint_capture_now \/ endpoint_test_snapshot)
  \/ NewStamp(p) \/ OpenFails(p) \/ PruneSkipped(p) \/ OpendirFails(p)

LEMMA CamerasType ==
  ASSUME NEW s \in Settings, NEW e \in Event
  PROVE  /\ Local(s, e) \o Cameras(s, e) \in Seq(Step)
         /\ EndsWell(Local(s, e) \o Cameras(s, e))
<1>1. s \in Setting /\ Safe[e] \in Label
  BY SettingsAssumption, LabelAssumption
<1>2. Shoot(Safe[e]) \in Step /\ Stamp \in Step /\ Prune \in Step
  BY <1>1 DEF Shoot, Stamp, Prune, Step
<1>3. Local(s, e) \in Seq(Step)
  BY <1>2 DEF Local
<1>4. s.cams \in Seq(Camera) /\ Len(s.cams) \in Nat
  BY <1>1, LenProperties DEF Setting
<1> DEFINE n == Len(s.cams)
<1>5. \A i \in 1..n : Shoot(Labelled[<<s.cams[i], e>>]) \in Step
  <2> SUFFICES ASSUME NEW i \in 1..n PROVE Shoot(Labelled[<<s.cams[i], e>>]) \in Step
    OBVIOUS
  <2>1. <<s.cams[i], e>> \in Camera \X Event
    BY <1>4, ElementOfSeq
  <2>2. Labelled[<<s.cams[i], e>>] \in Label
    BY <2>1, LabelAssumption
  <2> QED BY <2>2 DEF Shoot, Step
<1>6. n \in Nat
  BY <1>4
<1> HIDE DEF n
<1> DEFINE shots == [i \in 1..n |-> Shoot(Labelled[<<s.cams[i], e>>])]
<1>7. shots \in [1..n -> Step]
  BY <1>5
<1> HIDE DEF shots
<1>8. shots \in Seq(Step)
  BY <1>6, <1>7, FunctionSeq
<1> DEFINE front == <<Stamp>> \o shots
<1>9. front \in Seq(Step) /\ <<Prune>> \in Seq(Step) /\ <<Prune>> # << >>
  BY <1>2, <1>8
<1> HIDE DEF front
<1>10. CASE s.cams = << >>
  <2>1. Cameras(s, e) = << >> /\ Local(s, e) \o << >> = Local(s, e)
    BY <1>3, <1>10, ConcatEmptySeq DEF Cameras
  <2>2. EndsWell(Local(s, e))
    BY DEF Local, EndsWell, Prune
  <2> QED BY <1>3, <2>1, <2>2
<1>11. CASE s.cams # << >>
  <2>1. Cameras(s, e) = front \o <<Prune>>
    BY <1>11 DEF Cameras, front, shots, n
  <2>2. /\ front \o <<Prune>> \in Seq(Step)
        /\ (front \o <<Prune>>)[Len(front \o <<Prune>>)] = Prune
        /\ front \o <<Prune>> # << >>
    BY <1>9, LastOfConcat
  <2>3. /\ Local(s, e) \o Cameras(s, e) \in Seq(Step)
        /\ (Local(s, e) \o Cameras(s, e))[Len(Local(s, e) \o Cameras(s, e))] = Prune
    BY <1>3, <2>1, <2>2, LastOfConcat
  <2> QED BY <2>3 DEF EndsWell, Prune
<1> QED BY <1>10, <1>11

LEMMA BeginFits ==
  ASSUME Sound, NEW p \in Proc, NEW todo \in Seq(Step), NEW max \in Nat,
         EndsWell(todo), p = "cgi" => max = 0, Begin(p, todo, max)
  PROVE  \E j \in Job : /\ job' = [job EXCEPT ![p] = j]
                        /\ j.victims = {} /\ j.writing = 0 /\ j.read = << >>
                        /\ JobFits(p, j, Len(file))
<1> DEFINE j == [NoJob EXCEPT !.todo = todo, !.at = now, !.max = max]
<1>1. job' = [job EXCEPT ![p] = j] /\ todo # << >>
  BY DEF Begin
<1>2. now \in Time /\ NoJob \in Job
  BY NoJobType DEF Sound, Shapes
<1>3. /\ j \in Job /\ j.victims = {} /\ j.writing = 0 /\ j.todo = todo /\ j.max = max
      /\ j.at = now /\ ~j.scanning /\ j.read = << >>
  BY <1>2 DEF Job, NoJob
<1> HIDE DEF j
<1>4. now <= now
  BY <1>2 DEF Time
<1> QED BY <1>1, <1>3, <1>4, FS_EmptySet, NothingRead DEF JobFits

LEMMA QuietEffect ==
  ASSUME Sound, NEW p \in Proc, Quiet(p)
  PROVE  /\ UNCHANGED <<now, file, dir, since, spared, limit>>
         /\ job[p].victims = {} /\ job[p].writing = 0
         /\ \E j \in Job : /\ job' = [job EXCEPT ![p] = j]
                           /\ j.victims = {} /\ j.writing = 0 /\ j.read = << >>
                           /\ JobFits(p, j, Len(file))
<1>1. job[p] \in Job /\ JobFits(p, job[p], Len(file)) /\ now \in Time
  BY DEF Sound, Shapes, JobsOK
<1>2. ASSUME NEW todo \in Seq(Step), NEW max \in Nat, EndsWell(todo),
             p = "cgi" => max = 0, Begin(p, todo, max)
      PROVE  /\ UNCHANGED <<now, file, dir, since, spared, limit>>
             /\ job[p].victims = {} /\ job[p].writing = 0
             /\ \E j \in Job : /\ job' = [job EXCEPT ![p] = j]
                               /\ j.victims = {} /\ j.writing = 0 /\ j.read = << >>
                               /\ JobFits(p, j, Len(file))
  BY <1>1, <1>2, NoJobType, BeginFits DEF Begin
<1>3. ASSUME NEW e \in Event, NEW a \in Action, NEW s \in Settings, p = "daemon",
             Transition(e, a, s)
      PROVE  \E todo \in Seq(Step), max \in Nat :
               EndsWell(todo) /\ (p = "cgi" => max = 0) /\ Begin(p, todo, max)
  <2>1. s.max \in Nat
    BY SettingsAssumption DEF Setting
  <2> QED BY <1>3, <2>1, CamerasType DEF Transition
<1>4. CASE p = "cgi" /\ (endpoint_capture_now \/ endpoint_test_snapshot)
  <2>1. <<Shoot(Manual)>> \in Seq(Step) /\ <<Shoot(Test_Snapshot)>> \in Seq(Step)
    <3>1. Shoot(Manual) \in Step /\ Shoot(Test_Snapshot) \in Step
      BY LabelAssumption DEF Shoot, Step
    <3> QED BY <3>1
  <2>2. EndsWell(<<Shoot(Manual)>>) /\ EndsWell(<<Shoot(Test_Snapshot)>>)
    BY DEF EndsWell, Shoot
  <2>3. \E todo \in Seq(Step) : EndsWell(todo) /\ Begin(p, todo, 0)
    BY <1>4, <2>1, <2>2 DEF endpoint_capture_now, endpoint_test_snapshot
  <2> QED BY <1>2, <2>3
<1>5. CASE NewStamp(p)
  <2> DEFINE n == Next1(p, FALSE)
             j == [n EXCEPT !.at = now]
  <2>1. /\ job[p].todo # << >> /\ Head(job[p].todo).do = "stamp"
        /\ job' = [job EXCEPT ![p] = j]
        /\ UNCHANGED <<now, file, dir, since, spared, limit>>
    BY <1>5 DEF NewStamp, At
  <2>2. /\ n \in Job /\ n.victims = {} /\ n.writing = 0 /\ ~n.scanning /\ n.read = << >>
        /\ n.todo # << >> /\ JobFits(p, n, Len(file))
    BY <2>1, Next1Fits, LenProperties DEF Sound, Shapes
  <2>3. job[p].victims = {} /\ job[p].writing = 0
    BY <1>1, <2>1 DEF JobFits
  <2> HIDE DEF n
  <2>4. /\ j \in Job /\ j.victims = {} /\ j.writing = 0 /\ j.at = now
        /\ j.todo = n.todo /\ j.max = n.max /\ ~j.scanning /\ j.read = << >>
    BY <1>1, <2>2 DEF Job
  <2>5. now <= now
    BY <1>1 DEF Time
  <2> HIDE DEF j
  <2>6. JobFits(p, j, Len(file))
    BY <2>2, <2>4, <2>5 DEF JobFits
  <2> QED BY <2>1, <2>3, <2>4, <2>6 DEF j
<1>6. CASE OpenFails(p) \/ PruneSkipped(p) \/ OpendirFails(p)
  <2>1. PICK got \in BOOLEAN : job' = [job EXCEPT ![p] = Next1(p, got)]
    BY <1>1, <1>6 DEF OpenFails, PruneSkipped, OpendirFails, Job
  <2>2. /\ job[p].todo # << >>
        /\ UNCHANGED <<now, file, dir, since, spared, limit>>
    BY <1>6 DEF OpenFails, PruneSkipped, OpendirFails, At
  <2>3. job[p].victims = {} /\ job[p].writing = 0
    <3>1. CASE OpenFails(p)
      BY <1>1, <3>1 DEF OpenFails, At, JobFits
    <3>2. CASE PruneSkipped(p)
      BY <1>1, <3>2 DEF PruneSkipped, At, JobFits, Job
    <3>3. CASE OpendirFails(p)
      BY <1>1, <3>3 DEF OpendirFails, At, JobFits, Job
    <3> QED BY <1>6, <3>1, <3>2, <3>3
  <2>4. /\ Next1(p, got) \in Job /\ Next1(p, got).victims = {}
        /\ Next1(p, got).writing = 0 /\ Next1(p, got).read = << >>
        /\ JobFits(p, Next1(p, got), Len(file))
    BY <2>2, Next1Fits, LenProperties DEF Sound, Shapes
  <2> QED BY <2>1, <2>2, <2>3, <2>4
<1> QED BY <1>2, <1>3, <1>4, <1>5, <1>6 DEF Quiet

-----------------------------------------------------------------------------
(* One job changes, to one that fits: the jobs still do.                   *)
LEMMA JobStep ==
  ASSUME Sound, NEW p \in Proc, NEW j \in Job, job' = [job EXCEPT ![p] = j],
         now' = now, Len(file)' \in Nat, Len(file)' >= Len(file),
         JobFits(p, j, Len(file)')
  PROVE  /\ job' \in [Proc -> Job] /\ JobsOK'
         /\ job'[p] = j /\ \A q \in Proc \ {p} : job'[q] = job[q]
<1>1. job \in [Proc -> Job] /\ Len(file) \in Nat
  BY LenProperties DEF Sound, Shapes
<1>2. /\ job' \in [Proc -> Job] /\ job'[p] = j
      /\ \A q \in Proc \ {p} : job'[q] = job[q]
  BY <1>1
<1>3. ASSUME NEW q \in Proc PROVE JobFits(q, job[q], Len(file))'
  <2>1. CASE q = p
    BY <1>2, <2>1 DEF JobFits
  <2>2. CASE q # p
    <3>1. JobFits(q, job[q], Len(file)) /\ job[q] \in Job
      BY <1>1 DEF Sound, JobsOK
    <3>2. job[q].writing <= Len(file) => job[q].writing <= Len(file)'
      BY <1>1, <3>1 DEF Job
    <3> QED BY <1>2, <2>2, <3>1, <3>2 DEF JobFits
  <2> QED BY <2>1, <2>2
<1> QED BY <1>2, <1>3 DEF JobsOK

(* What later steps do to the files cannot spoil what was read of them.    *)
LEMMA ReadStays ==
  ASSUME Sound, Len(file)' \in Nat, Len(file)' >= Len(file),
         \A n \in 1..Len(file) : /\ file'[n].name = file[n].name
                                 /\ file'[n].mtime \in Nat
                                 /\ file'[n].mtime >= file[n].mtime,
         \A p \in Proc : job'[p].read = job[p].read \/ job'[p].read = << >>
  PROVE  ReadOK'
<1> SUFFICES ASSUME NEW p \in Proc, NEW m \in DOMAIN job'[p].read
             PROVE  /\ job'[p].read[m].n \in 1..Len(file)'
                    /\ file'[job'[p].read[m].n].name = m
                    /\ m.at <= job'[p].read[m].mtime
                    /\ job'[p].read[m].mtime <= file'[job'[p].read[m].n].mtime
  BY DEF ReadOK
<1>1. job'[p].read = job[p].read
  BY NothingRead
<1>2. PICK e : e = job[p].read[m]
  OBVIOUS
<1>3. /\ e.n \in 1..Len(file) /\ file[e.n].name = m
      /\ m.at <= e.mtime /\ e.mtime <= file[e.n].mtime
  BY <1>1, <1>2 DEF Sound, ReadOK
<1>4. Len(file) \in Nat /\ file \in Seq(File) /\ job[p] \in Job
  BY LenProperties DEF Sound, Shapes
<1>5. e.mtime \in Nat
  <2>1. job[p].read \in Read
    BY <1>4 DEF Job
  <2>2. e \in [n : Nat, mtime : Time]
    BY <1>1, <1>2, <2>1 DEF Read
  <2> QED BY <2>2 DEF Time
<1>6. file[e.n].mtime \in Nat
  <2>1. file[e.n] \in File
    BY <1>3, <1>4, ElementOfSeq
  <2> QED BY <2>1 DEF File, Time
<1>7. e.n \in 1..Len(file)' /\ e.mtime <= file'[e.n].mtime /\ file'[e.n].name = m
  BY <1>3, <1>4, <1>5, <1>6
<1> QED BY <1>1, <1>2, <1>3, <1>7

(* What later steps do to the files cannot spoil VictimsOlder.             *)
LEMMA OlderStays ==
  ASSUME Sound, VictimsOlder, Len(file)' \in Nat, Len(file)' >= Len(file),
         \A n \in 1..Len(file) : /\ file'[n].name = file[n].name
                                 /\ file'[n].mtime \in Nat
                                 /\ file'[n].mtime >= file[n].mtime,
         \/ job'["daemon"].victims = {}
         \/ /\ job'["daemon"].victims \subseteq job["daemon"].victims
            /\ job'["daemon"].max = job["daemon"].max
  PROVE  VictimsOlder'
<1> SUFFICES ASSUME NEW v \in job'["daemon"].victims
             PROVE  \E U \in SUBSET (1..Len(file)') :
                      /\ Cardinality(U) >= job'["daemon"].max
                      /\ \A m \in U : file'[m].name # v /\ file'[m].mtime >= v.at
  BY DEF VictimsOlder
<1>1. v \in job["daemon"].victims /\ job'["daemon"].max = job["daemon"].max
  OBVIOUS
<1>2. /\ Len(file) \in Nat /\ file \in Seq(File)
      /\ job["daemon"] \in Job
  BY LenProperties DEF Sound, Shapes, Proc
<1>3. PICK U \in SUBSET (1..Len(file)) :
        /\ Cardinality(U) >= job["daemon"].max
        /\ \A m \in U : file[m].name # v /\ file[m].mtime >= v.at
  BY <1>1 DEF VictimsOlder
<1>4. U \in SUBSET (1..Len(file)')
  BY <1>2, <1>3
<1>5. v.at \in Nat
  BY <1>1, <1>2 DEF Job, Name, Time
<1>6. ASSUME NEW m \in U PROVE file'[m].name # v /\ file'[m].mtime >= v.at
  <2>1. file[m] \in File
    BY <1>2, <1>3, ElementOfSeq
  <2>2. /\ file[m].mtime \in Nat /\ file'[m].mtime \in Nat
        /\ file'[m].mtime >= file[m].mtime
        /\ file[m].mtime >= v.at /\ file[m].name # v /\ file'[m].name = file[m].name
    BY <1>3, <2>1 DEF File, Time
  <2> QED BY <1>5, <2>2
<1> QED BY <1>1, <1>3, <1>4, <1>6

LEMMA FewerStay ==
  ASSUME Sound, SurvivorsFew, limit' \in {0, limit}, Survivors' \subseteq Survivors
  PROVE  SurvivorsFew'
<1> SUFFICES ASSUME limit' > 0 PROVE Cardinality(Survivors') <= limit'
  BY DEF SurvivorsFew
<1>1. limit \in Nat /\ limit' = limit /\ limit > 0
  BY DEF Sound, Shapes
<1> DEFINE T == {dir[name] : name \in DOMAIN dir \ job["daemon"].victims}
<1>2. IsFiniteSet(T)
  <2>1. IsFiniteSet(DOMAIN dir \ job["daemon"].victims)
    BY FS_Subset DEF Sound, DirOK
  <2> QED BY <2>1, ImageOf
<1>3. IsFiniteSet(Survivors)
  BY <1>2, FS_Subset DEF Survivors
<1>4. /\ Cardinality(Survivors') \in Nat /\ Cardinality(Survivors) \in Nat
      /\ Cardinality(Survivors') <= Cardinality(Survivors)
  BY <1>3, FS_Subset, FS_CardinalityType
<1> QED BY <1>1, <1>4 DEF SurvivorsFew

-----------------------------------------------------------------------------
LEMMA MtimeType ==
  ASSUME Sound, NEW n \in 1..Len(file)
  PROVE  /\ file[n] \in File /\ file[n].mtime \in Nat /\ file[n].mtime >= file[n].mtime
         /\ file[n].mtime \in Time
<1>1. file[n] \in File
  BY ElementOfSeq DEF Sound, Shapes
<1>2. file[n].mtime \in Nat /\ file[n].mtime \in Time
  BY <1>1 DEF File, Time
<1> QED BY <1>1, <1>2

(* Every step keeps the invariant.                                         *)
LEMMA QuietStep ==
  ASSUME IInv, NEW p \in Proc, Quiet(p)
  PROVE  IInv'
<1>1. /\ Sound /\ VictimsOlder /\ SurvivorsFew
      /\ Len(file) \in Nat
  BY LenProperties DEF IInv, Sound, Shapes
<1>2. /\ UNCHANGED <<now, file, dir, since, spared, limit>>
      /\ job[p].victims = {}
  BY <1>1, QuietEffect
<1>3. PICK j \in Job : /\ job' = [job EXCEPT ![p] = j]
                       /\ j.victims = {} /\ j.writing = 0 /\ j.read = << >>
                       /\ JobFits(p, j, Len(file))
  BY <1>1, QuietEffect
<1>4. Len(file)' = Len(file) /\ Len(file)' >= Len(file)
  BY <1>1, <1>2
<1>5. /\ job' \in [Proc -> Job] /\ JobsOK' /\ job'[p] = j
      /\ \A q \in Proc \ {p} : job'[q] = job[q]
  BY <1>1, <1>2, <1>3, <1>4, JobStep
<1>6. Sound'
  <2>1. \A n \in 1..Len(file) : file[n].mtime \in Nat /\ file[n].mtime >= file[n].mtime
    BY <1>1, MtimeType
  <2>2. ReadOK'
    BY <1>1, <1>2, <1>3, <1>4, <1>5, <2>1, ReadStays
  <2> QED BY <1>1, <1>2, <1>5, <2>2 DEF Sound, Shapes, DirOK, TimesOK
<1>7. /\ job'["daemon"].victims = job["daemon"].victims
      /\ job'["daemon"].victims = {} \/ job'["daemon"].max = job["daemon"].max
  BY <1>2, <1>3, <1>5 DEF Proc
<1>8. SurvivorsFew'
  BY <1>1, <1>2, <1>7 DEF SurvivorsFew, Survivors
<1>9. VictimsOlder'
  BY <1>1, <1>2, <1>7 DEF VictimsOlder
<1> QED BY <1>6, <1>8, <1>9 DEF IInv

LEMMA NameType ==
  ASSUME Sound, NEW p \in Proc, At(p, "shoot")
  PROVE  NameOf(p) \in Name
<1>1. /\ job[p] \in Job /\ job[p].todo # << >> /\ Head(job[p].todo).do = "shoot"
  BY DEF Sound, Shapes, At
<1>2. Head(job[p].todo) \in Step
  BY <1>1, HeadTailProperties DEF Job
<1>3. Head(job[p].todo).what \in Label
  BY <1>1, <1>2 DEF Step
<1> QED BY <1>1, <1>3 DEF NameOf, Name, Job

LEMMA OpenStep ==
  ASSUME IInv, NEW p \in Proc, Open(p)
  PROVE  IInv'
<1> DEFINE name == NameOf(p)
           n == Len(file) + 1
           new == [name |-> name, mtime |-> now, whole |-> FALSE]
           j == [job[p] EXCEPT !.writing = n]
<1>1. /\ Sound /\ VictimsOlder /\ SurvivorsFew
      /\ Len(file) \in Nat /\ file \in Seq(File) /\ now \in Time
      /\ job \in [Proc -> Job] /\ job[p] \in Job /\ JobFits(p, job[p], Len(file))
  BY LenProperties DEF IInv, Sound, Shapes, JobsOK
<1>2. /\ job[p].todo # << >> /\ Head(job[p].todo).do = "shoot"
      /\ n <= MaxFiles /\ file' = Append(file, new)
      /\ dir' = [m \in DOMAIN dir \cup {name} |-> IF m = name THEN n ELSE dir[m]]
      /\ since' = since \cup {n} /\ now' = now /\ limit' = limit /\ spared' = spared
  BY DEF Open, At
<1>3. job' = [job EXCEPT ![p] = j]
  BY <1>1 DEF Open
<1>4. name \in Name /\ name.at = job[p].at
  BY <1>1, <1>2, NameType DEF At, NameOf
<1>5. new \in File /\ new.name = name /\ new.mtime = now
  BY <1>1, <1>4 DEF File
<1>6. n \in Nat /\ n # 0 /\ n >= Len(file) /\ n = Len(file) + 1 /\ n <= n
  BY <1>1
<1> HIDE DEF new, n, name
<1>7. /\ job[p].victims = {}
      /\ j \in Job /\ j.victims = {} /\ j.max = job[p].max /\ j.todo = job[p].todo
      /\ j.at = job[p].at /\ j.writing = n
      /\ ~j.scanning /\ j.read = job[p].read /\ j.read = << >>
  <2>1. job[p].victims = {} /\ ~job[p].scanning /\ job[p].read = << >>
    BY <1>1, <1>2 DEF JobFits
  <2> QED BY <1>1, <1>6, <2>1 DEF Job
<1> HIDE DEF j
<1>8. JobFits(p, j, n)
  <2>1. j.todo # << >> /\ Head(j.todo).do = "shoot"
    BY <1>2, <1>7
  <2> QED BY <1>1, <1>6, <1>7, <2>1, FS_EmptySet, NothingRead DEF JobFits
<1>9. /\ file' \in Seq(File) /\ Len(file)' = n /\ file'[n] = new
      /\ \A i \in 1..Len(file) : file'[i] = file[i]
  <2>1. /\ Append(file, new) \in Seq(File) /\ Len(Append(file, new)) = Len(file) + 1
        /\ Append(file, new)[Len(file) + 1] = new
        /\ \A i \in 1..Len(file) : Append(file, new)[i] = file[i]
    BY <1>1, <1>5, AppendProperties
  <2> QED BY <1>2, <1>6, <2>1
<1>10. /\ job' \in [Proc -> Job] /\ JobsOK' /\ job'[p] = j
       /\ \A q \in Proc \ {p} : job'[q] = job[q]
  BY <1>1, <1>2, <1>3, <1>6, <1>7, <1>8, <1>9, JobStep
<1>11. Shapes'
  <2>1. since \subseteq Serial /\ spared \subseteq Serial /\ limit \in Nat /\ n \in Serial
    BY <1>1, <1>2, <1>6, BoundAssumption DEF Sound, Shapes, Serial
  <2> QED BY <1>1, <1>2, <1>9, <1>10, <2>1 DEF Shapes, Serial
<1>12. DirOK'
  <2>1. /\ DOMAIN dir \subseteq Name /\ IsFiniteSet(DOMAIN dir)
        /\ dir \in [DOMAIN dir -> 1..Len(file)]
        /\ \A m \in DOMAIN dir : file[dir[m]].name = m
    BY <1>1 DEF Sound, DirOK
  <2>2. DOMAIN dir' = DOMAIN dir \cup {name} /\ IsFiniteSet(DOMAIN dir')
    BY <1>2, <2>1, FS_AddElement
  <2>3. ASSUME NEW m \in DOMAIN dir' PROVE dir'[m] \in 1..n /\ file'[dir'[m]].name = m
    <3>1. CASE m = name
      <4>1. dir'[m] = n /\ n \in 1..n
        BY <1>2, <1>6, <2>2, <3>1
      <4> QED BY <1>5, <1>9, <3>1, <4>1
    <3>2. CASE m # name
      <4>1. m \in DOMAIN dir /\ dir'[m] = dir[m] /\ dir[m] \in 1..Len(file)
        BY <1>2, <2>1, <2>2, <3>2
      <4>2. dir[m] \in 1..n
        BY <1>1, <1>6, <4>1
      <4> QED BY <1>9, <2>1, <4>1, <4>2
    <3> QED BY <3>1, <3>2
  <2>4. dir' \in [DOMAIN dir' -> 1..n]
    BY <1>2, <2>2, <2>3
  <2> QED BY <1>4, <1>9, <2>1, <2>2, <2>3, <2>4 DEF DirOK
<1>13. TimesOK'
  <2> SUFFICES ASSUME NEW i \in 1..n
               PROVE  file'[i].name.at <= file'[i].mtime /\ file'[i].mtime <= now
    BY <1>2, <1>9 DEF TimesOK
  <2>1. CASE i = n
    BY <1>1, <1>4, <1>5, <1>9, <2>1 DEF JobFits, Time
  <2>2. CASE i # n
    <3>1. i \in 1..Len(file)
      BY <1>1, <1>6, <2>2
    <3> QED BY <1>1, <1>9, <3>1 DEF Sound, TimesOK
  <2> QED BY <2>1, <2>2
<1>14. /\ job'["daemon"].victims = job["daemon"].victims
       /\ job'["daemon"].max = job["daemon"].max
  BY <1>7, <1>10 DEF Proc
<1>15. SurvivorsFew'
  <2>1. Survivors' \subseteq Survivors
    <3> SUFFICES ASSUME NEW m \in DOMAIN dir' \ job'["daemon"].victims, dir'[m] \notin since' \cup spared'
                 PROVE  dir'[m] \in Survivors
      BY DEF Survivors
    <3>1. m # name /\ m \in DOMAIN dir /\ dir'[m] = dir[m] /\ dir[m] \notin since \cup spared
      BY <1>2
    <3> QED BY <1>14, <3>1 DEF Survivors
  <2> QED BY <1>1, <1>2, <2>1, FewerStay
<1>a. \A i \in 1..Len(file) : /\ file'[i].name = file[i].name
                              /\ file'[i].mtime \in Nat
                              /\ file'[i].mtime >= file[i].mtime
  BY <1>1, <1>9, MtimeType
<1>16. VictimsOlder'
  BY <1>1, <1>6, <1>9, <1>14, <1>a, OlderStays
<1>17. ReadOK'
  <2>1. \A q \in Proc : job'[q].read = job[q].read \/ job'[q].read = << >>
    BY <1>7, <1>10
  <2> QED BY <1>1, <1>6, <1>9, <1>a, <2>1, ReadStays
<1> QED BY <1>11, <1>12, <1>13, <1>10, <1>15, <1>16, <1>17 DEF IInv, Sound

LEMMA SavedStep ==
  ASSUME IInv, NEW p \in Proc, Saved(p)
  PROVE  IInv'
<1> DEFINE w == job[p].writing
           j == Next1(p, TRUE)
<1>1. /\ Sound /\ VictimsOlder /\ SurvivorsFew
      /\ Len(file) \in Nat /\ file \in Seq(File) /\ now \in Time
      /\ job \in [Proc -> Job] /\ job[p] \in Job /\ JobFits(p, job[p], Len(file))
  BY LenProperties DEF IInv, Sound, Shapes, JobsOK
<1>2. /\ job[p].todo # << >> /\ Head(job[p].todo).do = "shoot" /\ w # 0
      /\ file' = [file EXCEPT ![w].whole = TRUE, ![w].mtime = now]
      /\ job' = [job EXCEPT ![p] = j]
      /\ UNCHANGED <<now, dir, since, spared, limit>>
  BY DEF Saved, At
<1>3. /\ j \in Job /\ j.victims = {} /\ j.read = << >> /\ JobFits(p, j, Len(file))
      /\ job[p].victims = {}
  BY <1>1, <1>2, Next1Fits DEF JobFits
<1>4. w \in 1..Len(file)
  BY <1>1, <1>2 DEF JobFits, Job
<1> HIDE DEF w, j
<1>5. \A i \in 1..Len(file) : file[i] \in File
  BY <1>1, ElementOfSeq
<1>6. file \in [1..Len(file) -> File]
  BY <1>1, LenProperties, <1>5
<1>7. /\ file' \in [1..Len(file) -> File]
      /\ \A i \in 1..Len(file) :
           /\ file'[i].name = file[i].name
           /\ file'[i].mtime = IF i = w THEN now ELSE file[i].mtime
  BY <1>1, <1>2, <1>4, <1>6 DEF File
<1>8. file' \in Seq(File) /\ Len(file)' = Len(file) /\ Len(file)' >= Len(file)
  <2> DEFINE n == Len(file)
  <2>1. n \in Nat /\ n >= n /\ file' \in [1..n -> File]
    BY <1>1, <1>7
  <2> HIDE DEF n
  <2>2. file' \in Seq(File)
    BY <2>1, FunctionSeq
  <2>3. DOMAIN file' = 1..n /\ DOMAIN file' = 1..Len(file')
    BY <2>1, <2>2, LenProperties
  <2>4. Len(file') = n
    BY <2>1, <2>2, <2>3, LenProperties
  <2> QED BY <2>1, <2>2, <2>4 DEF n
<1>9. /\ job' \in [Proc -> Job] /\ JobsOK' /\ job'[p] = j
      /\ \A q \in Proc \ {p} : job'[q] = job[q]
  BY <1>1, <1>2, <1>3, <1>8, JobStep
<1>10. \A i \in 1..Len(file) :
         /\ file[i].name.at \in Nat /\ file[i].mtime \in Nat /\ now \in Nat
         /\ file[i].name.at <= file[i].mtime /\ file[i].mtime <= now
  BY <1>1, <1>5 DEF File, Name, Time, Sound, TimesOK
<1>11. /\ Shapes' /\ DirOK' /\ TimesOK'
  <2>1. Shapes'
    BY <1>1, <1>2, <1>8, <1>9 DEF Sound, Shapes
  <2>2. DirOK'
    BY <1>1, <1>2, <1>7, <1>8 DEF Sound, DirOK
  <2>3. TimesOK'
    BY <1>2, <1>7, <1>8, <1>10 DEF TimesOK
  <2> QED BY <2>1, <2>2, <2>3
<1>12. /\ job'["daemon"].victims = job["daemon"].victims
       /\ job'["daemon"].victims = {} \/ job'["daemon"].max = job["daemon"].max
  BY <1>3, <1>9 DEF Proc
<1>13. SurvivorsFew'
  BY <1>1, <1>2, <1>12 DEF SurvivorsFew, Survivors
<1>a. \A i \in 1..Len(file) : /\ file'[i].name = file[i].name
                              /\ file'[i].mtime \in Nat
                              /\ file'[i].mtime >= file[i].mtime
  BY <1>7, <1>10
<1>14. VictimsOlder'
  BY <1>1, <1>8, <1>12, <1>a, OlderStays
<1>15. ReadOK'
  <2>1. \A q \in Proc : job'[q].read = job[q].read \/ job'[q].read = << >>
    BY <1>3, <1>9
  <2> QED BY <1>1, <1>8, <1>a, <2>1, ReadStays
<1> QED BY <1>9, <1>11, <1>13, <1>14, <1>15 DEF IInv, Sound

(* The steps that leave the files alone, but for one name, and choose      *)
(* nothing.                                                                *)
LEMMA DirStep ==
  ASSUME IInv, NEW p \in Proc, NEW j \in Job, JobFits(p, j, Len(file)),
         job' = [job EXCEPT ![p] = j],
         UNCHANGED <<now, file, since>>, limit' = limit,
         spared' \subseteq Serial, NEW gone, dir' = dir \/ dir' = Without(gone),
         Survivors' \subseteq Survivors, j.read = << >>,
         j.victims \subseteq job[p].victims,
         j.victims # {} => j.max = job[p].max
  PROVE  IInv'
<1>1. /\ Sound /\ VictimsOlder /\ SurvivorsFew
      /\ Len(file) \in Nat /\ file \in Seq(File)
  BY LenProperties DEF IInv, Sound, Shapes
<1>2. Len(file)' = Len(file) /\ Len(file)' >= Len(file)
  BY <1>1
<1>3. /\ job' \in [Proc -> Job] /\ JobsOK' /\ job'[p] = j
      /\ \A q \in Proc \ {p} : job'[q] = job[q]
  BY <1>1, <1>2, JobStep
<1>5. limit' \in Nat
  BY <1>1 DEF Sound, Shapes
<1>6. /\ Shapes' /\ TimesOK'
  BY <1>1, <1>3, <1>5 DEF Sound, Shapes, TimesOK
<1>7. DirOK'
  <2>1. IsFiniteSet(DOMAIN dir \ {gone})
    BY <1>1, FS_Subset DEF Sound, DirOK
  <2>2. CASE dir' = dir
    BY <1>1, <2>2 DEF Sound, DirOK
  <2>3. CASE dir' = Without(gone)
    <3>1. /\ DOMAIN dir' = DOMAIN dir \ {gone}
          /\ \A m \in DOMAIN dir' : dir'[m] = dir[m]
          /\ dir' = [m \in DOMAIN dir \ {gone} |-> dir[m]]
      BY <2>3 DEF Without, Restrict
    <3> QED BY <1>1, <2>1, <3>1 DEF Sound, DirOK
  <2> QED BY <2>2, <2>3
<1>8. /\ job'["daemon"].victims \subseteq job["daemon"].victims
      /\ job'["daemon"].victims = {} \/ job'["daemon"].max = job["daemon"].max
  BY <1>3 DEF Proc
<1>9. SurvivorsFew'
  BY <1>1, FewerStay
<1>11. ReadOK'
  <2>1. \A q \in Proc : job'[q].read = job[q].read \/ job'[q].read = << >>
    BY <1>3
  <2>2. \A n \in 1..Len(file) : file[n].mtime \in Nat /\ file[n].mtime >= file[n].mtime
    BY <1>1, MtimeType
  <2> QED BY <1>1, <1>2, <2>1, <2>2, ReadStays
<1>10. VictimsOlder'
  BY <1>1, <1>8 DEF VictimsOlder
<1> QED BY <1>3, <1>6, <1>7, <1>9, <1>10, <1>11 DEF IInv, Sound

LEMMA FailsStep ==
  ASSUME IInv, NEW p \in Proc, Fails(p)
  PROVE  IInv'
<1> DEFINE j == Next1(p, job[p].got)
<1> PICK gone : gone = NameOf(p)
  OBVIOUS
<1>1. /\ Sound /\ limit' = limit /\ UNCHANGED <<now, file, since, spared>>
      /\ dir' = Without(gone) /\ job' = [job EXCEPT ![p] = j]
      /\ job[p].todo # << >> /\ Head(job[p].todo).do = "shoot"
  BY DEF IInv, Fails, At
<1>2. /\ Len(file) \in Nat /\ job[p].got \in BOOLEAN /\ job[p].victims = {}
      /\ spared \subseteq Serial /\ job \in [Proc -> Job]
  BY <1>1, LenProperties DEF Sound, Shapes, Job, JobsOK, JobFits
<1>3. j \in Job /\ j.victims = {} /\ j.read = << >> /\ JobFits(p, j, Len(file))
  BY <1>1, <1>2, Next1Fits
<1> HIDE DEF j
<1>4. Survivors' \subseteq Survivors
  <2>1. job'["daemon"].victims = job["daemon"].victims
    BY <1>1, <1>2, <1>3 DEF Proc
  <2> QED BY <1>1, <2>1 DEF Survivors, Without, Restrict
<1>5. spared' \subseteq Serial /\ j.victims \subseteq job[p].victims
  BY <1>1, <1>2, <1>3
<1> QED BY <1>1, <1>3, <1>4, <1>5, DirStep

LEMMA UnlinkStep ==
  ASSUME IInv, NEW p \in Proc, Unlink(p) \/ UnlinkFails(p)
  PROVE  IInv'
<1>1. /\ Sound /\ limit' = limit /\ UNCHANGED <<now, file, since>>
      /\ Len(file) \in Nat /\ job[p] \in Job /\ JobFits(p, job[p], Len(file))
      /\ job \in [Proc -> Job] /\ spared \subseteq Serial
  BY LenProperties DEF IInv, Unlink, UnlinkFails, Sound, Shapes, JobsOK
<1>2. PICK gone \in job[p].victims :
        /\ job' = [job EXCEPT ![p] = Struck(p, gone)]
        /\ \/ dir' = Without(gone) /\ spared' = spared
           \/ /\ gone \in DOMAIN dir /\ dir' = dir
              /\ spared' = spared \cup {dir[gone]}
  BY DEF Unlink, UnlinkFails
<1>3. /\ job[p].todo # << >> /\ ~job[p].scanning /\ p = "daemon"
      /\ job[p].read = << >>
  BY <1>1, <1>2 DEF JobFits, Proc, Job
<1>4. PICK j \in Job : /\ job' = [job EXCEPT ![p] = j] /\ j.victims = job[p].victims \ {gone}
                       /\ j.read = << >> /\ JobFits(p, j, Len(file))
                       /\ j.victims # {} => j.max = job[p].max
  <2>1. CASE job[p].victims = {gone}
    BY <1>1, <1>2, <1>3, <2>1, Next1Fits DEF Struck
  <2>2. CASE job[p].victims # {gone}
    <3> DEFINE j == [job[p] EXCEPT !.victims = @ \ {gone}]
    <3>1. /\ j \in Job /\ j.victims = job[p].victims \ {gone} /\ j.max = job[p].max
          /\ j.todo = job[p].todo /\ j.writing = job[p].writing /\ j.at = job[p].at
          /\ j.got = job[p].got /\ j.scanning = job[p].scanning /\ j.read = job[p].read
      BY <1>1 DEF Job
    <3>2. job' = [job EXCEPT ![p] = j]
      BY <1>2, <2>2 DEF Struck
    <3> HIDE DEF j
    <3>3. IsFiniteSet(j.victims)
      BY <1>1, <3>1, FS_Subset DEF JobFits
    <3>4. JobFits(p, j, Len(file))
      <4>1. j.todo # << >> /\ job[p].victims # {}
        BY <1>2, <1>3, <3>1
      <4> QED BY <1>1, <1>3, <3>1, <3>3, <4>1 DEF JobFits
    <3> QED BY <1>3, <3>1, <3>2, <3>4
  <2> QED BY <2>1, <2>2
<1>5. job'["daemon"].victims = job["daemon"].victims \ {gone}
  BY <1>1, <1>2, <1>3, <1>4
<1>6. Survivors' \subseteq Survivors /\ spared' \subseteq Serial
  <2>1. CASE dir' = Without(gone) /\ spared' = spared
    BY <1>1, <1>5, <2>1 DEF Survivors, Without, Restrict
  <2>2. CASE gone \in DOMAIN dir /\ dir' = dir /\ spared' = spared \cup {dir[gone]}
    <3>1. dir[gone] \in Serial
      BY <1>1, <2>2, BoundAssumption DEF Sound, Shapes, DirOK, Serial
    <3> QED BY <1>1, <1>5, <2>2, <3>1 DEF Survivors
  <2> QED BY <1>2, <2>1, <2>2
<1>7. j.victims \subseteq job[p].victims /\ (dir' = dir \/ dir' = Without(gone))
  BY <1>2, <1>4
<1> QED BY <1>1, <1>4, <1>6, <1>7, DirStep

LEMMA RestartStep ==
  ASSUME IInv, NEW p \in Proc, Restart(p)
  PROVE  IInv'
<1>1. /\ Sound /\ VictimsOlder /\ SurvivorsFew
      /\ now \in Time /\ Len(file) \in Nat /\ job \in [Proc -> Job]
      /\ JobFits(p, job[p], Len(file))
  BY LenProperties DEF IInv, Sound, Shapes, JobsOK
<1>2. /\ job' = [job EXCEPT ![p] = NoJob] /\ UNCHANGED <<now, file, dir, since, spared>>
      /\ limit' = IF job[p].victims # {} THEN 0 ELSE limit
  BY DEF Restart
<1>3. NoJob \in Job /\ NoJob.victims = {} /\ NoJob.read = << >> /\ JobFits(p, NoJob, Len(file))
  BY <1>1, NoJobType
<1>4. /\ job' \in [Proc -> Job] /\ JobsOK' /\ job'[p] = NoJob
      /\ \A q \in Proc \ {p} : job'[q] = job[q]
  <2>1. Len(file)' = Len(file) /\ Len(file)' >= Len(file)
    BY <1>1, <1>2
  <2> QED BY <1>1, <1>2, <1>3, <2>1, JobStep
<1>5. limit' \in Nat
  BY <1>1, <1>2 DEF Sound, Shapes
<1>6. Sound'
  <2>1. \A n \in 1..Len(file) : file[n].mtime \in Nat /\ file[n].mtime >= file[n].mtime
    BY <1>1, MtimeType
  <2>2. Len(file)' = Len(file) /\ Len(file)' >= Len(file)
    BY <1>1, <1>2
  <2>3. ReadOK'
    BY <1>1, <1>2, <1>3, <1>4, <2>1, <2>2, ReadStays
  <2> QED BY <1>1, <1>2, <1>4, <1>5, <2>3 DEF Sound, Shapes, DirOK, TimesOK
<1>7. \/ job'["daemon"].victims = {}
      \/ /\ job'["daemon"].victims = job["daemon"].victims
         /\ job'["daemon"].max = job["daemon"].max
  BY <1>3, <1>4 DEF Proc
<1>8. VictimsOlder'
  BY <1>1, <1>2, <1>7 DEF VictimsOlder
<1>9. SurvivorsFew'
  <2>1. CASE job[p].victims = {}
    <3>1. job'["daemon"].victims = job["daemon"].victims
      BY <1>3, <1>4, <2>1 DEF Proc
    <3> QED BY <1>1, <1>2, <2>1, <3>1 DEF SurvivorsFew, Survivors
  <2>2. CASE job[p].victims # {}
    BY <1>2, <2>2 DEF SurvivorsFew
  <2> QED BY <2>1, <2>2
<1> QED BY <1>6, <1>8, <1>9 DEF IInv

LEMMA TickStep ==
  ASSUME IInv, Tick
  PROVE  IInv'
<1>1. /\ Sound /\ VictimsOlder /\ SurvivorsFew
      /\ file \in Seq(File) /\ now \in Nat /\ now < MaxTime
      /\ now' = now + 1 /\ UNCHANGED <<file, dir, job, since, spared, limit>>
  BY DEF IInv, Sound, Shapes, Tick, Time
<1>2. now' \in Time
  BY <1>1, BoundAssumption DEF Time
<1>3. JobsOK'
  <2> SUFFICES ASSUME NEW p \in Proc PROVE JobFits(p, job[p], Len(file))'
    BY DEF JobsOK
  <2>1. JobFits(p, job[p], Len(file)) /\ job[p].at \in Nat
    BY <1>1 DEF Sound, Shapes, JobsOK, Job, Time
  <2>2. job[p].at <= now'
    BY <1>1, <2>1 DEF JobFits
  <2> QED BY <1>1, <2>1, <2>2 DEF JobFits
<1>4. TimesOK'
  <2> SUFFICES ASSUME NEW n \in 1..Len(file)
               PROVE  file[n].name.at <= file[n].mtime /\ file[n].mtime <= now'
    BY <1>1 DEF TimesOK
  <2>1. file[n] \in File
    BY <1>1, ElementOfSeq
  <2> QED BY <1>1, <2>1 DEF Sound, TimesOK, File, Time
<1>5. Sound'
  BY <1>1, <1>2, <1>3, <1>4 DEF Sound, Shapes, DirOK, ReadOK
<1> QED BY <1>1, <1>5 DEF IInv, VictimsOlder, SurvivorsFew, Survivors

-----------------------------------------------------------------------------
(* What a scan chooses to keep max of: the chosen are all that it read but *)
(* max, and no younger than the kept.                                      *)
LEMMA OldestKeeps ==
  ASSUME NEW read, NEW S, S = DOMAIN read, IsFiniteSet(S), NEW max \in Nat,
         NEW V \in Oldest(read, ToDelete(S, max))
  PROVE  /\ V \subseteq S /\ IsFiniteSet(V) /\ IsFiniteSet(S \ V)
         /\ Cardinality(S \ V) <= max
         /\ V # {} => Cardinality(S \ V) = max
         /\ \A v \in V, u \in S \ V : read[v].mtime <= read[u].mtime
<1>1. V \subseteq S /\ Cardinality(V) = ToDelete(S, max)
  BY DEF Oldest
<1>2. /\ IsFiniteSet(V) /\ IsFiniteSet(S \ V)
      /\ Cardinality(S) \in Nat /\ Cardinality(V) \in Nat /\ Cardinality(S \ V) \in Nat
  BY <1>1, FS_Subset, FS_CardinalityType
<1>3. Cardinality(S \ V) = Cardinality(S) - Cardinality(V)
  <2>1. S \cap V = V
    BY <1>1
  <2> QED BY <1>2, <2>1, FS_Difference
<1>4. V # {} => Cardinality(V) # 0
  BY <1>2, FS_EmptySet
<1>5. /\ Cardinality(S \ V) <= max
      /\ V # {} => Cardinality(S \ V) = max
  BY <1>1, <1>2, <1>3, <1>4 DEF ToDelete
<1> QED BY <1>1, <1>2, <1>5 DEF Oldest

LEMMA OpendirStep ==
  ASSUME IInv, NEW p \in Proc, Opendir(p)
  PROVE  IInv'
<1> DEFINE j == [job[p] EXCEPT !.scanning = TRUE]
<1>1. /\ Sound /\ Len(file) \in Nat /\ file \in Seq(File) /\ job \in [Proc -> Job]
      /\ job[p] \in Job /\ JobFits(p, job[p], Len(file))
  BY LenProperties DEF IInv, Sound, Shapes, JobsOK
<1>2. /\ job[p].todo # << >> /\ Head(job[p].todo).do = "prune"
      /\ job[p].got /\ job[p].max > 0 /\ ~job[p].scanning /\ job[p].victims = {}
      /\ job' = [job EXCEPT ![p] = j]
      /\ since' = {} /\ spared' = {} /\ limit' = 0 /\ UNCHANGED <<now, file, dir>>
  BY DEF Opendir, At
<1>3. /\ j \in Job /\ j.scanning /\ j.victims = {} /\ j.read = << >> /\ j.todo = job[p].todo
      /\ j.max = job[p].max /\ j.at = job[p].at /\ j.got = job[p].got
      /\ j.writing = job[p].writing
  BY <1>1, <1>2 DEF Job, JobFits
<1> HIDE DEF j
<1>4. JobFits(p, j, Len(file))
  BY <1>1, <1>2, <1>3 DEF JobFits
<1>5. Len(file)' = Len(file) /\ Len(file)' >= Len(file) /\ JobFits(p, j, Len(file)')
  BY <1>1, <1>2, <1>4
<1>6. /\ job' \in [Proc -> Job] /\ JobsOK' /\ job'[p] = j
      /\ \A q \in Proc \ {p} : job'[q] = job[q]
  BY <1>1, <1>2, <1>3, <1>5, JobStep
<1>7. ReadOK'
  <2>1. \A n \in 1..Len(file) : file[n].mtime \in Nat /\ file[n].mtime >= file[n].mtime
    BY <1>1, MtimeType
  <2>2. \A q \in Proc : job'[q].read = job[q].read \/ job'[q].read = << >>
    BY <1>3, <1>6
  <2> QED BY <1>1, <1>2, <1>5, <2>1, <2>2, ReadStays
<1>8. Sound'
  BY <1>1, <1>2, <1>6, <1>7 DEF Sound, Shapes, DirOK, TimesOK
<1>9. job'["daemon"].victims = {} \/ /\ job'["daemon"].victims = job["daemon"].victims
                                     /\ job'["daemon"].max = job["daemon"].max
  BY <1>3, <1>6 DEF Proc
<1>10. VictimsOlder'
  BY <1>2, <1>9 DEF IInv, VictimsOlder
<1>11. SurvivorsFew'
  BY <1>2 DEF SurvivorsFew
<1> QED BY <1>8, <1>10, <1>11 DEF IInv

LEMMA ReadEntryStep ==
  ASSUME IInv, NEW p \in Proc, ReadEntry(p)
  PROVE  IInv'
<1>1. /\ Sound /\ Len(file) \in Nat /\ file \in Seq(File) /\ job \in [Proc -> Job]
      /\ job[p] \in Job /\ JobFits(p, job[p], Len(file))
      /\ DOMAIN dir \subseteq Name /\ dir \in [DOMAIN dir -> 1..Len(file)]
  BY LenProperties DEF IInv, Sound, Shapes, JobsOK, DirOK
<1>2. PICK name \in Unread(p) :
        job' = [job EXCEPT ![p].read =
                  [m \in DOMAIN @ \cup {name} |->
                     IF m = name THEN [n |-> dir[name], mtime |-> file[dir[name]].mtime]
                     ELSE @[m]]]
  BY DEF ReadEntry
<1>3. job[p].scanning /\ UNCHANGED <<now, file, dir, since, spared, limit>>
  BY DEF ReadEntry
<1> DEFINE entry == [n |-> dir[name], mtime |-> file[dir[name]].mtime]
           read == [m \in DOMAIN job[p].read \cup {name} |->
                      IF m = name THEN entry ELSE job[p].read[m]]
           j == [job[p] EXCEPT !.read = read]
<1>4. /\ name \in DOMAIN dir /\ name \in Name /\ dir[name] \in 1..Len(file)
      /\ file[dir[name]].name = name
  BY <1>1 DEF Unread, Sound, DirOK
<1>5. /\ entry \in [n : Nat, mtime : Time]
      /\ entry.n = dir[name] /\ entry.mtime = file[dir[name]].mtime
      /\ entry.mtime \in Nat /\ name.at <= entry.mtime
  BY <1>1, <1>4, MtimeType DEF Sound, TimesOK
<1> HIDE DEF entry
<1>6. /\ DOMAIN read = DOMAIN job[p].read \cup {name} /\ read[name] = entry
      /\ \A m \in DOMAIN job[p].read \ {name} : read[m] = job[p].read[m]
  OBVIOUS
<1>7. read \in Read /\ IsFiniteSet(DOMAIN read)
  <2>1. PICK D \in SUBSET Name : job[p].read \in [D -> [n : Nat, mtime : Time]]
    BY <1>1 DEF Job, Read
  <2>2. read \in [D \cup {name} -> [n : Nat, mtime : Time]] /\ D \cup {name} \in SUBSET Name
    BY <1>4, <1>5, <2>1
  <2>3. IsFiniteSet(DOMAIN job[p].read)
    BY <1>1 DEF JobFits
  <2> HIDE DEF read
  <2>4. IsFiniteSet(DOMAIN read)
    BY <1>6, <2>3, FS_AddElement
  <2> QED BY <2>2, <2>4 DEF Read
<1> HIDE DEF read
<1>8. /\ j \in Job /\ j.read = read /\ j.scanning = job[p].scanning
      /\ j.victims = job[p].victims /\ j.todo = job[p].todo
      /\ j.max = job[p].max /\ j.at = job[p].at /\ j.got = job[p].got
      /\ j.writing = job[p].writing
  BY <1>1, <1>7 DEF Job
<1>9. job' = [job EXCEPT ![p] = j]
  BY <1>1, <1>2 DEF Job, read, entry
<1> HIDE DEF j
<1>10. JobFits(p, j, Len(file))
  BY <1>1, <1>3, <1>7, <1>8 DEF JobFits
<1>11. Len(file)' = Len(file) /\ Len(file)' >= Len(file) /\ JobFits(p, j, Len(file)')
  BY <1>1, <1>3, <1>10
<1>12. /\ job' \in [Proc -> Job] /\ JobsOK' /\ job'[p] = j
       /\ \A q \in Proc \ {p} : job'[q] = job[q]
  BY <1>1, <1>3, <1>8, <1>9, <1>11, JobStep
<1>13. ReadOK'
  <2> SUFFICES ASSUME NEW q \in Proc, NEW m \in DOMAIN job'[q].read
               PROVE  /\ job'[q].read[m].n \in 1..Len(file)
                      /\ file[job'[q].read[m].n].name = m
                      /\ m.at <= job'[q].read[m].mtime
                      /\ job'[q].read[m].mtime <= file[job'[q].read[m].n].mtime
    BY <1>3 DEF ReadOK
  <2>1. CASE q = p /\ m = name
    BY <1>4, <1>5, <1>6, <1>8, <1>12, <2>1
  <2>2. CASE q # p \/ m # name
    <3>1. m \in DOMAIN job[q].read /\ job'[q].read[m] = job[q].read[m]
      BY <1>6, <1>8, <1>12, <2>2
    <3> QED BY <1>1, <3>1 DEF Sound, ReadOK
  <2> QED BY <2>1, <2>2
<1>14. Sound'
  BY <1>1, <1>3, <1>12, <1>13 DEF Sound, Shapes, DirOK, TimesOK
<1>15. /\ job'["daemon"].victims = job["daemon"].victims
       /\ job'["daemon"].max = job["daemon"].max
  BY <1>8, <1>12 DEF Proc
<1>16. VictimsOlder' /\ SurvivorsFew'
  BY <1>3, <1>15 DEF IInv, VictimsOlder, SurvivorsFew, Survivors
<1> QED BY <1>14, <1>16 DEF IInv

LEMMA StatFailsStep ==
  ASSUME IInv, NEW p \in Proc, StatFails(p)
  PROVE  IInv'
<1>1. /\ Sound /\ VictimsOlder /\ SurvivorsFew /\ Len(file) \in Nat
      /\ dir \in [DOMAIN dir -> 1..Len(file)] /\ Len(file) <= MaxFiles
  BY LenProperties DEF IInv, Sound, Shapes, DirOK
<1>2. PICK name \in Unread(p) : spared' = spared \cup {dir[name]}
  BY DEF StatFails
<1>3. UNCHANGED <<now, file, dir, job, since, limit>>
  BY DEF StatFails
<1>4. dir[name] \in Serial
  BY <1>1, BoundAssumption DEF Unread, Serial
<1>5. Shapes' /\ DirOK' /\ TimesOK' /\ ReadOK'
  BY <1>1, <1>2, <1>3, <1>4 DEF Sound, Shapes, DirOK, TimesOK, ReadOK
<1>6. JobsOK'
  BY <1>1, <1>3 DEF Sound, JobsOK, JobFits
<1>7. VictimsOlder'
  BY <1>1, <1>3 DEF VictimsOlder
<1>8. Survivors' \subseteq Survivors
  BY <1>2, <1>3 DEF Survivors
<1>9. SurvivorsFew'
  BY <1>1, <1>3, <1>8, FewerStay
<1> QED BY <1>5, <1>6, <1>7, <1>9 DEF IInv, Sound

LEMMA ChooseStep ==
  ASSUME IInv, NEW p \in Proc, Choose(p)
  PROVE  IInv'
<1> DEFINE max == job[p].max
           read == job[p].read
           S == DOMAIN read
<1>1. /\ Sound /\ now \in Time /\ Len(file) \in Nat /\ file \in Seq(File)
      /\ job \in [Proc -> Job] /\ job[p] \in Job /\ JobFits(p, job[p], Len(file))
      /\ DOMAIN dir \subseteq Name /\ IsFiniteSet(DOMAIN dir)
      /\ dir \in [DOMAIN dir -> 1..Len(file)]
  BY LenProperties DEF IInv, Sound, Shapes, DirOK, JobsOK
<1>2. job[p].scanning /\ UNCHANGED <<now, file, dir, since, spared>>
  BY DEF Choose
<1>3. /\ job[p].todo # << >> /\ Head(job[p].todo).do = "prune"
      /\ job[p].got /\ max > 0 /\ p = "daemon" /\ max \in Nat
      /\ IsFiniteSet(S) /\ S \subseteq Name
  <2>1. /\ job[p].todo # << >> /\ Head(job[p].todo).do = "prune"
        /\ job[p].got /\ max > 0 /\ p = "daemon" /\ max \in Nat /\ IsFiniteSet(S)
    BY <1>1, <1>2 DEF Proc, JobFits, Job
  <2>2. S \subseteq Name
    BY <1>1 DEF Job, Read
  <2> QED BY <2>1, <2>2
<1>4. PICK V \in Oldest(read, ToDelete(S, max)) :
        job' = [job EXCEPT ![p] =
                  IF V = {} THEN Next1(p, FALSE)
                  ELSE [job[p] EXCEPT !.scanning = FALSE, !.read = << >>, !.victims = V]]
  BY DEF Choose
<1>5. limit' = IF AllRead(p) THEN max ELSE 0
  BY DEF Choose
<1>6. ASSUME NEW m \in S
      PROVE  /\ read[m].n \in 1..Len(file) /\ file[read[m].n].name = m
             /\ m.at <= read[m].mtime /\ read[m].mtime <= file[read[m].n].mtime
             /\ m.at \in Nat /\ read[m].mtime \in Nat /\ file[read[m].n].mtime \in Nat
  <2>1. /\ read[m].n \in 1..Len(file) /\ file[read[m].n].name = m
        /\ m.at <= read[m].mtime /\ read[m].mtime <= file[read[m].n].mtime
    BY <1>1 DEF Sound, ReadOK
  <2>2. m.at \in Nat
    BY <1>3 DEF Name, Time
  <2>3. read[m].mtime \in Nat
    BY <1>1 DEF Job, Read, Time
  <2> QED BY <1>1, <2>1, <2>2, <2>3, MtimeType
<1> HIDE DEF S, read
<1>7. /\ V \subseteq S /\ IsFiniteSet(V) /\ IsFiniteSet(S \ V)
      /\ Cardinality(S \ V) <= max
      /\ V # {} => Cardinality(S \ V) = max
      /\ \A v \in V, u \in S \ V : read[v].mtime <= read[u].mtime
  <2>1. S = DOMAIN read
    BY DEF S
  <2>2. IsFiniteSet(S) /\ max \in Nat /\ V \in Oldest(read, ToDelete(S, max))
    BY <1>3, <1>4
  <2> HIDE DEF max
  <2> QED BY ONLY <2>1, <2>2, OldestKeeps
<1>8. PICK j \in Job : /\ job' = [job EXCEPT ![p] = j] /\ j.victims = V
                       /\ JobFits(p, j, Len(file)) /\ (V # {} => j.max = max)
                       /\ j.read = << >>
  <2>1. CASE V = {}
    BY <1>1, <1>3, <1>4, <2>1, Next1Fits
  <2>2. CASE V # {}
    <3> DEFINE j == [job[p] EXCEPT !.scanning = FALSE, !.read = << >>, !.victims = V]
    <3>1. V \subseteq Name
      BY <1>3, <1>7
    <3>2. /\ j \in Job /\ j.victims = V /\ j.max = max /\ j.todo = job[p].todo
          /\ j.writing = job[p].writing /\ j.at = job[p].at /\ j.got = job[p].got
          /\ ~j.scanning /\ j.read = << >>
      BY <1>1, <3>1, NothingRead DEF Job
    <3>3. job' = [job EXCEPT ![p] = j]
      BY <1>4, <2>2
    <3> HIDE DEF j
    <3>4. JobFits(p, j, Len(file))
      BY <1>1, <1>3, <1>7, <3>2, NothingRead, FS_EmptySet DEF JobFits
    <3> QED BY <3>2, <3>3, <3>4
  <2> QED BY <2>1, <2>2
<1> HIDE DEF max
<1>a. Len(file)' = Len(file) /\ Len(file)' >= Len(file)
  BY <1>1, <1>2
<1>9. /\ job' \in [Proc -> Job] /\ JobsOK' /\ job'["daemon"] = j
      /\ \A q \in Proc \ {p} : job'[q] = job[q]
  <2>1. JobFits(p, j, Len(file)')
    BY <1>2, <1>8, <1>a
  <2>2. /\ job' \in [Proc -> Job] /\ JobsOK' /\ job'[p] = j
        /\ \A q \in Proc \ {p} : job'[q] = job[q]
    BY <1>1, <1>2, <1>8, <1>a, <2>1, JobStep
  <2> QED BY <1>3, <2>2
<1>10. Sound'
  <2>1. limit' \in Nat
    BY <1>3, <1>5
  <2>2. \A n \in 1..Len(file) : file[n].mtime \in Nat /\ file[n].mtime >= file[n].mtime
    BY <1>1, MtimeType
  <2>3. \A q \in Proc : job'[q].read = job[q].read \/ job'[q].read = << >>
    BY <1>3, <1>8, <1>9
  <2>4. ReadOK'
    BY <1>1, <1>2, <1>a, <2>2, <2>3, ReadStays
  <2> QED BY <1>1, <1>2, <1>9, <2>1, <2>4 DEF Sound, Shapes, DirOK, TimesOK
<1>11. VictimsOlder'
  <2> SUFFICES ASSUME NEW v \in V
               PROVE  \E U \in SUBSET (1..Len(file)) :
                        /\ Cardinality(U) >= j.max
                        /\ \A m \in U : file[m].name # v /\ file[m].mtime >= v.at
    BY <1>2, <1>8, <1>9 DEF VictimsOlder
  <2> DEFINE serial == [u \in S |-> read[u].n]
             U == {serial[u] : u \in S \ V}
  <2>1. U \in SUBSET (1..Len(file))
    BY <1>6
  <2>2. Cardinality(U) = max /\ j.max = max
    <3>1. \A x, y \in S \ V : serial[x] = serial[y] => x = y
      BY <1>6
    <3>2. /\ IsFiniteSet(S \ V) /\ Cardinality(S \ V) = max /\ j.max = max
      BY <1>7, <1>8
    <3> HIDE DEF serial
    <3>3. (\A x, y \in S \ V : serial[x] = serial[y] => x = y) =>
            Cardinality({serial[x] : x \in S \ V}) = Cardinality(S \ V)
      BY <3>2, ImageOf
    <3> QED BY <3>1, <3>2, <3>3
  <2>3. ASSUME NEW u \in S \ V
        PROVE  file[serial[u]].name # v /\ file[serial[u]].mtime >= v.at
    <3>1. serial[u] = read[u].n /\ v \in S /\ u # v
      BY <1>7
    <3>2. /\ file[read[u].n].name = u
          /\ v.at <= read[v].mtime /\ read[v].mtime <= read[u].mtime
          /\ read[u].mtime <= file[read[u].n].mtime
          /\ v.at \in Nat /\ read[v].mtime \in Nat /\ read[u].mtime \in Nat
          /\ file[read[u].n].mtime \in Nat
      BY <1>6, <1>7, <3>1
    <3> QED BY <3>1, <3>2
  <2>4. Cardinality(U) >= j.max
    BY <1>3, <2>2
  <2>5. \A m \in U : file[m].name # v /\ file[m].mtime >= v.at
    BY <2>3
  <2> HIDE DEF U
  <2> QED BY <2>1, <2>4, <2>5
<1>12. SurvivorsFew'
  <2> SUFFICES ASSUME limit' > 0
               PROVE  Cardinality({dir[m] : m \in DOMAIN dir \ V} \ (since \cup spared)) <= limit'
    BY <1>2, <1>8, <1>9 DEF SurvivorsFew, Survivors
  <2>1. AllRead(p) /\ limit' = max
    BY <1>5
  <2> DEFINE D == DOMAIN dir \cap (S \ V)
             T == {dir[m] : m \in D}
             L == {dir[m] : m \in DOMAIN dir \ V} \ (since \cup spared)
  <2>2. IsFiniteSet(D) /\ Cardinality(D) <= Cardinality(S \ V)
    BY <1>7, FS_Subset
  <2>3. L \subseteq T
    <3> SUFFICES ASSUME NEW m \in DOMAIN dir \ V, dir[m] \notin since, dir[m] \notin spared
                 PROVE  m \in S
      OBVIOUS
    <3> QED BY <2>1 DEF AllRead, Unread, S, read
  <2> HIDE DEF D
  <2>4. IsFiniteSet(T) /\ Cardinality(T) <= Cardinality(D)
    BY <2>2, ImageOf
  <2> HIDE DEF T, L
  <2>5. IsFiniteSet(L) /\ Cardinality(L) <= Cardinality(T)
    BY <2>3, <2>4, FS_Subset
  <2>6. /\ Cardinality(T) \in Nat /\ Cardinality(S \ V) \in Nat /\ Cardinality(D) \in Nat
        /\ Cardinality(L) \in Nat /\ Cardinality(S \ V) <= max
    BY <1>7, <2>2, <2>4, <2>5, FS_CardinalityType
  <2>7. Cardinality(L) <= max
    BY <1>3, <2>2, <2>4, <2>5, <2>6
  <2> QED BY <2>1, <2>7 DEF L
<1> QED BY <1>10, <1>11, <1>12 DEF IInv

-----------------------------------------------------------------------------
LEMMA InitIInv == Init => IInv
<1> SUFFICES ASSUME Init PROVE IInv
  OBVIOUS
<1> DEFINE First == [name : [at : {0}, what : Label], mtime : {0}, whole : {TRUE}]
           names == {file[n].name : n \in 1..Len(file)}
<1>0. file \in Before
  BY DEF Init
<1>1. now = 0 /\ file \in Seq(First) /\ Len(file) <= MaxFiles /\ Len(file) \in Nat
  BY <1>0, BeforeAssumption, LenProperties DEF Init
<1>2. \A n \in 1..Len(file) : file[n] \in First
  BY <1>1, ElementOfSeq
<1>a. 0 \in Time
  BY BoundAssumption DEF Time
<1>3. First \subseteq File
  BY <1>a DEF File, Name
<1>4. file \in Seq(File)
  <2>1. file \in [1..Len(file) -> File]
    BY <1>1, <1>2, <1>3, LenProperties
  <2> QED BY <1>1, <2>1, FunctionSeq
<1>5. job \in [Proc -> Job] /\ JobsOK /\ \A p \in Proc : job[p] = NoJob
  BY <1>1, <1>a, NoJobType DEF Init, JobsOK, Proc
<1>6. DirOK
  <2>1. dir = [name \in names |-> CHOOSE n \in 1..Len(file) : file[n].name = name]
    BY DEF Init
  <2>2. ASSUME NEW name \in names
        PROVE  dir[name] \in 1..Len(file) /\ file[dir[name]].name = name
    BY <2>1
  <2>3. names \subseteq Name
    <3> SUFFICES ASSUME NEW n \in 1..Len(file) PROVE file[n].name \in Name
      OBVIOUS
    <3>1. file[n] \in File
      BY <1>2, <1>3
    <3> HIDE DEF First
    <3> QED BY <3>1 DEF File
  <2>4. IsFiniteSet(names)
    <3> DEFINE g == [n \in 1..Len(file) |-> file[n].name]
    <3>1. IsFiniteSet(1..Len(file))
      BY <1>1, FS_Interval
    <3>2. names = {g[n] : n \in 1..Len(file)}
      OBVIOUS
    <3> HIDE DEF g, names
    <3> QED BY <3>1, <3>2, ImageOf
  <2> HIDE DEF names
  <2>5. DOMAIN dir = names /\ dir \in [names -> 1..Len(file)]
    BY <2>1, <2>2
  <2> QED BY <2>2, <2>3, <2>4, <2>5 DEF DirOK
<1>7. TimesOK
  <2> SUFFICES ASSUME NEW n \in 1..Len(file)
               PROVE  file[n].name.at <= file[n].mtime /\ file[n].mtime <= now
    BY DEF TimesOK
  <2>1. file[n].name.at = 0 /\ file[n].mtime = 0
    BY <1>2
  <2> HIDE DEF First
  <2> QED BY <1>1, <2>1
<1>8. ReadOK /\ job["daemon"].victims = {}
  <2>1. \A p \in Proc : job[p].read = << >> /\ job[p].victims = {}
    BY <1>1, <1>5, <1>a, NoJobType
  <2>2. \A p \in Proc : DOMAIN job[p].read = {}
    BY <2>1, NothingRead
  <2> QED BY <2>1, <2>2 DEF ReadOK, Proc
<1>9. Sound
  BY <1>1, <1>a, <1>4, <1>5, <1>6, <1>7, <1>8 DEF Init, Sound, Shapes
<1> QED BY <1>8, <1>9 DEF Init, IInv, VictimsOlder, SurvivorsFew

LEMMA NextIInv ==
  ASSUME IInv, [Next]_vars
  PROVE  IInv'
<1>1. CASE UNCHANGED vars
  <2>1. UNCHANGED <<now, file, dir, job, since, spared, limit>>
    BY <1>1 DEF vars
  <2>2. Shapes' /\ DirOK' /\ TimesOK' /\ ReadOK'
    BY <2>1 DEF IInv, Sound, Shapes, DirOK, TimesOK, ReadOK
  <2>3. JobsOK'
    BY <2>1 DEF IInv, Sound, JobsOK, JobFits
  <2>4. VictimsOlder' /\ SurvivorsFew'
    BY <2>1 DEF IInv, VictimsOlder, SurvivorsFew, Survivors
  <2> QED BY <2>2, <2>3, <2>4 DEF IInv, Sound
<1>2. CASE \E p \in Proc : Quiet(p)
  BY <1>2, QuietStep
<1>3. CASE \E e \in Event, a \in Action, s \in Settings : Transition(e, a, s)
  BY <1>2, <1>3 DEF Quiet, Proc
<1>4. CASE endpoint_capture_now \/ endpoint_test_snapshot
  BY <1>2, <1>4 DEF Quiet, Proc
<1>5. ASSUME NEW p \in Proc, snapshot_capture(p) \/ NewStamp(p) \/ snapshot_prune(p)
      PROVE  IInv'
  BY <1>2, <1>5, OpenStep, SavedStep, FailsStep, UnlinkStep,
     OpendirStep, ReadEntryStep, StatFailsStep, ChooseStep
     DEF snapshot_capture, snapshot_prune, Quiet
<1>6. CASE \E p \in Proc : Restart(p)
  BY <1>6, RestartStep
<1>7. CASE Tick
  BY <1>7, TickStep
<1> QED BY <1>1, <1>3, <1>4, <1>5, <1>6, <1>7 DEF Next

LEMMA Invariant == Spec => []IInv
<1>1. Init => IInv
  BY InitIInv
<1>2. IInv /\ [Next]_vars => IInv'
  BY NextIInv
<1> QED BY <1>1, <1>2, PTL DEF Spec

(* The type of every variable, for any rules, cameras, settings and        *)
(* bounds: a name always stands for a file that was opened under it.       *)
THEOREM TypeCorrect == Spec => []TypeOK
<1>1. ASSUME IInv PROVE TypeOK
  <2>1. /\ Shapes /\ DirOK /\ JobsOK
    BY <1>1 DEF IInv, Sound
  <2>2. \A n \in 1..Len(file) : file[n] \in File
    BY <2>1, ElementOfSeq DEF Shapes
  <2>3. ASSUME NEW p \in Proc
        PROVE  /\ job[p].at \in Time /\ job[p].max \in Nat /\ job[p].got \in BOOLEAN
               /\ job[p].writing \in 0..Len(file)
               /\ job[p].scanning \in BOOLEAN
               /\ \A name \in DOMAIN job[p].read :
                    job[p].read[name] \in [n : 1..Len(file), mtime : Time]
               /\ job[p].victims \subseteq Name
               /\ job[p].todo = << >> => job[p] = NoJob
    <3>1. job[p] \in Job /\ JobFits(p, job[p], Len(file)) /\ Len(file) \in Nat
      BY <2>1, LenProperties DEF Shapes, JobsOK
    <3>2. ASSUME NEW name \in DOMAIN job[p].read
          PROVE  job[p].read[name] \in [n : 1..Len(file), mtime : Time]
      <4>1. job[p].read[name] \in [n : Nat, mtime : Time]
        BY <3>1 DEF Job, Read
      <4>2. job[p].read[name].n \in 1..Len(file)
        BY <1>1 DEF IInv, Sound, ReadOK
      <4> QED BY <4>1, <4>2
    <3> QED BY <3>1, <3>2 DEF Job, JobFits
  <2> QED BY <2>1, <2>2, <2>3 DEF TypeOK, Shapes, DirOK, File
<1> QED BY <1>1, Invariant, PTL

(* README: the limit deletes the oldest pictures.  Once a prune that       *)
(* reached the end of the directory is done, what was there when it began  *)
(* holds no more than the limit, whatever captures and failures met it;    *)
(* the files that snapshot_prune could not stat or unlink are left and     *)
(* come on top.                                                            *)
THEOREM LimitHoldsHolds == Spec => []LimitHolds
<1>1. ASSUME IInv PROVE LimitHolds
  <2> DEFINE victims == job["daemon"].victims
             hit == DOMAIN dir \cap victims
             H == {dir[m] : m \in hit}
             T == {dir[m] : m \in DOMAIN dir \ victims}
  <2> SUFFICES ASSUME limit > 0
               PROVE  Cardinality(Listed \ (since \cup spared)) <= limit + Cardinality(victims)
    BY DEF LimitHolds
  <2>1. /\ IsFiniteSet(DOMAIN dir) /\ IsFiniteSet(victims) /\ limit \in Nat
        /\ Cardinality(Survivors) <= limit
    BY <1>1 DEF IInv, Sound, Shapes, DirOK, JobsOK, JobFits, SurvivorsFew, Proc
  <2>2. /\ IsFiniteSet(hit) /\ IsFiniteSet(DOMAIN dir \ victims)
        /\ Cardinality(hit) <= Cardinality(victims)
    BY <2>1, FS_Subset
  <2>3. Listed \ (since \cup spared) \subseteq Survivors \cup H
    BY DEF Listed, Survivors
  <2>4. IsFiniteSet(H) /\ Cardinality(H) <= Cardinality(hit)
    BY <2>2, ImageOf
  <2>5. IsFiniteSet(T)
    BY <2>2, ImageOf
  <2>6. IsFiniteSet(Survivors)
    BY <2>5, FS_Subset DEF Survivors
  <2> HIDE DEF hit, H, T, victims
  <2>7. /\ IsFiniteSet(Survivors \cup H)
        /\ Cardinality(Survivors \cup H)
             = Cardinality(Survivors) + Cardinality(H) - Cardinality(Survivors \cap H)
    BY <2>4, <2>6, FS_Union
  <2>8. /\ IsFiniteSet(Survivors \cap H)
    BY <2>6, FS_Intersection
  <2>9. /\ Cardinality(Listed \ (since \cup spared)) <= Cardinality(Survivors \cup H)
        /\ IsFiniteSet(Listed \ (since \cup spared))
    BY <2>3, <2>7, FS_Subset
  <2>10. /\ Cardinality(Survivors) \in Nat /\ Cardinality(H) \in Nat
         /\ Cardinality(Survivors \cap H) \in Nat /\ Cardinality(hit) \in Nat
         /\ Cardinality(victims) \in Nat /\ Cardinality(Survivors \cup H) \in Nat
         /\ Cardinality(Listed \ (since \cup spared)) \in Nat
    BY <2>1, <2>2, <2>4, <2>6, <2>7, <2>8, <2>9, FS_CardinalityType
  <2> QED BY <2>1, <2>2, <2>4, <2>7, <2>9, <2>10
<1> QED BY <1>1, Invariant, PTL

(* A saved picture is lost only to a prune, for as many others as the      *)
(* limit allows, written since its capture began, or to a capture of its   *)
(* name.                                                                   *)
THEOREM LossHasCauseHolds == Spec => LossHasCause
<1> DEFINE Cause(n) ==
      \/ Cardinality({m \in 1..Len(file) \ {n} : file[m].mtime >= file[n].name.at})
           >= job["daemon"].max /\ job["daemon"].max > 0
      \/ \E p \in Proc : At(p, "shoot") /\ NameOf(p) = file[n].name
<1>1. ASSUME IInv, [Next]_vars, NEW n \in 1..Len(file), Kept(n), ~Kept(n)'
      PROVE  Cause(n)
  <2>1. /\ Sound /\ Len(file) \in Nat /\ file \in Seq(File)
        /\ dir \in [DOMAIN dir -> 1..Len(file)]
        /\ \A m \in DOMAIN dir : file[dir[m]].name = m
    BY <1>1, LenProperties DEF IInv, Sound, Shapes, DirOK
  <2>2. PICK name \in DOMAIN dir : dir[name] = n
    BY <1>1 DEF Kept, Listed
  <2>3. file[n].name = name /\ file[n].whole
    BY <1>1, <2>1, <2>2 DEF Kept
  <2>4. ~ UNCHANGED <<file, dir>>
    BY <1>1 DEF Kept, Listed
  <2>5. PICK p \in Proc : Open(p) \/ Saved(p) \/ Fails(p) \/ Unlink(p)
    <3>1. Next
      BY <1>1, <2>4 DEF vars
    <3> QED BY <2>4, <3>1 DEF Next, Transition, Begin, endpoint_capture_now,
         endpoint_test_snapshot, snapshot_capture, OpenFails, NewStamp, snapshot_prune,
         PruneSkipped, OpendirFails, Opendir, ReadEntry, StatFails, Choose, UnlinkFails,
         Restart, Tick
  <2>6. CASE Open(p)
    <3>1. At(p, "shoot") /\ file[n] = file'[n]
      <4>1. At(p, "shoot") /\ now \in Time
        BY <2>1, <2>6 DEF Open, Sound, Shapes
      <4>2. NameOf(p) \in Name
        BY <2>1, <4>1, NameType
      <4>3. \E new \in File : file' = Append(file, new)
        BY <2>6, <4>1, <4>2 DEF Open, File
      <4> QED BY <2>1, <4>1, <4>3, AppendProperties
    <3>2. n \notin Listed'
      BY <1>1, <2>3, <3>1 DEF Kept
    <3>3. name = NameOf(p)
      BY <2>2, <2>6, <3>2 DEF Open, Listed
    <3> QED BY <2>3, <3>1, <3>3
  <2>7. CASE Saved(p)
    <3>1. Listed' = Listed
      BY <2>7 DEF Saved, Listed
    <3>2. file[n] \in File /\ DOMAIN file = 1..Len(file)
      BY <2>1, ElementOfSeq, LenProperties
    <3>3. file'[n].whole
      BY <2>3, <2>7, <3>2 DEF Saved, File
    <3> QED BY <1>1, <3>1, <3>3 DEF Kept
  <2>8. CASE Fails(p)
    <3>1. At(p, "shoot") /\ dir' = Without(NameOf(p)) /\ file' = file
      BY <2>8 DEF Fails
    <3>2. n \notin Listed'
      BY <1>1, <2>3, <3>1 DEF Kept
    <3>3. name = NameOf(p)
      BY <2>2, <3>1, <3>2 DEF Listed, Without, Restrict
    <3> QED BY <2>3, <3>1, <3>3
  <2>9. CASE Unlink(p)
    <3>1. PICK gone \in job[p].victims : dir' = Without(gone) /\ file' = file
      BY <2>9 DEF Unlink
    <3>2. n \notin Listed'
      BY <1>1, <2>3, <3>1 DEF Kept
    <3>3. name = gone
      BY <2>2, <3>1, <3>2 DEF Listed, Without, Restrict
    <3>4. job[p] \in Job /\ JobFits(p, job[p], Len(file))
      BY <2>1 DEF Sound, Shapes, JobsOK
    <3>5. p = "daemon" /\ job["daemon"].max \in Nat /\ job["daemon"].max > 0
      BY <3>1, <3>4 DEF JobFits, Proc, Job
    <3>6. PICK U \in SUBSET (1..Len(file)) :
            /\ Cardinality(U) >= job["daemon"].max
            /\ \A m \in U : file[m].name # name /\ file[m].mtime >= name.at
      BY <1>1, <3>1, <3>3, <3>5 DEF IInv, VictimsOlder
    <3> DEFINE W == {m \in 1..Len(file) \ {n} : file[m].mtime >= file[n].name.at}
    <3>7. U \subseteq W /\ W \subseteq 1..Len(file)
      BY <2>3, <3>6
    <3> HIDE DEF W
    <3>8. /\ IsFiniteSet(W) /\ IsFiniteSet(U)
          /\ Cardinality(U) <= Cardinality(W)
      <4>1. IsFiniteSet(1..Len(file))
        BY <2>1, FS_Interval
      <4> QED BY <3>7, <4>1, FS_Subset
    <3>9. Cardinality(W) \in Nat /\ Cardinality(U) \in Nat
      BY <3>8, FS_CardinalityType
    <3>10. Cardinality(W) >= job["daemon"].max
      BY <3>5, <3>6, <3>8, <3>9
    <3> QED BY <3>5, <3>10 DEF W
  <2> QED BY <2>5, <2>6, <2>7, <2>8, <2>9
<1>2. IInv /\ [Next]_vars =>
        [\A n \in 1..Len(file) : (Kept(n) /\ ~Kept(n)') => Cause(n)]_vars
  BY <1>1
<1> QED BY <1>2, Invariant, PTL DEF Spec, LossHasCause
=============================================================================
