-------------------------- MODULE ConfigStoreProofs --------------------------
(***************************************************************************)
(* The configuration path for any parameters, values, sections, imports    *)
(* and number of saves: the types under every disturbance; and, for an     *)
(* operator who waits for a save to be applied, that saves stick, that     *)
(* nothing else gets in, and that readers and the form see what they       *)
(* should.  With a hasty operator, crashes and failed writes, a save made  *)
(* when nothing is pending still sticks, and every request and callback    *)
(* ends.                                                                   *)
(***************************************************************************)
EXTENDS ConfigStore, FiniteSetTheorems, TLAPS

(* The operator waits, the daemon lives and the flash can be written.      *)
Patient == Env = {}

(* Nobody types the mask in a password that the CGI skips.                 *)
MaskNotTyped == \A p \in Param \cap MaskedByCgi : \A v \in Edits[p] : Sent[p][v] # Mask

(* What a request carries fits the overrides array: so it is of every      *)
(* section, but not of an import of all 68 parameters.                     *)
HasRoom(S) == IsFiniteSet(S) /\ Cardinality(S) <= MaxOverrides

RequestsFit == \A S \in Section \cup {DOMAIN c : c \in Imports} : HasRoom(S)

Assumed == Patient /\ MaskNotTyped /\ RequestsFit /\ Param # {}

-----------------------------------------------------------------------------
(* A value of p that the operator asked for, or what its path leaves of    *)
(* it; but for a parameter that was sent along with something else.        *)
Close(p, v) == p \in strayed \/ v \in Worn[p][asked[p]]

(* A configuration of such values, all or all but those in E.              *)
FullBut(c, E) == DOMAIN c = Param /\ \A p \in Param \ E : Close(p, c[p])
Full(c) == FullBut(c, {})

(* The form shows such values; selects of clips have theirs beside it.     *)
FormClose ==
  /\ \A p \in Param \ (ClipSelect \cup MaskedByUi) : Close(p, form[p])
  /\ \A p \in ClipSelect : Close(p, saved[p])

(* A save has been asked for and the daemon not yet told.                  *)
Telling == ui = "saving" /\ cgi # "reply"

(* The daemon was told, and has not yet applied everything.                *)
Applying == flag \/ dpc \in {"read", "consume", "set"}

(* Who is doing what: the CGI saves only while the daemon rests, and no    *)
(* rename fails.                                                           *)
Turns ==
  /\ dpc \notin {"down", "unlink"} /\ cgi # "unlink"
  /\ ui \in {"idle", "refresh"} => cgi = "idle"
  /\ ui = "saving" => cgi # "idle" /\ req.op \in {"save", "import"} /\ req.edited = last
  /\ ui = "loading" => cgi \in {"load", "reply"} /\ req.op = "config"
  /\ Telling => dpc = "idle"
  /\ Telling \/ dpc # "idle" => ~flag

(* The temp file is whole when it is renamed, and never CONFIG_FILE.       *)
FilesOK ==
  /\ cfg \in Inode /\ tmp # cfg
  /\ cgi = "fill" => tmp \in Inode /\ fd["cgi"] = tmp
  /\ dpc = "fill" => tmp \in Inode /\ fd["daemon"] = tmp
  /\ (cgi = "rename" \/ dpc = "rename") => tmp \in Inode /\ Full(data[tmp])

(* The request asks for nothing but what the operator wants, and for all   *)
(* of it, and fits the array.                                              *)
RequestOK ==
  ui = "saving" =>
    /\ HasRoom(DOMAIN req.body)
    /\ \A p \in DOMAIN req.body : Kept(p) => Close(p, req.body[p])
    /\ \A p \in last : p \in DOMAIN req.body /\ Kept(p)

(* What each copy of the configuration holds on its way.                   *)
CopiesOK ==
  /\ FullBut(data[cfg], last)
  /\ (Telling /\ cgi # "signal") \/ Full(data[cfg])
  /\ (ui = "saving" /\ cgi \in {"save", "open", "fill"}) => FullBut(seen, last)
  /\ (ui = "loading" /\ cgi = "reply") => Full(seen)
  /\ ui = "idle" => FormClose
  /\ (ui = "saving" /\ cgi \in {"open", "fill", "rename", "signal"}) => Full(saveFile)
  /\ (flag \/ dpc = "read") => Full(saveFile)
  /\ dpc \in {"consume", "set"} => Full(got)

(* The daemon's parameters.                                                *)
StoreOK ==
  /\ disk = store
  /\ FullBut(store, last)
  /\ Telling \/ Applying \/ Full(store)
  /\ dpc = "set" => \A i \in DOMAIN Fields : i < k => Close(Fields[i], store[Fields[i]])

AckedOK == \A p \in Param : acked[p] # Unknown => acked[p] = asked[p]

IInv == Turns /\ FilesOK /\ RequestOK /\ CopiesOK /\ StoreOK /\ AckedOK

-----------------------------------------------------------------------------
(***************************************************************************)
(* Types, whatever disturbs the path.                                      *)
(***************************************************************************)
LEMMA FieldsFacts ==
  /\ Len(Fields) \in Nat /\ DOMAIN Fields = 1..Len(Fields)
  /\ \A i \in 1..Len(Fields) : Fields[i] \in Param
  /\ \A p \in Param : \E i \in 1..Len(Fields) : Fields[i] = p
<1>1. Len(Fields) \in Nat /\ DOMAIN Fields = 1..Len(Fields)
  BY FieldsAssumption
<1> QED
  BY <1>1 DEF Param

LEMMA ValueFacts ==
  /\ Mask \in Value /\ Blank \in Value
  /\ \A p \in Param : Default[p] \in Value
  /\ \A v \in Value : Truncated[v] \in Value /\ Stripped[v] \in Value
  /\ \A p \in Param : \A v \in Value : Shown[p][v] \in Value /\ Sent[p][v] \in Value
  /\ Disabled \in Value /\ ClipSelect \subseteq Param
  /\ IsText(Empty)
BY ValueAssumption DEF IsText, Empty

(* A fresh inode is one that neither a name nor an open file refers to.    *)
LEMMA FreshInode ==
  ASSUME tmp = NoFile
  PROVE  Fresh \in Inode \ {cfg, tmp, fd["cgi"], fd["daemon"]}
<1>1. \E i \in Inode : i \notin {cfg, tmp, fd["cgi"], fd["daemon"]}
  <2>1. ASSUME \A i \in {1, 2, 3, 4} : i \in {cfg, 0, fd["cgi"], fd["daemon"]}  PROVE FALSE
    BY <2>1
  <2> QED
    BY <2>1 DEF Inode, NoFile
<1> QED
  BY <1>1 DEF Fresh

(* What the two processes do to the files keeps their types.               *)
FilesType ==
  /\ {cfg, tmp} \subseteq Inode \cup {NoFile}
  /\ DOMAIN data = Inode /\ \A i \in Inode : IsText(data[i])
  /\ fd \in [{"cgi", "daemon"} -> Inode \cup {NoFile}]

LEMMA FilesTyped ==
  ASSUME FilesType, NEW who \in {"cgi", "daemon"}, NEW text, IsText(text),
         OpenTmp(who) \/ FillTmp(who, text) \/ RenameTmp \/ UnlinkTmp
  PROVE  FilesType'
<1>1. CASE OpenTmp(who)
  <2> DEFINE i == IF tmp = NoFile THEN Fresh ELSE tmp
  <2>1. i \in Inode
    BY FreshInode DEF FilesType
  <2>2. tmp' = i /\ data' = [data EXCEPT ![i] = Empty] /\ fd' = [fd EXCEPT ![who] = i] /\ cfg' = cfg
    BY <1>1 DEF OpenTmp
  <2> HIDE DEF i
  <2> QED
    BY <2>1, <2>2, ValueFacts DEF FilesType
<1>2. CASE FillTmp(who, text)
  BY <1>2 DEF FillTmp, FilesType
<1>3. CASE RenameTmp
  BY <1>3 DEF RenameTmp, FilesType
<1>4. CASE UnlinkTmp
  BY <1>4 DEF UnlinkTmp, FilesType
<1> QED
  BY <1>1, <1>2, <1>3, <1>4

LEMMA TextsWritten ==
  ASSUME TypeOK
  PROVE  IsText(write_overrides) /\ IsText(Exported)
<1>1. ASSUME NEW p \in Param  PROVE cfg_get(p) \in Value
  BY <1>1, ValueFacts DEF cfg_get, TypeOK, IsText
<1>2. ASSUME NEW p \in Overridden  PROVE p \in DOMAIN req.body
  BY <1>2 DEF Overridden, Present
<1>3. \A p \in Param : write_overrides[p] \in Value
  BY <1>1, <1>2, ValueFacts DEF write_overrides, TypeOK, IsText
<1>4. \A p \in Param : Exported[p] \in Value
  BY ValueFacts DEF Exported, TypeOK
<1> QED
  BY <1>3, <1>4 DEF IsText, write_overrides, Exported

LEMMA InitTypes == Init => TypeOK
<1> SUFFICES ASSUME Init  PROVE TypeOK
  OBVIOUS
<1>1. store \in [Param -> Value]
  BY ValueAssumption DEF Init
<1>2. Exported \in [Param -> Value]
  BY <1>1, ValueFacts DEF Exported
<1>6. /\ form \in [Param -> Value] /\ saved \in [ClipSelect -> Value]
      /\ clips \subseteq Value
  <2>1. form \in [Param -> Value]
    BY <1>2, ValueFacts DEF Init
  <2>2. saved \in [ClipSelect -> Value]
    BY <1>2, ValueFacts DEF Init
  <2> QED
    BY <2>1, <2>2 DEF Init
<1>3. IsText(Exported)
  BY <1>2 DEF IsText
<1>4. 1 \in 1..(Len(Fields) + 1) /\ saves \in 0..MaxSaves
  BY FieldsFacts, BoundAssumption DEF Init
<1>5. FilesType
  BY <1>3, ValueFacts DEF Init, FilesType, Inode, NoFile
<1> QED
  BY <1>1, <1>4, <1>5, <1>6, ValueFacts DEF Init, TypeOK, FilesType, NoRequest

LEMMA SectionFacts ==
  /\ \A s \in Section : s \subseteq Param
  /\ \A p \in Param : \A v \in Edits[p] : v \in Value
  /\ \A c \in Imports : IsText(c)
  /\ \A S \in ClipLists : S \subseteq Value
BY ValueAssumption DEF IsText

(* A request carries configurations of the form.                           *)
LEMMA AskTypes ==
  ASSUME TypeOK, NEW op \in {"save", "import"}, NEW body, IsText(body),
         NEW entered, IsText(entered), NEW astray, astray \subseteq MayStray,
         Ask(op, body, entered, astray), form' \in [Param -> Value]
  PROVE  TypeOK'
<1>1. /\ req' = [op |-> op, body |-> body, edited |-> DOMAIN entered]
      /\ asked' = [p \in Param |-> IF p \in DOMAIN entered THEN entered[p] ELSE asked[p]]
      /\ acked' = [p \in Param |-> IF p \in DOMAIN entered THEN Unknown ELSE acked[p]]
      /\ saves' = saves + 1 /\ saves < MaxSaves
      /\ last' = DOMAIN entered /\ clean' = Quiet /\ ui' = "saving" /\ cgi' = "load"
      /\ strayed' = (strayed \ DOMAIN entered) \cup astray
      /\ UNCHANGED <<seen, ok, clips, saved, daemonVars, saveFile, fileVars>>
  BY DEF Ask, MayRequest, Send
<1>2. asked' \in [Param -> Value]
  BY <1>1 DEF TypeOK, IsText
<1>3. req'.op \in {"none", "save", "import", "config"} /\ IsText(req'.body)
      /\ req'.edited \subseteq Param
  BY <1>1 DEF IsText
<1>4. saves' \in 0..MaxSaves
  BY <1>1, BoundAssumption DEF TypeOK
<1>5. last' \subseteq Param /\ clean' \in BOOLEAN /\ strayed' \subseteq MayStray
  BY <1>1 DEF IsText, Quiet, TypeOK
<1>6. \A p \in Param : acked'[p] \in Value \/ acked'[p] = Unknown
  BY <1>1 DEF TypeOK
<1> QED
  BY <1>1, <1>2, <1>3, <1>4, <1>5, <1>6 DEF TypeOK, IsText, daemonVars, fileVars

LEMMA TypeStep == TypeOK /\ [Next]_vars => TypeOK'
<1> SUFFICES ASSUME TypeOK, [Next]_vars  PROVE TypeOK'
  OBVIOUS
<1>1. ASSUME NEW s \in Section, NEW p \in s, NEW v \in Edits[p], Save(s, p, v)
      PROVE  TypeOK'
  <2>0. p \in Param /\ v \in Value /\ s \subseteq Param
    BY SectionFacts
  <2>1. IsText(gatherFields(s, p, v))
    BY <2>0, ValueFacts DEF gatherFields, IsText, TypeOK
  <2>2. IsText([q \in {p} |-> v]) /\ Astray(s \ {p}) \subseteq MayStray
    BY <2>0 DEF IsText, Astray, MayStray
  <2>3. form' \in [Param -> Value]
    BY <1>1, <2>0 DEF Save, TypeOK
  <2> QED
    BY <1>1, <2>1, <2>2, <2>3, AskTypes DEF Save
<1>2. ASSUME NEW c \in Imports, Import(c)
      PROVE  TypeOK'
  <2>0. PICK entered : entered = [p \in {q \in DOMAIN c : ~(q \in MaskedByCgi /\ c[q] = Blank)} |-> c[p]]
    OBVIOUS
  <2>1. IsText(c) /\ IsText(entered)
    BY <2>0, SectionFacts DEF IsText
  <2>2. Ask("import", c, entered, {}) /\ form' \in [Param -> Value]
    BY <1>2, <2>0 DEF Import, TypeOK
  <2> QED
    BY <2>1, <2>2, AskTypes
<1>9. CASE loadClipList
  <2>1. clips' \subseteq Value
    BY <1>9, SectionFacts DEF loadClipList
  <2>2. form' \in [Param -> Value]
    BY <1>9, ValueFacts DEF loadClipList, TypeOK
  <2> QED
    BY <1>9, <2>1, <2>2 DEF loadClipList, TypeOK, IsText, history, cgiVars, daemonVars, fileVars
<1>3. CASE Refresh
  BY <1>3, ValueFacts DEF Refresh, Send, TypeOK, IsText, history, daemonVars, fileVars
<1>4. CASE Cgi
  <2>1. CASE config_load
    <3>1. IsText(seen')
      BY <2>1, ValueFacts DEF config_load, TypeOK
    <3> QED
      BY <2>1, <3>1 DEF config_load, CgiStep, TypeOK, IsText, uiVars, history, daemonVars, fileVars
  <2>2. CASE CgiWriteSave
    <3>1. IsText(saveFile')
      BY <2>2, TextsWritten DEF CgiWriteSave
    <3> QED
      BY <2>2, <3>1 DEF CgiWriteSave, CgiStep, TypeOK, IsText, uiVars, history, daemonVars, fileVars
  <2>3. CASE CgiOpen \/ CgiFill \/ CgiRename \/ CgiUnlink
    <3>1. FilesType
      BY DEF TypeOK, FilesType
    <3>2. FilesType'
      BY <2>3, <3>1, FilesTyped, TextsWritten DEF CgiOpen, CgiFill, CgiRename, CgiUnlink
    <3>3. /\ cgi' \in {"fill", "rename", "signal", "reply"} /\ ok' \in BOOLEAN
          /\ UNCHANGED <<req, seen, uiVars, daemonVars, saveFile>>
      BY <2>3 DEF CgiOpen, CgiFill, CgiRename, CgiUnlink, CgiStep, TypeOK
    <3> QED
      BY <3>2, <3>3 DEF FilesType, TypeOK, IsText, uiVars, history, daemonVars
  <2>4. CASE CgiRenameFails \/ signal_daemon
    BY <2>4 DEF CgiRenameFails, signal_daemon, CgiStep, TypeOK, IsText, uiVars, history, daemonVars, fileVars
  <2>5. CASE ReplySaved
    <3>1. \A p \in Param : acked'[p] \in Value \/ acked'[p] = Unknown
      BY <2>5 DEF ReplySaved, TypeOK
    <3> QED
      BY <2>5, <3>1, ValueFacts DEF ReplySaved, CgiStep, TypeOK, IsText, NoRequest, daemonVars, fileVars
  <2>6. CASE ReplyConfig
    <3>0. \A p \in Param : cfg_get(p) \in Value
      BY ValueFacts DEF cfg_get, TypeOK, IsText
    <3>1. form' \in [Param -> Value] /\ saved' \in [ClipSelect -> Value]
      BY <2>6, <3>0, ValueFacts DEF ReplyConfig, Filled, TypeOK
    <3> QED
      BY <2>6, <3>1, ValueFacts DEF ReplyConfig, CgiStep, TypeOK, IsText, NoRequest, history, daemonVars, fileVars
  <2> QED
    BY <1>4, <2>1, <2>2, <2>3, <2>4, <2>5, <2>6 DEF Cgi
<1>5. CASE Daemon
  <2>1. CASE TakeFlag \/ NothingToApply \/ ReadSave \/ DaemonRenameFails
    BY <2>1 DEF TakeFlag, NothingToApply, ReadSave, DaemonRenameFails, DaemonStep, TypeOK, IsText,
                uiVars, cgiVars, history, fileVars
  <2>2. CASE Consume \/ Applied
    <3>1. 1 \in 1..(Len(Fields) + 1)
      BY FieldsFacts
    <3> QED
      BY <2>2, <3>1, ValueFacts DEF Consume, Applied, DaemonStep, TypeOK, IsText,
                uiVars, cgiVars, history, fileVars
  <2>3. CASE params_set
    <3>1. k' \in 1..(Len(Fields) + 1) /\ Fields[k] \in Param
      <4>1. k \in 1..(Len(Fields) + 1) /\ k <= Len(Fields) /\ k' = k + 1
        BY <2>3 DEF params_set, TypeOK
      <4> QED
        BY <4>1, FieldsFacts
    <3>2. store' \in [Param -> Value] /\ disk' \in [Param -> Value]
      BY <2>3, <3>1 DEF params_set, TypeOK, IsText
    <3> QED
      BY <2>3, <3>1, <3>2 DEF params_set, DaemonStep, TypeOK, IsText, uiVars, cgiVars, history, fileVars
  <2>4. CASE DaemonOpen \/ DaemonFill \/ DaemonRename \/ DaemonUnlink
    <3>1. FilesType
      BY DEF TypeOK, FilesType
    <3>2. FilesType'
      BY <2>4, <3>1, FilesTyped, TextsWritten DEF DaemonOpen, DaemonFill, DaemonRename, DaemonUnlink
    <3>3. /\ dpc' \in {"fill", "rename", "idle"}
          /\ UNCHANGED <<flag, store, got, k, disk, uiVars, cgiVars, saveFile>>
      BY <2>4 DEF DaemonOpen, DaemonFill, DaemonRename, DaemonUnlink, DaemonStep
    <3> QED
      BY <3>2, <3>3 DEF FilesType, TypeOK, IsText, uiVars, cgiVars, history
  <2> QED
    BY <1>5, <2>1, <2>2, <2>3, <2>4 DEF Daemon
<1>6. CASE Tick \/ UNCHANGED vars
  <2>1. UNCHANGED vars
    BY <1>6 DEF Tick
  <2> QED
    BY <2>1 DEF vars, TypeOK, IsText, uiVars, cgiVars, daemonVars, history, fileVars
<1>7. CASE Crash
  <2>1. 1 \in 1..(Len(Fields) + 1)
    BY FieldsFacts
  <2> QED
    BY <1>7, <2>1, ValueFacts DEF Crash, TypeOK, IsText, cgiVars, NoFile
<1>8. CASE Restart
  BY <1>8 DEF Restart, DaemonStep, TypeOK, IsText, uiVars, cgiVars, history, fileVars
<1> QED
  BY <1>1, <1>2, <1>3, <1>4, <1>5, <1>6, <1>7, <1>8, <1>9 DEF Next, Request

(* Every variable keeps its type, in the CGI, the daemon and the files,    *)
(* whatever crashes, hasty saves and failed writes disturb them.           *)
THEOREM TypeCorrect == Spec => []TypeOK
BY InitTypes, TypeStep, PTL DEF Spec

-----------------------------------------------------------------------------
(***************************************************************************)
(* The save of a patient operator, on its way to the daemon's parameters.  *)
(***************************************************************************)
(* The conversions of its path leave a value among those it may become.    *)
LEMMA WornKeeps ==
  ASSUME NEW p \in Param, NEW v \in Value
  PROVE  /\ v \in Worn[p][v]
         /\ \A w \in Worn[p][v] :
              /\ w \in Value
              /\ Truncated[w] \in Worn[p][v] /\ Stripped[w] \in Worn[p][v]
              /\ Sent[p][w] \in Worn[p][v]
              /\ p \notin MaskedByUi => Shown[p][w] \in Worn[p][v]
<1>1. Worn[p][v] = {w \in Value : \A S \in SUBSET Value : v \in S /\ Closed(p, S) => w \in S}
  BY DEF Worn
<1>2. ASSUME NEW w \in Worn[p][v], NEW S \in SUBSET Value, v \in S, Closed(p, S)
      PROVE  /\ Truncated[w] \in S /\ Stripped[w] \in S /\ Sent[p][w] \in S
             /\ p \notin MaskedByUi => Shown[p][w] \in S
  BY <1>1, <1>2 DEF Closed
<1>3. ASSUME NEW w \in Worn[p][v]
      PROVE  w \in Value /\ Truncated[w] \in Value /\ Stripped[w] \in Value
             /\ Sent[p][w] \in Value /\ Shown[p][w] \in Value
  BY <1>1, ValueFacts
<1> QED
  BY <1>1, <1>2, <1>3

LEMMA CloseKeeps ==
  ASSUME TypeOK, NEW p \in Param, NEW v, Close(p, v)
  PROVE  /\ Close(p, Truncated[v]) /\ Close(p, Stripped[v]) /\ Close(p, Sent[p][v])
         /\ p \notin MaskedByUi => Close(p, Shown[p][v])
<1>1. asked[p] \in Value
  BY DEF TypeOK
<1> QED
  BY <1>1, WornKeeps DEF Close

LEMMA OverriddenIsKept ==
  ASSUME TypeOK, HasRoom(DOMAIN req.body)
  PROVE  \A p \in Param : p \in Overridden <=> p \in DOMAIN req.body /\ Kept(p)
<1>1. ASSUME NEW i  PROVE Cardinality(Present(i)) <= MaxOverrides
  <2>1. Present(i) \subseteq DOMAIN req.body
    BY DEF Present
  <2>2. /\ IsFiniteSet(Present(i))
        /\ Cardinality(Present(i)) <= Cardinality(DOMAIN req.body)
    BY <2>1, FS_Subset DEF HasRoom
  <2>3. Cardinality(Present(i)) \in Nat /\ Cardinality(DOMAIN req.body) \in Nat
    BY <2>2, FS_CardinalityType DEF HasRoom
  <2> QED
    BY <2>2, <2>3, BoundAssumption DEF HasRoom
<1>2. ASSUME NEW p \in Param, p \in Overridden  PROVE p \in DOMAIN req.body /\ Kept(p)
  BY <1>2 DEF Overridden, Present
<1>3. ASSUME NEW p \in Param, p \in DOMAIN req.body, Kept(p)  PROVE p \in Overridden
  <2>1. PICK i \in 1..Len(Fields) : Fields[i] = p
    BY FieldsFacts
  <2>2. i \in 1..i /\ i \in DOMAIN Fields
    BY <2>1, FieldsFacts
  <2>3. p \in Present(i)
    BY <2>1, <2>2, <1>3 DEF Present
  <2> QED
    BY <2>1, <2>2, <2>3, <1>1 DEF Overridden
<1> QED
  BY <1>2, <1>3

(* What the CGI writes is the configuration the operator wants.            *)
LEMMA WritesWanted ==
  ASSUME TypeOK, RequestOK, ui = "saving", FullBut(seen, last)
  PROVE  Full(write_overrides)
<1>1. ASSUME NEW p \in Param  PROVE Close(p, write_overrides[p])
  <2>1. CASE p \in Overridden
    <3>1. Close(p, req.body[p]) /\ write_overrides[p] = Stripped[req.body[p]]
      BY <2>1, OverriddenIsKept DEF write_overrides, RequestOK
    <3> QED
      BY <3>1, CloseKeeps
  <2>2. CASE p \notin Overridden
    <3>1. p \notin last
      BY <2>2, OverriddenIsKept DEF RequestOK
    <3>2. write_overrides[p] = Stripped[seen[p]] /\ Close(p, seen[p])
      BY <2>2, <3>1 DEF write_overrides, cfg_get, FullBut
    <3> QED
      BY <3>2, CloseKeeps
  <2> QED
    BY <2>1, <2>2
<1> QED
  BY <1>1 DEF Full, FullBut, write_overrides

(* What the daemon exports is what its parameters hold, cut.               *)
LEMMA ExportsWanted ==
  ASSUME TypeOK, Full(store)
  PROVE  Full(Exported)
<1>1. ASSUME NEW p \in Param  PROVE Close(p, Exported[p])
  <2>1. Close(p, store[p]) /\ Exported[p] = Truncated[store[p]]
    BY DEF Exported, Full, FullBut
  <2> QED
    BY <2>1, CloseKeeps
<1> QED
  BY <1>1 DEF Full, FullBut, Exported

LEMMA InitInv == Init /\ Assumed => IInv
<1> SUFFICES ASSUME Init, Assumed  PROVE IInv
  OBVIOUS
<1>1. TypeOK /\ DOMAIN store = Param
  BY InitTypes, ValueAssumption DEF Init
<1>2. Full(store)
  <2>1. ASSUME NEW p \in Param  PROVE Close(p, store[p])
    BY <1>1, WornKeeps DEF Init, Close, TypeOK
  <2> QED
    BY <1>1, <2>1 DEF Full, FullBut
<1>3. Full(Exported)
  BY <1>1, <1>2, ExportsWanted
<1>4. Turns /\ FilesOK /\ RequestOK /\ AckedOK
  BY DEF Init, Turns, Telling, FilesOK, RequestOK, HasRoom, AckedOK, Inode, NoFile
<1>5. FormClose
  <2>1. \A p \in Param : Close(p, Exported[p])
    BY <1>3 DEF Full, FullBut
  <2>2. ASSUME NEW p \in Param \ (ClipSelect \cup MaskedByUi)  PROVE Close(p, form[p])
    <3>1. form[p] = Shown[p][Exported[p]]
      BY DEF Init
    <3> QED
      BY <1>1, <2>1, <3>1, CloseKeeps
  <2>3. ASSUME NEW p \in ClipSelect  PROVE Close(p, saved[p])
    BY <2>1, ValueFacts DEF Init
  <2> QED
    BY <2>2, <2>3 DEF FormClose
<1>6. data[1] = Exported
  BY DEF Init, Inode
<1>7. CopiesOK
  BY <1>3, <1>5, <1>6 DEF Init, CopiesOK, FullBut, Full, Telling
<1>8. StoreOK
  BY <1>2 DEF Init, StoreOK, FullBut, Full
<1> QED
  BY <1>4, <1>7, <1>8 DEF IInv

(* A request made when nothing is pending, that asks for what it carries.  *)
LEMMA AskInv ==
  ASSUME TypeOK, IInv, Assumed,
         NEW op \in {"save", "import"}, NEW body, NEW entered, NEW astray,
         DOMAIN entered \subseteq Param,
         Ask(op, body, entered, astray), RequestOK'
  PROVE  IInv'
<1>1. /\ ui = "idle" /\ cgi = "idle" /\ dpc = "idle" /\ ~flag
      /\ req' = [op |-> op, body |-> body, edited |-> DOMAIN entered]
      /\ asked' = [p \in Param |-> IF p \in DOMAIN entered THEN entered[p] ELSE asked[p]]
      /\ acked' = [p \in Param |-> IF p \in DOMAIN entered THEN Unknown ELSE acked[p]]
      /\ strayed' = (strayed \ DOMAIN entered) \cup astray
      /\ last' = DOMAIN entered /\ ui' = "saving" /\ cgi' = "load"
      /\ UNCHANGED <<seen, ok, daemonVars, saveFile, fileVars>>
  BY DEF Ask, MayRequest, Send, Assumed, Patient, Quiet
<1>2. ASSUME NEW p \in Param \ last', NEW v, Close(p, v)
      PROVE  p \in strayed' \/ v \in Worn[p][asked'[p]]
  BY <1>1, <1>2 DEF Close
<1>3. Full(store) /\ Full(data[cfg])
  BY <1>1 DEF IInv, StoreOK, CopiesOK, Telling, Applying
<1>4. FullBut(store, last)' /\ FullBut(data[cfg], last)'
  BY <1>1, <1>2, <1>3 DEF Full, FullBut, Close, daemonVars, fileVars
<1>5. Turns'
  BY <1>1 DEF IInv, Turns, Telling, daemonVars
<1>6. FilesOK'
  BY <1>1 DEF IInv, FilesOK, daemonVars, fileVars
<1>7. CopiesOK'
  BY <1>1, <1>4 DEF CopiesOK, Telling, daemonVars
<1>8. StoreOK'
  BY <1>1, <1>4 DEF IInv, StoreOK, Telling, daemonVars
<1>9. AckedOK'
  BY <1>1 DEF IInv, AckedOK
<1> QED
  BY <1>5, <1>6, <1>7, <1>8, <1>9 DEF IInv

LEMMA SaveInv ==
  ASSUME TypeOK, IInv, Assumed,
         NEW s \in Section, NEW p \in s, NEW v \in Edits[p], Save(s, p, v)
  PROVE  IInv'
<1>0. PICK body, entered, astray :
        /\ body = gatherFields(s, p, v) /\ entered = [q \in {p} |-> v]
        /\ astray = Astray(s \ {p})
  OBVIOUS
<1>1. /\ DOMAIN body = s /\ s \subseteq Param /\ p \in Param /\ v \in Value
      /\ body[p] = Sent[p][v] /\ DOMAIN entered = {p} /\ entered[p] = v
      /\ p \in MaskedByCgi => body[p] # Mask
  BY <1>0, SectionFacts DEF gatherFields, Assumed, MaskNotTyped
<1>2. ui = "idle" /\ FormClose
  BY DEF Save, Ask, MayRequest, IInv, CopiesOK
<1>3. Ask("save", body, entered, astray)
  BY <1>0 DEF Save
<1>4. /\ req' = [op |-> "save", body |-> body, edited |-> {p}]
      /\ asked' = [q \in Param |-> IF q \in {p} THEN entered[q] ELSE asked[q]]
      /\ strayed' = (strayed \ {p}) \cup astray
      /\ last' = {p}
  BY <1>1, <1>3 DEF Ask, Send
<1>5. ASSUME NEW q \in s, Kept(q)'
      PROVE  q \in strayed' \/ body[q] \in Worn[q][asked'[q]]
  <2>1. CASE q = p
    BY <2>1, <1>1, <1>4, WornKeeps
  <2>2. CASE q # p
    <3>1. /\ q \in Param /\ asked'[q] = asked[q] /\ asked[q] \in Value
          /\ q \in strayed \/ q \in astray => q \in strayed'
      BY <2>2, <1>1, <1>4 DEF TypeOK
    <3>2. CASE q \in MaskedByUi
      <4>1. body[q] = Mask /\ ~(q \in MaskedByCgi /\ body[q] = Mask)
        BY <3>2, <2>2, <1>0, <1>4, <1>5 DEF gatherFields, Kept
      <4>2. q \in astray
        BY <4>1, <3>2, <2>2, <1>0 DEF Astray
      <4> QED
        BY <4>2, <3>1
    <3>3. CASE q \notin MaskedByUi
      <4>1. body[q] = Sent[q][form[q]]
        BY <3>3, <2>2, <1>0 DEF gatherFields
      <4>2. q \in strayed' \/ form[q] \in Worn[q][asked[q]]
        BY <3>1, <3>3, <2>2, <1>0, <1>2 DEF Astray, FormClose, Close
      <4> QED
        BY <4>1, <4>2, <3>1, WornKeeps
    <3> QED
      BY <3>2, <3>3
  <2> QED
    BY <2>1, <2>2
<1>6. RequestOK'
  <2>1. Kept(p)'
    BY <1>1, <1>4 DEF Kept
  <2>2. HasRoom(s)
    BY DEF Assumed, RequestsFit
  <2>3. ASSUME NEW q \in DOMAIN req'.body, Kept(q)'  PROVE Close(q, req.body[q])'
    BY <2>3, <1>1, <1>4, <1>5 DEF Close
  <2>4. DOMAIN req'.body = s /\ p \in s
    BY <1>1, <1>4
  <2> QED
    BY <2>1, <2>2, <2>3, <2>4, <1>4 DEF RequestOK, HasRoom
<1> QED
  BY <1>1, <1>3, <1>6, AskInv

LEMMA ImportInv ==
  ASSUME TypeOK, IInv, Assumed, NEW c \in Imports, Import(c)
  PROVE  IInv'
<1>0. PICK entered :
        entered = [p \in {q \in DOMAIN c : ~(q \in MaskedByCgi /\ c[q] = Blank)} |-> c[p]]
  OBVIOUS
<1>1. /\ IsText(c) /\ DOMAIN entered \subseteq DOMAIN c
      /\ \A p \in DOMAIN entered : entered[p] = c[p]
  BY <1>0, SectionFacts
<1>5. Ask("import", c, entered, {})
  BY <1>0 DEF Import
<1>2. /\ req' = [op |-> "import", body |-> c, edited |-> DOMAIN entered]
      /\ asked' = [p \in Param |-> IF p \in DOMAIN entered THEN entered[p] ELSE asked[p]]
      /\ last' = DOMAIN entered
  BY <1>5 DEF Ask, Send
<1>3. \A p \in DOMAIN c : Kept(p)' <=> p \in DOMAIN entered
  BY <1>0, <1>2 DEF Kept
<1>4. RequestOK'
  <2>1. ASSUME NEW p \in DOMAIN entered  PROVE c[p] \in Worn[p][asked'[p]]
    <3>1. p \in Param /\ c[p] \in Value /\ asked'[p] = c[p]
      BY <1>1, <1>2 DEF IsText
    <3> QED
      BY <3>1, WornKeeps
  <2>3. ASSUME NEW p \in DOMAIN req'.body, Kept(p)'  PROVE Close(p, req.body[p])'
    <3>1. p \in DOMAIN entered /\ req'.body[p] = c[p]
      BY <2>3, <1>2, <1>3
    <3> QED
      BY <3>1, <2>1 DEF Close
  <2>4. \A p \in last' : p \in DOMAIN req'.body /\ Kept(p)'
    BY <1>1, <1>2, <1>3
  <2>5. HasRoom(DOMAIN req'.body)
    BY <1>2 DEF Assumed, RequestsFit
  <2> QED
    BY <2>3, <2>4, <2>5 DEF RequestOK, HasRoom
<1>6. DOMAIN entered \subseteq Param
  BY <1>1 DEF IsText
<1> QED
  BY <1>4, <1>5, <1>6, AskInv

(* A list of clips that comes in changes only selects of the form.         *)
LEMMA ClipListInv ==
  ASSUME TypeOK, IInv, loadClipList
  PROVE  IInv'
<1>1. /\ \A p \in Param \ ClipSelect : form'[p] = form[p]
      /\ UNCHANGED <<ui, saved, history, cgiVars, daemonVars, saveFile, fileVars>>
  BY DEF loadClipList
<1>2. FormClose => FormClose'
  BY <1>1 DEF FormClose, Close, history
<1>3. Turns' /\ FilesOK' /\ RequestOK' /\ StoreOK' /\ AckedOK'
  BY <1>1 DEF IInv, Turns, FilesOK, RequestOK, StoreOK, AckedOK, HasRoom, Kept, Telling, Applying,
              Full, FullBut, Close, history, cgiVars, daemonVars, fileVars
<1>4. CopiesOK'
  BY <1>1, <1>2 DEF IInv, CopiesOK, Telling, Full, FullBut, Close, history, cgiVars, daemonVars, fileVars
<1> QED
  BY <1>3, <1>4 DEF IInv

(* The CGI.                                                                *)
LEMMA CgiInv ==
  ASSUME TypeOK, IInv, Assumed, Cgi
  PROVE  IInv'
<1> USE DEF IInv
<1>1. CASE config_load
  <2>1. cfg # NoFile
    BY DEF FilesOK, Inode, NoFile
  <2>2. /\ cgi = "load" /\ seen' = data[cfg]
        /\ cgi' = IF req.op = "config" THEN "reply" ELSE "save"
        /\ UNCHANGED <<req, ok, uiVars, daemonVars, saveFile, fileVars>>
    BY <1>1, <2>1 DEF config_load, CgiStep
  <2>3. Turns'
    BY <2>2 DEF Turns, Telling, uiVars, history, daemonVars
  <2>4. FilesOK' /\ RequestOK' /\ AckedOK'
    BY <2>2 DEF FilesOK, RequestOK, HasRoom, AckedOK, Kept, Close, Full, FullBut, uiVars, history, daemonVars, fileVars
  <2>5. CopiesOK'
    BY <2>2 DEF Turns, CopiesOK, Telling, FormClose, Close, Full, FullBut, uiVars, history, daemonVars, fileVars
  <2>6. StoreOK'
    BY <2>2 DEF Turns, StoreOK, Telling, Applying, Close, Full, FullBut, uiVars, history, daemonVars
  <2> QED
    BY <2>3, <2>4, <2>5, <2>6
<1>2. CASE CgiWriteSave
  <2>1. /\ cgi = "save" /\ cgi' = "open" /\ saveFile' = write_overrides
        /\ UNCHANGED <<req, seen, uiVars, daemonVars, fileVars>>
    BY <1>2 DEF CgiWriteSave, CgiStep
  <2>2. ui = "saving"
    BY <2>1 DEF Turns, TypeOK
  <2>3. Full(saveFile')
    BY <2>1, <2>2, WritesWanted DEF CopiesOK, Assumed
  <2>4. Turns'
    BY <2>1 DEF Turns, Telling, uiVars, history, daemonVars
  <2>5. FilesOK' /\ RequestOK' /\ AckedOK'
    BY <2>1 DEF Turns, FilesOK, RequestOK, HasRoom, AckedOK, Kept, Close, Full, FullBut, uiVars, history, daemonVars, fileVars
  <2>6. CopiesOK'
    BY <2>1, <2>2, <2>3 DEF Turns, CopiesOK, Telling, FormClose, Close, Full, FullBut, uiVars, history, daemonVars, fileVars
  <2>7. StoreOK'
    BY <2>1 DEF Turns, StoreOK, Telling, Applying, Close, Full, FullBut, uiVars, history, daemonVars
  <2> QED
    BY <2>4, <2>5, <2>6, <2>7
<1>3. CASE CgiOpen
  <2> DEFINE i == IF tmp = NoFile THEN Fresh ELSE tmp
  <2>1. /\ cgi = "open" /\ cgi' = "fill"
        /\ tmp' = i /\ data' = [data EXCEPT ![i] = Empty] /\ fd' = [fd EXCEPT !["cgi"] = i]
        /\ UNCHANGED <<cfg, req, seen, uiVars, daemonVars, saveFile>>
    BY <1>3 DEF CgiOpen, CgiStep, OpenTmp
  <2>2. i \in Inode /\ i # cfg
    BY FreshInode DEF TypeOK, FilesOK
  <2>3. ui = "saving" /\ dpc = "idle"
    BY <2>1 DEF Turns, TypeOK, Telling
  <2> HIDE DEF i
  <2>4. data'[cfg] = data[cfg] /\ fd'["cgi"] = i
    BY <2>1, <2>2 DEF TypeOK
  <2>5. Turns'
    BY <2>1 DEF Turns, Telling, uiVars, history, daemonVars
  <2>6. FilesOK'
    BY <2>1, <2>2, <2>3, <2>4 DEF FilesOK, uiVars, daemonVars
  <2>7. RequestOK' /\ AckedOK'
    BY <2>1 DEF RequestOK, HasRoom, AckedOK, Kept, Close, uiVars, history
  <2>8. CopiesOK'
    BY <2>1, <2>3, <2>4 DEF Turns, CopiesOK, Telling, FormClose, Close, Full, FullBut, uiVars, history, daemonVars
  <2>9. StoreOK'
    BY <2>1 DEF Turns, StoreOK, Telling, Applying, Close, Full, FullBut, uiVars, history, daemonVars
  <2> QED
    BY <2>5, <2>6, <2>7, <2>8, <2>9
<1>4. CASE CgiFill
  <2>1. /\ cgi = "fill" /\ cgi' = "rename"
        /\ data' = [data EXCEPT ![fd["cgi"]] = write_overrides]
        /\ UNCHANGED <<cfg, tmp, req, seen, uiVars, daemonVars, saveFile>>
    BY <1>4 DEF CgiFill, CgiStep, FillTmp
  <2>2. fd["cgi"] = tmp /\ tmp \in Inode /\ tmp # cfg
    BY <2>1 DEF FilesOK
  <2>3. ui = "saving" /\ dpc = "idle"
    BY <2>1 DEF Turns, TypeOK, Telling
  <2>4. data'[cfg] = data[cfg] /\ Full(data'[tmp])
    <3>1. Full(write_overrides)
      BY <2>1, <2>3, WritesWanted DEF CopiesOK, Assumed
    <3> QED
      BY <2>1, <2>2, <3>1 DEF TypeOK
  <2>5. Turns'
    BY <2>1 DEF Turns, Telling, uiVars, history, daemonVars
  <2>6. FilesOK'
    BY <2>1, <2>2, <2>3, <2>4 DEF FilesOK, Close, Full, FullBut, uiVars, history, daemonVars
  <2>7. RequestOK' /\ AckedOK'
    BY <2>1 DEF RequestOK, HasRoom, AckedOK, Kept, Close, uiVars, history
  <2>8. CopiesOK'
    BY <2>1, <2>3, <2>4 DEF Turns, CopiesOK, Telling, FormClose, Close, Full, FullBut, uiVars, history, daemonVars
  <2>9. StoreOK'
    BY <2>1 DEF Turns, StoreOK, Telling, Applying, Close, Full, FullBut, uiVars, history, daemonVars
  <2> QED
    BY <2>5, <2>6, <2>7, <2>8, <2>9
<1>5. CASE CgiRename
  <2>1. /\ cgi = "rename" /\ cgi' = "signal"
        /\ cfg' = tmp /\ tmp' = NoFile
        /\ UNCHANGED <<data, fd, req, seen, uiVars, daemonVars, saveFile>>
    BY <1>5 DEF CgiRename, CgiStep, RenameTmp
  <2>2. tmp \in Inode /\ Full(data[tmp]) /\ tmp # NoFile
    BY <2>1 DEF FilesOK, Inode, NoFile
  <2>3. ui = "saving" /\ dpc = "idle"
    BY <2>1 DEF Turns, TypeOK, Telling
  <2>4. Turns'
    BY <2>1 DEF Turns, Telling, uiVars, history, daemonVars
  <2>5. FilesOK'
    BY <2>1, <2>2, <2>3 DEF FilesOK, uiVars, daemonVars
  <2>6. RequestOK' /\ AckedOK'
    BY <2>1 DEF RequestOK, HasRoom, AckedOK, Kept, Close, uiVars, history
  <2>7. CopiesOK'
    BY <2>1, <2>2, <2>3 DEF Turns, CopiesOK, Telling, FormClose, Close, Full, FullBut, uiVars, history, daemonVars
  <2>8. StoreOK'
    BY <2>1 DEF Turns, StoreOK, Telling, Applying, Close, Full, FullBut, uiVars, history, daemonVars
  <2> QED
    BY <2>4, <2>5, <2>6, <2>7, <2>8
<1>6. CASE CgiRenameFails \/ CgiUnlink
  BY <1>6 DEF CgiRenameFails, CgiUnlink, CgiStep, Turns, FilesOK, Inode, NoFile
<1>7. CASE signal_daemon
  <2>1. /\ cgi = "signal" /\ cgi' = "reply" /\ flag'
        /\ UNCHANGED <<req, seen, uiVars, dpc, store, got, k, disk, saveFile, fileVars>>
    BY <1>7 DEF signal_daemon, CgiStep, Turns
  <2>2. ui = "saving" /\ dpc = "idle"
    BY <2>1 DEF Turns, TypeOK, Telling
  <2>3. Turns'
    BY <2>1, <2>2 DEF Turns, Telling, uiVars, history
  <2>4. FilesOK' /\ RequestOK' /\ AckedOK'
    BY <2>1, <2>2 DEF FilesOK, RequestOK, HasRoom, AckedOK, Kept, Close, uiVars, history, fileVars
  <2>5. CopiesOK'
    BY <2>1, <2>2 DEF Turns, CopiesOK, Telling, FormClose, Close, Full, FullBut, uiVars, history, fileVars
  <2>6. StoreOK'
    BY <2>1, <2>2 DEF StoreOK, Applying, Close, Full, FullBut, uiVars, history
  <2> QED
    BY <2>3, <2>4, <2>5, <2>6
<1>8. CASE ReplySaved
  <2>1. /\ cgi = "reply" /\ cgi' = "idle" /\ req.op # "config" /\ ui' = "refresh"
        /\ acked' = IF ok THEN [p \in Param |-> IF p \in req.edited THEN asked[p] ELSE acked[p]]
                          ELSE acked
        /\ UNCHANGED <<asked, last, strayed, daemonVars, saveFile, fileVars>>
    BY <1>8 DEF ReplySaved, CgiStep
  <2>2. ui = "saving"
    BY <2>1 DEF Turns, TypeOK
  <2>3. Turns'
    BY <2>1 DEF Turns, Telling, daemonVars
  <2>4. FilesOK' /\ RequestOK'
    BY <2>1 DEF FilesOK, RequestOK, Full, FullBut, Close, daemonVars, fileVars
  <2>5. AckedOK'
    BY <2>1 DEF AckedOK
  <2>6. CopiesOK'
    BY <2>1, <2>2 DEF CopiesOK, Telling, FormClose, Close, Full, FullBut, daemonVars, fileVars
  <2>7. StoreOK'
    BY <2>1, <2>2 DEF StoreOK, Telling, Applying, Close, Full, FullBut, daemonVars
  <2> QED
    BY <2>3, <2>4, <2>5, <2>6, <2>7
<1>9. CASE ReplyConfig
  <2>1. /\ cgi = "reply" /\ cgi' = "idle" /\ req.op = "config" /\ ui' = "idle"
        /\ form' = Filled /\ saved' = [p \in ClipSelect |-> cfg_get(p)]
        /\ UNCHANGED <<history, daemonVars, saveFile, fileVars>>
    BY <1>9 DEF ReplyConfig, CgiStep
  <2>2. ui = "loading" /\ Full(seen)
    BY <2>1 DEF Turns, CopiesOK, TypeOK
  <2>3. FormClose'
    <3>1. \A p \in Param : cfg_get(p) = seen[p] /\ Close(p, seen[p])
      BY <2>2 DEF Full, FullBut, cfg_get
    <3>2. ASSUME NEW p \in Param \ (ClipSelect \cup MaskedByUi)  PROVE Close(p, form'[p])
      <4>1. form'[p] = Shown[p][seen[p]]
        BY <2>1, <3>1 DEF Filled
      <4> QED
        BY <3>1, <4>1, CloseKeeps
    <3>3. ASSUME NEW p \in ClipSelect  PROVE Close(p, saved'[p])
      BY <2>1, <3>1, ValueFacts
    <3> QED
      BY <2>1, <3>2, <3>3 DEF FormClose, Close, history
  <2>4. Turns'
    BY <2>1 DEF Turns, Telling, history, daemonVars
  <2>5. FilesOK' /\ RequestOK' /\ AckedOK'
    BY <2>1 DEF FilesOK, RequestOK, HasRoom, AckedOK, Full, FullBut, Close, history, daemonVars, fileVars
  <2>6. CopiesOK'
    BY <2>1, <2>2, <2>3 DEF CopiesOK, Telling, FormClose, Close, Full, FullBut, history, daemonVars, fileVars
  <2>7. StoreOK'
    BY <2>1, <2>2 DEF StoreOK, Telling, Applying, Close, Full, FullBut, history, daemonVars
  <2> QED
    BY <2>4, <2>5, <2>6, <2>7
<1> QED
  BY <1>1, <1>2, <1>3, <1>4, <1>5, <1>6, <1>7, <1>8, <1>9 DEF Cgi

(* The daemon.                                                             *)
LEMMA DaemonInv ==
  ASSUME TypeOK, IInv, Assumed, Daemon
  PROVE  IInv'
<1> USE DEF IInv
<1>0. UNCHANGED <<uiVars, cgiVars>>
  BY DEF Daemon, TakeFlag, NothingToApply, ReadSave, Consume, params_set, Applied,
         DaemonOpen, DaemonFill, DaemonRename, DaemonRenameFails, DaemonUnlink
<1>1. CASE TakeFlag
  <2>1. /\ flag /\ dpc = "idle" /\ dpc' = "read" /\ ~flag'
        /\ UNCHANGED <<store, got, k, disk, saveFile, fileVars>>
    BY <1>1 DEF TakeFlag, DaemonStep
  <2>2. Turns'
    BY <1>0, <2>1 DEF Turns, Telling, uiVars, history, cgiVars
  <2>3. FilesOK' /\ RequestOK' /\ AckedOK'
    BY <1>0, <2>1 DEF FilesOK, RequestOK, HasRoom, AckedOK, Kept, Close, Full, FullBut, uiVars, history, cgiVars, fileVars
  <2>4. CopiesOK'
    BY <1>0, <2>1 DEF CopiesOK, Telling, FormClose, Close, Full, FullBut, uiVars, history, cgiVars, fileVars
  <2>5. StoreOK'
    BY <1>0, <2>1 DEF StoreOK, Telling, Applying, Close, Full, FullBut, uiVars, history, cgiVars
  <2> QED
    BY <2>2, <2>3, <2>4, <2>5
<1>2. CASE NothingToApply
  <2>1. dpc = "read" /\ DOMAIN saveFile = {}
    BY <1>2 DEF NothingToApply, DaemonStep, Empty
  <2>2. DOMAIN saveFile = Param
    BY <2>1 DEF CopiesOK, Full, FullBut
  <2> QED
    BY <2>1, <2>2 DEF Assumed
<1>3. CASE ReadSave
  <2>1. /\ dpc = "read" /\ dpc' = "consume" /\ got' = saveFile
        /\ UNCHANGED <<flag, store, k, disk, saveFile, fileVars>>
    BY <1>3 DEF ReadSave, DaemonStep
  <2>2. Turns'
    BY <1>0, <2>1 DEF Turns, Telling, uiVars, history, cgiVars
  <2>3. FilesOK' /\ RequestOK' /\ AckedOK'
    BY <1>0, <2>1 DEF FilesOK, RequestOK, HasRoom, AckedOK, Kept, Close, Full, FullBut, uiVars, history, cgiVars, fileVars
  <2>4. CopiesOK'
    BY <1>0, <2>1 DEF CopiesOK, Telling, FormClose, Close, Full, FullBut, uiVars, history, cgiVars, fileVars
  <2>5. StoreOK'
    BY <1>0, <2>1 DEF StoreOK, Telling, Applying, Close, Full, FullBut, uiVars, history, cgiVars
  <2> QED
    BY <2>2, <2>3, <2>4, <2>5
<1>4. CASE Consume
  <2>1. /\ dpc = "consume" /\ dpc' = "set" /\ saveFile' = Empty /\ k' = 1
        /\ UNCHANGED <<flag, store, got, disk, fileVars>>
    BY <1>4 DEF Consume, DaemonStep
  <2>2. ~flag /\ ~Telling
    BY <2>1 DEF Turns
  <2>3. Turns'
    BY <1>0, <2>1 DEF Turns, Telling, uiVars, history, cgiVars
  <2>4. FilesOK' /\ RequestOK' /\ AckedOK'
    BY <1>0, <2>1 DEF FilesOK, RequestOK, HasRoom, AckedOK, Kept, Close, Full, FullBut, uiVars, history, cgiVars, fileVars
  <2>5. CopiesOK'
    BY <1>0, <2>1, <2>2 DEF CopiesOK, Telling, FormClose, Close, Full, FullBut, uiVars, history, cgiVars, fileVars
  <2>6. StoreOK'
    <3>1. \A i \in DOMAIN Fields : ~(i < 1)
      BY FieldsFacts
    <3> QED
      BY <1>0, <2>1, <3>1 DEF StoreOK, Telling, Applying, Close, Full, FullBut, uiVars, history, cgiVars
  <2> QED
    BY <2>3, <2>4, <2>5, <2>6
<1>5. CASE params_set
  <2>1. /\ dpc = "set" /\ dpc' = "set" /\ k <= Len(Fields) /\ k' = k + 1
        /\ UNCHANGED <<flag, got, saveFile, fileVars>>
    BY <1>5 DEF params_set, DaemonStep
  <2>2. /\ k \in Nat /\ k \in DOMAIN Fields /\ Fields[k] \in Param
        /\ \A i \in DOMAIN Fields : i < k + 1 => i < k \/ i = k
    <3>1. k \in 1..(Len(Fields) + 1)
      BY DEF TypeOK
    <3> QED
      BY <2>1, <3>1, FieldsFacts
  <2>3. Full(got) /\ Fields[k] \in DOMAIN got /\ Close(Fields[k], got[Fields[k]])
    BY <2>1, <2>2 DEF CopiesOK, Full, FullBut
  <2>4. store' = [store EXCEPT ![Fields[k]] = got[Fields[k]]] /\ disk' = store'
    BY <1>5, <2>3 DEF params_set, Assumed, Patient
  <2>5. Turns'
    BY <1>0, <2>1 DEF Turns, Telling, uiVars, history, cgiVars
  <2>6. FilesOK' /\ RequestOK' /\ AckedOK'
    BY <1>0, <2>1 DEF FilesOK, RequestOK, HasRoom, AckedOK, Kept, Close, Full, FullBut, uiVars, history, cgiVars, fileVars
  <2>7. CopiesOK'
    BY <1>0, <2>1 DEF CopiesOK, Telling, FormClose, Close, Full, FullBut, uiVars, history, cgiVars, fileVars
  <2>8. StoreOK'
    <3>1. \A p \in Param : store'[p] = (IF p = Fields[k] THEN got[p] ELSE store[p])
      BY <2>2, <2>4 DEF TypeOK
    <3>2. DOMAIN store' = Param
      BY <2>4 DEF TypeOK
    <3>3. FullBut(store, last)'
      BY <1>0, <2>3, <3>1, <3>2 DEF StoreOK, FullBut, Close, uiVars, history
    <3>4. ASSUME NEW i \in DOMAIN Fields, i < k'  PROVE Close(Fields[i], store[Fields[i]])'
      <4>1. Fields[i] \in Param
        BY FieldsFacts
      <4>2. i < k \/ i = k
        BY <2>1, <2>2, <3>4
      <4>3. Close(Fields[i], store'[Fields[i]])
        BY <4>1, <4>2, <2>1, <2>3, <3>1 DEF StoreOK
      <4> QED
        BY <4>3, <1>0 DEF Close, uiVars, history
    <3> QED
      BY <2>1, <2>4, <3>3, <3>4 DEF StoreOK, Applying
  <2> QED
    BY <2>5, <2>6, <2>7, <2>8
<1>6. CASE Applied
  <2>1. /\ dpc = "set" /\ dpc' = "open" /\ k > Len(Fields)
        /\ UNCHANGED <<flag, store, disk, saveFile, fileVars>>
    BY <1>6 DEF Applied, DaemonStep
  <2>2. Full(store)
    <3>1. \A i \in 1..Len(Fields) : i < k
      <4>1. k \in 1..(Len(Fields) + 1)
        BY DEF TypeOK
      <4> QED
        BY <2>1, <4>1, FieldsFacts
    <3>2. \A i \in 1..Len(Fields) : Close(Fields[i], store[Fields[i]])
      BY <2>1, <3>1, FieldsFacts DEF StoreOK
    <3>3. \A p \in Param : Close(p, store[p])
      BY <3>2, FieldsFacts
    <3> QED
      BY <3>3 DEF Full, FullBut, TypeOK
  <2>3. Turns'
    BY <1>0, <2>1 DEF Turns, Telling, uiVars, history, cgiVars
  <2>4. FilesOK' /\ RequestOK' /\ AckedOK'
    BY <1>0, <2>1 DEF FilesOK, RequestOK, HasRoom, AckedOK, Kept, Close, Full, FullBut, uiVars, history, cgiVars, fileVars
  <2>5. CopiesOK'
    BY <1>0, <2>1 DEF CopiesOK, Telling, FormClose, Close, Full, FullBut, uiVars, history, cgiVars, fileVars
  <2>6. StoreOK'
    BY <1>0, <2>1, <2>2 DEF StoreOK, Close, Full, FullBut, uiVars, history, cgiVars
  <2> QED
    BY <2>3, <2>4, <2>5, <2>6
<1>7. CASE DaemonOpen
  <2> DEFINE i == IF tmp = NoFile THEN Fresh ELSE tmp
  <2>1. /\ dpc = "open" /\ dpc' = "fill"
        /\ tmp' = i /\ data' = [data EXCEPT ![i] = Empty] /\ fd' = [fd EXCEPT !["daemon"] = i]
        /\ UNCHANGED <<cfg, flag, store, got, k, disk, saveFile>>
    BY <1>7 DEF DaemonOpen, DaemonStep, OpenTmp
  <2>2. i \in Inode /\ i # cfg
    BY FreshInode DEF TypeOK, FilesOK
  <2>3. cgi \notin {"fill", "rename"}
    BY <2>1 DEF Turns, Telling, TypeOK
  <2> HIDE DEF i
  <2>4. data'[cfg] = data[cfg] /\ fd'["daemon"] = i
    BY <2>1, <2>2 DEF TypeOK
  <2>5. Turns'
    BY <1>0, <2>1 DEF Turns, Telling, uiVars, history, cgiVars
  <2>6. FilesOK'
    BY <1>0, <2>1, <2>2, <2>3, <2>4 DEF FilesOK, cgiVars
  <2>7. RequestOK' /\ AckedOK'
    BY <1>0 DEF RequestOK, HasRoom, AckedOK, Kept, Close, uiVars, history, cgiVars
  <2>8. CopiesOK'
    BY <1>0, <2>1, <2>4 DEF CopiesOK, Telling, FormClose, Close, Full, FullBut, uiVars, history, cgiVars
  <2>9. StoreOK'
    BY <1>0, <2>1 DEF StoreOK, Telling, Applying, Close, Full, FullBut, uiVars, history, cgiVars
  <2> QED
    BY <2>5, <2>6, <2>7, <2>8, <2>9
<1>8. CASE DaemonFill
  <2>1. /\ dpc = "fill" /\ dpc' = "rename"
        /\ data' = [data EXCEPT ![fd["daemon"]] = Exported]
        /\ UNCHANGED <<cfg, tmp, flag, store, got, k, disk, saveFile>>
    BY <1>8 DEF DaemonFill, DaemonStep, FillTmp
  <2>2. fd["daemon"] = tmp /\ tmp \in Inode /\ tmp # cfg
    BY <2>1 DEF FilesOK
  <2>3. cgi \notin {"fill", "rename"}
    BY <2>1 DEF Turns, Telling, TypeOK
  <2>4. data'[cfg] = data[cfg] /\ Full(data'[tmp])
    <3>1. Full(store)
      BY <2>1 DEF StoreOK, Turns, Applying
    <3>2. Full(Exported)
      BY <3>1, ExportsWanted DEF Assumed
    <3> QED
      BY <2>1, <2>2, <3>2 DEF TypeOK
  <2>5. Turns'
    BY <1>0, <2>1 DEF Turns, Telling, uiVars, history, cgiVars
  <2>6. FilesOK'
    BY <1>0, <2>1, <2>2, <2>3, <2>4 DEF FilesOK, Close, Full, FullBut, uiVars, history, cgiVars
  <2>7. RequestOK' /\ AckedOK'
    BY <1>0 DEF RequestOK, HasRoom, AckedOK, Kept, Close, uiVars, history, cgiVars
  <2>8. CopiesOK'
    BY <1>0, <2>1, <2>4 DEF CopiesOK, Telling, FormClose, Close, Full, FullBut, uiVars, history, cgiVars
  <2>9. StoreOK'
    BY <1>0, <2>1 DEF StoreOK, Telling, Applying, Close, Full, FullBut, uiVars, history, cgiVars
  <2> QED
    BY <2>5, <2>6, <2>7, <2>8, <2>9
<1>9. CASE DaemonRename
  <2>1. /\ dpc = "rename" /\ dpc' = "idle"
        /\ cfg' = tmp /\ tmp' = NoFile
        /\ UNCHANGED <<data, flag, store, got, k, disk, saveFile>>
    BY <1>9 DEF DaemonRename, DaemonStep, RenameTmp
  <2>2. tmp \in Inode /\ Full(data[tmp]) /\ tmp # NoFile
    BY <2>1 DEF FilesOK, Inode, NoFile
  <2>3. cgi \notin {"fill", "rename"}
    BY <2>1 DEF Turns, Telling, TypeOK
  <2>4. Turns'
    BY <1>0, <2>1 DEF Turns, Telling, uiVars, history, cgiVars
  <2>5. FilesOK'
    BY <1>0, <2>1, <2>2, <2>3 DEF FilesOK, cgiVars
  <2>6. RequestOK' /\ AckedOK'
    BY <1>0 DEF RequestOK, HasRoom, AckedOK, Kept, Close, uiVars, history, cgiVars
  <2>7. CopiesOK'
    BY <1>0, <2>1, <2>2 DEF CopiesOK, Telling, FormClose, Close, Full, FullBut, uiVars, history, cgiVars
  <2>8. StoreOK'
    BY <1>0, <2>1 DEF StoreOK, Telling, Applying, Close, Full, FullBut, uiVars, history, cgiVars
  <2> QED
    BY <2>4, <2>5, <2>6, <2>7, <2>8
<1>10. CASE DaemonRenameFails \/ DaemonUnlink
  BY <1>10 DEF DaemonRenameFails, DaemonUnlink, DaemonStep, Turns, FilesOK, Inode, NoFile
<1> QED
  BY <1>1, <1>2, <1>3, <1>4, <1>5, <1>6, <1>7, <1>8, <1>9, <1>10 DEF Daemon

LEMMA RefreshInv ==
  ASSUME TypeOK, IInv, Refresh
  PROVE  IInv'
<1> USE DEF IInv
<1>1. /\ ui = "refresh" /\ cgi = "idle" /\ ui' = "loading" /\ cgi' = "load"
      /\ req' = [op |-> "config", body |-> Empty, edited |-> {}]
      /\ UNCHANGED <<seen, ok, form, history, daemonVars, saveFile, fileVars>>
  BY DEF Refresh, Send
<1>2. Turns'
  BY <1>1 DEF Turns, Telling, history, daemonVars
<1>3. FilesOK' /\ RequestOK' /\ AckedOK'
  BY <1>1 DEF FilesOK, RequestOK, HasRoom, AckedOK, Full, FullBut, Close, history, daemonVars, fileVars
<1>4. CopiesOK'
  BY <1>1 DEF CopiesOK, Telling, FormClose, Close, Full, FullBut, history, daemonVars, fileVars
<1>5. StoreOK'
  BY <1>1 DEF StoreOK, Telling, Applying, Close, Full, FullBut, history, daemonVars
<1> QED
  BY <1>2, <1>3, <1>4, <1>5

LEMMA InvStep == Assumed /\ TypeOK /\ IInv /\ [Next]_vars => IInv'
<1> SUFFICES ASSUME Assumed, TypeOK, IInv, [Next]_vars  PROVE IInv'
  OBVIOUS
<1>1. ASSUME NEW s \in Section, NEW p \in s, NEW v \in Edits[p], Save(s, p, v)
      PROVE  IInv'
  BY <1>1, SaveInv
<1>2. ASSUME NEW c \in Imports, Import(c)
      PROVE  IInv'
  BY <1>2, ImportInv
<1>3. CASE Refresh
  BY <1>3, RefreshInv
<1>4. CASE Cgi
  BY <1>4, CgiInv
<1>5. CASE Daemon
  BY <1>5, DaemonInv
<1>6. CASE Tick \/ UNCHANGED vars
  <2>1. UNCHANGED vars
    BY <1>6 DEF Tick
  <2> QED
    BY <2>1 DEF vars, IInv, Turns, FilesOK, RequestOK, CopiesOK, StoreOK, AckedOK, Telling, Applying,
                Kept, FormClose, Full, FullBut, Close, uiVars, history, cgiVars, daemonVars, fileVars
<1>8. CASE loadClipList
  BY <1>8, ClipListInv
<1>7. CASE Crash \/ Restart
  BY <1>7 DEF Crash, Restart, DaemonStep, Assumed, Patient, IInv, Turns
<1> QED
  BY <1>1, <1>2, <1>3, <1>4, <1>5, <1>6, <1>7, <1>8 DEF Next, Request

LEMMA Invariant == ASSUME Assumed PROVE Spec => [](TypeOK /\ IInv)
<1>1. Init => TypeOK /\ IInv
  BY InitTypes, InitInv
<1>2. TypeOK /\ IInv /\ [Next]_vars => TypeOK' /\ IInv'
  BY TypeStep, InvStep
<1> QED
  BY <1>1, <1>2, PTL DEF Spec

(* A save that was answered "ok" is in the daemon's parameters and on      *)
(* flash once nothing is left to do (endpoint_save, apply_save_file): the  *)
(* values the request carried survive both files and the signal, and the   *)
(* fields nobody edited come back as they were, or as the escaping and     *)
(* their own fields leave such values.  A select of clips whose list was   *)
(* not there, and a password that only the form masks, are excepted until  *)
(* they are edited again (strayed).                                        *)
THEOREM SavesStick == ASSUME Assumed PROVE Spec => []AckedSavesStick
<1>1. TypeOK /\ IInv => AckedSavesStick
  BY DEF IInv, Turns, StoreOK, AckedOK, Telling, Applying, Full, FullBut, Close, AckedSavesStick, Quiet
<1> QED
  BY <1>1, Invariant, PTL

(* The form loadConfig fills in shows what was saved, and so does the      *)
(* choice it keeps for loadClipList, as far as the path leaves it.         *)
THEOREM FormTellsSaved == ASSUME Assumed PROVE Spec => []FormShowsSaved
<1>1. TypeOK /\ IInv => FormShowsSaved
  BY DEF IInv, CopiesOK, AckedOK, FormClose, Close, FormShowsSaved
<1> QED
  BY <1>1, Invariant, PTL

(* No reader of CONFIG_FILE finds it empty, whoever writes it              *)
(* (write_overrides_to, write_config_file): true while saves do not        *)
(* overlap what the daemon writes.                                         *)
THEOREM ReadersServed == ASSUME Assumed PROVE Spec => []ReadersSeeWholeFile
<1>1. TypeOK /\ IInv => ReadersSeeWholeFile
  <2> SUFFICES ASSUME TypeOK, IInv  PROVE data[cfg] # Empty
    BY DEF ReadersSeeWholeFile
  <2>1. DOMAIN data[cfg] # DOMAIN Empty
    BY DEF IInv, CopiesOK, FullBut, Assumed, Empty
  <2> QED
    BY <2>1
<1> QED
  BY <1>1, Invariant, PTL

(* apply_save_file sets a parameter only to what the operator last asked   *)
(* for it, or what the escaping and its own field leave of that: no other  *)
(* parameter's value, default of the CGI, mask or stale copy gets in by    *)
(* way of the files.  What the form itself puts in unasked, a select of    *)
(* clips whose list was not there and the mask of a password that the CGI  *)
(* does not know, is excepted.                                             *)
THEOREM NothingElseGetsIn == ASSUME Assumed PROVE Spec => OnlyAskedValues
<1>1. TypeOK /\ IInv /\ [Next]_vars =>
        [\A p \in Param : store'[p] # store[p] =>
           store'[p] \in Worn[p][asked[p]] \/ p \in strayed]_vars
  <2> SUFFICES ASSUME TypeOK, IInv, Next,
                      NEW p \in Param, store'[p] # store[p]
               PROVE  store'[p] \in Worn[p][asked[p]] \/ p \in strayed
    OBVIOUS
  <2>1. ~Request /\ ~loadClipList /\ ~Refresh /\ ~Cgi /\ ~Tick
    BY DEF Request, loadClipList, Save, Import, Ask, Refresh, Cgi, config_load, CgiWriteSave, CgiOpen, CgiFill, CgiRename,
           CgiRenameFails, CgiUnlink, signal_daemon, ReplySaved, ReplyConfig, Tick, vars, daemonVars
  <2>2. ~Crash /\ ~Restart
    BY DEF Crash, Restart, DaemonStep, Assumed, Patient, IInv, Turns
  <2>3. params_set
    BY <2>1, <2>2 DEF Next, Daemon, TakeFlag, NothingToApply, ReadSave, Consume, Applied,
           DaemonOpen, DaemonFill, DaemonRename, DaemonRenameFails, DaemonUnlink
  <2>4. Full(got)
    BY <2>3 DEF params_set, DaemonStep, IInv, CopiesOK
  <2>5. store'[p] = got[p]
    BY <2>3 DEF params_set, TypeOK
  <2> QED
    BY <2>4, <2>5 DEF Full, FullBut, Close
<1> QED
  BY <1>1, Invariant, PTL DEF OnlyAskedValues, Spec

-----------------------------------------------------------------------------
(***************************************************************************)
(* The save that is made when nothing is pending, whatever went wrong      *)
(* before it and however hasty the operator is after it.                   *)
(***************************************************************************)
(* What is stored of a value that was entered in a form, or imported.      *)
Arrives(p, v) == v \in {Stripped[asked[p]], Stripped[Sent[p][asked[p]]]}

(* A whole configuration with what the last request asked for.             *)
Carries(c) == DOMAIN c = Param /\ \A p \in last : Arrives(p, c[p])

(* The CGI saves while the daemon rests, and its rename finds its file.    *)
SaveTurns ==
  /\ dpc # "down"
  /\ ui \in {"idle", "refresh"} => cgi = "idle"
  /\ ui = "loading" => cgi \in {"load", "reply"} /\ req.op = "config"
  /\ ui = "saving" => /\ cgi \notin {"idle", "unlink"} /\ req.op \in {"save", "import"}
                      /\ req.edited = last
                      /\ cgi \notin {"load", "save"} => ok
  /\ Telling => dpc = "idle"
  /\ Telling \/ dpc # "idle" => ~flag
  /\ cgi = "fill" => tmp \in Inode /\ fd["cgi"] = tmp
  /\ cgi = "rename" => tmp \in Inode

(* The request fits the array and holds what was asked for, unmasked.      *)
SaveAsks ==
  ui = "saving" =>
    /\ HasRoom(DOMAIN req.body)
    /\ \A p \in last : /\ p \in DOMAIN req.body /\ Kept(p)
                       /\ req.body[p] \in {asked[p], Sent[p][asked[p]]}

(* It passes from the request to the save file, and from there to the      *)
(* daemon's copy and, parameter by parameter, to its store.                *)
SaveTravels ==
  /\ (ui = "saving" /\ cgi \in {"open", "fill", "rename", "signal"}) => Carries(saveFile)
  /\ (flag \/ dpc = "read") => Carries(saveFile)
  /\ dpc \in {"consume", "set"} => Carries(got)
  /\ dpc = "set" => \A i \in DOMAIN Fields :
                      i < k /\ Fields[i] \in last => Arrives(Fields[i], store[Fields[i]])
  /\ Telling \/ Applying \/ \A p \in last : Arrives(p, store[p])

SaveAnswered == ui # "saving" => \A p \in last : acked[p] = asked[p]

QuietInv == clean => SaveTurns /\ SaveAsks /\ SaveTravels /\ SaveAnswered

LEMMA WritesAsked ==
  ASSUME TypeOK, SaveAsks, ui = "saving"
  PROVE  Carries(write_overrides)
<1>1. ASSUME NEW p \in last  PROVE Arrives(p, write_overrides[p])
  <2>1. p \in Overridden /\ p \in Param
    BY OverriddenIsKept DEF SaveAsks, TypeOK
  <2>2. write_overrides[p] = Stripped[req.body[p]]
    BY <2>1 DEF write_overrides
  <2> QED
    BY <2>2 DEF SaveAsks, Arrives
<1> QED
  BY <1>1 DEF Carries, write_overrides

LEMMA QuietAsk ==
  ASSUME TypeOK, QuietInv, NEW op \in {"save", "import"}, NEW body, NEW entered, NEW astray,
         DOMAIN entered \subseteq DOMAIN body, DOMAIN body \subseteq Param, HasRoom(DOMAIN body),
         Ask(op, body, entered, astray),
         \A p \in DOMAIN entered : Kept(p)' /\ body[p] \in {entered[p], Sent[p][entered[p]]}
  PROVE  QuietInv'
<1> SUFFICES ASSUME clean'  PROVE (SaveTurns /\ SaveAsks /\ SaveTravels /\ SaveAnswered)'
  BY DEF QuietInv
<1>1. /\ cgi = "idle" /\ dpc = "idle" /\ ~flag
      /\ req' = [op |-> op, body |-> body, edited |-> DOMAIN entered]
      /\ asked' = [p \in Param |-> IF p \in DOMAIN entered THEN entered[p] ELSE asked[p]]
      /\ last' = DOMAIN entered /\ ui' = "saving" /\ cgi' = "load"
      /\ UNCHANGED <<daemonVars, saveFile, fileVars>>
  BY DEF Ask, MayRequest, Send, Quiet
<1>2. SaveTurns'
  BY <1>1 DEF SaveTurns, Telling, daemonVars
<1>3. SaveAsks'
  BY <1>1 DEF SaveAsks, HasRoom
<1>4. SaveTravels' /\ SaveAnswered'
  BY <1>1 DEF SaveTravels, SaveAnswered, Telling, daemonVars
<1> QED
  BY <1>2, <1>3, <1>4

LEMMA QuietCgi ==
  ASSUME TypeOK, clean, SaveTurns, SaveAsks, SaveTravels, SaveAnswered, Cgi
  PROVE  (SaveTurns /\ SaveAsks /\ SaveTravels /\ SaveAnswered)'
<1>1. CASE config_load
  <2>1. /\ cgi = "load" /\ cgi' = (IF req.op = "config" THEN "reply" ELSE "save")
        /\ UNCHANGED <<req, ok, uiVars, daemonVars, saveFile, fileVars>>
    BY <1>1 DEF config_load, CgiStep
  <2>2. ui = "saving" \/ ui = "loading"
    BY <2>1 DEF SaveTurns, TypeOK
  <2>3. SaveTurns'
    BY <2>1, <2>2 DEF SaveTurns, Telling, uiVars, history, daemonVars, fileVars
  <2>4. SaveAsks' /\ SaveAnswered'
    BY <2>1 DEF SaveAsks, SaveAnswered, Kept, HasRoom, uiVars, history
  <2>5. SaveTravels'
    BY <2>1, <2>2 DEF SaveTurns, SaveTravels, Telling, Applying, Carries, Arrives, uiVars, history, daemonVars
  <2> QED
    BY <2>3, <2>4, <2>5
<1>2. CASE CgiWriteSave
  <2>1. /\ cgi = "save" /\ cgi' = "open" /\ saveFile' = write_overrides /\ ok'
        /\ UNCHANGED <<req, uiVars, daemonVars, fileVars>>
    BY <1>2 DEF CgiWriteSave, CgiStep
  <2>2. ui = "saving"
    BY <2>1 DEF SaveTurns, TypeOK
  <2>3. Telling /\ dpc = "idle" /\ ~flag
    BY <2>1, <2>2 DEF SaveTurns, Telling
  <2>4. SaveTurns'
    BY <2>1, <2>2, <2>3 DEF SaveTurns, Telling, uiVars, history, daemonVars, fileVars
  <2>5. SaveAsks' /\ SaveAnswered'
    BY <2>1 DEF SaveAsks, SaveAnswered, Kept, HasRoom, uiVars, history
  <2>6. Carries(saveFile)'
    BY <2>1, <2>2, WritesAsked DEF Carries, Arrives, uiVars, history
  <2>7. SaveTravels'
    BY <2>1, <2>2, <2>3, <2>6 DEF SaveTravels, Telling, uiVars, history, daemonVars
  <2> QED
    BY <2>4, <2>5, <2>7
<1>3. CASE CgiOpen \/ CgiFill \/ CgiRename
  <2>1. /\ cgi \in {"open", "fill", "rename"} /\ cgi' \in {"fill", "rename", "signal"}
        /\ UNCHANGED <<req, ok, uiVars, daemonVars, saveFile>>
    BY <1>3 DEF CgiOpen, CgiFill, CgiRename, CgiStep
  <2>2. ui = "saving"
    BY <2>1 DEF SaveTurns, TypeOK
  <2>3. /\ cgi' = "fill" => tmp' \in Inode /\ fd'["cgi"] = tmp'
        /\ cgi' = "rename" => tmp' \in Inode
    <3>1. CASE CgiOpen
      <4> DEFINE i == IF tmp = NoFile THEN Fresh ELSE tmp
      <4>1. i \in Inode
        BY FreshInode DEF TypeOK
      <4>2. tmp' = i /\ fd' = [fd EXCEPT !["cgi"] = i] /\ cgi' = "fill"
        BY <3>1 DEF CgiOpen, CgiStep, OpenTmp
      <4> HIDE DEF i
      <4> QED
        BY <4>1, <4>2 DEF TypeOK
    <3>2. CASE CgiFill
      BY <3>2 DEF CgiFill, CgiStep, FillTmp, SaveTurns
    <3>3. CASE CgiRename
      BY <3>3 DEF CgiRename, CgiStep
    <3> QED
      BY <1>3, <3>1, <3>2, <3>3
  <2>4. SaveTurns'
    BY <2>1, <2>2, <2>3 DEF SaveTurns, Telling, uiVars, history, daemonVars
  <2>5. SaveAsks' /\ SaveAnswered'
    BY <2>1 DEF SaveAsks, SaveAnswered, Kept, HasRoom, uiVars, history
  <2>6. SaveTravels'
    BY <2>1, <2>2 DEF SaveTravels, Telling, Carries, Arrives, uiVars, history, daemonVars
  <2> QED
    BY <2>4, <2>5, <2>6
<1>4. CASE CgiRenameFails \/ CgiUnlink
  BY <1>4 DEF CgiRenameFails, CgiUnlink, CgiStep, SaveTurns, Inode, NoFile, TypeOK
<1>5. CASE signal_daemon
  <2>1. /\ cgi = "signal" /\ cgi' = "reply" /\ flag' = (flag \/ dpc # "down")
        /\ UNCHANGED <<req, ok, uiVars, dpc, store, got, k, saveFile, fileVars>>
    BY <1>5 DEF signal_daemon, CgiStep
  <2>2. ui = "saving"
    BY <2>1 DEF SaveTurns, TypeOK
  <2>3. dpc = "idle" /\ flag'
    BY <2>1, <2>2 DEF SaveTurns, Telling
  <2>4. SaveTurns'
    BY <2>1, <2>2, <2>3 DEF SaveTurns, Telling, uiVars, history
  <2>5. SaveAsks' /\ SaveAnswered'
    BY <2>1 DEF SaveAsks, SaveAnswered, Kept, HasRoom, uiVars, history
  <2>6. SaveTravels'
    BY <2>1, <2>2, <2>3 DEF SaveTravels, Applying, Carries, Arrives, uiVars, history
  <2> QED
    BY <2>4, <2>5, <2>6
<1>6. CASE ReplySaved
  <2>1. /\ cgi = "reply" /\ cgi' = "idle" /\ ui' = "refresh"
        /\ req.op # "config"
        /\ acked' = IF ok THEN [p \in Param |-> IF p \in req.edited THEN asked[p] ELSE acked[p]]
                          ELSE acked
        /\ UNCHANGED <<asked, last, clean, daemonVars, saveFile, fileVars>>
    BY <1>6 DEF ReplySaved, CgiStep
  <2>2. ui = "saving" /\ ok /\ req.edited = last
    BY <2>1 DEF SaveTurns, TypeOK
  <2>3. SaveTurns' /\ SaveAsks'
    BY <2>1, <2>2 DEF SaveTurns, SaveAsks, Telling, daemonVars
  <2>4. SaveAnswered'
    BY <2>1, <2>2 DEF SaveAnswered, TypeOK
  <2>5. SaveTravels'
    BY <2>1, <2>2 DEF SaveTravels, Telling, Applying, Carries, Arrives, daemonVars
  <2> QED
    BY <2>3, <2>4, <2>5
<1>7. CASE ReplyConfig
  <2>1. /\ cgi = "reply" /\ cgi' = "idle" /\ ui' = "idle" /\ req.op = "config"
        /\ UNCHANGED <<history, daemonVars, saveFile, fileVars>>
    BY <1>7 DEF ReplyConfig, CgiStep
  <2>2. ui = "loading"
    BY <2>1 DEF SaveTurns, TypeOK
  <2>3. SaveTurns' /\ SaveAsks' /\ SaveAnswered'
    BY <2>1, <2>2 DEF SaveTurns, SaveAsks, SaveAnswered, Telling, history, daemonVars
  <2>4. SaveTravels'
    BY <2>1, <2>2 DEF SaveTravels, Telling, Applying, Carries, Arrives, history, daemonVars
  <2> QED
    BY <2>3, <2>4
<1> QED
  BY <1>1, <1>2, <1>3, <1>4, <1>5, <1>6, <1>7 DEF Cgi

LEMMA QuietDaemon ==
  ASSUME TypeOK, clean, SaveTurns, SaveAsks, SaveTravels, SaveAnswered, Daemon
  PROVE  (SaveTurns /\ SaveAsks /\ SaveTravels /\ SaveAnswered)'
<1>0. UNCHANGED <<uiVars, cgiVars>>
  BY DEF Daemon, TakeFlag, NothingToApply, ReadSave, Consume, params_set, Applied,
         DaemonOpen, DaemonFill, DaemonRename, DaemonRenameFails, DaemonUnlink
<1>a. SaveAsks' /\ SaveAnswered'
  BY <1>0 DEF SaveAsks, SaveAnswered, Kept, HasRoom, uiVars, history, cgiVars
<1>1. CASE TakeFlag
  <2>1. /\ flag /\ dpc = "idle" /\ dpc' = "read" /\ ~flag'
        /\ UNCHANGED <<store, got, k, saveFile, fileVars>>
    BY <1>1 DEF TakeFlag, DaemonStep
  <2>2. ~Telling
    BY <2>1 DEF SaveTurns
  <2>3. SaveTurns'
    BY <1>0, <2>1, <2>2 DEF SaveTurns, Telling, uiVars, history, cgiVars, fileVars
  <2>4. SaveTravels'
    BY <1>0, <2>1, <2>2 DEF SaveTravels, Telling, Applying, Carries, Arrives, uiVars, history, cgiVars
  <2> QED
    BY <1>a, <2>3, <2>4
<1>2. CASE NothingToApply
  <2>1. /\ dpc = "read" /\ dpc' = "idle" /\ saveFile = Empty
        /\ UNCHANGED <<flag, store, got, k, saveFile, fileVars>>
    BY <1>2 DEF NothingToApply, DaemonStep
  <2>2. ~Telling
    BY <2>1 DEF SaveTurns
  <2>3. last = {}
    BY <2>1 DEF SaveTravels, Carries, Empty, TypeOK
  <2>4. SaveTurns'
    BY <1>0, <2>1, <2>2 DEF SaveTurns, Telling, uiVars, history, cgiVars, fileVars
  <2>5. SaveTravels'
    BY <1>0, <2>1, <2>2, <2>3 DEF SaveTurns, SaveTravels, Telling, Applying, Carries, Arrives, uiVars, history, cgiVars
  <2> QED
    BY <1>a, <2>4, <2>5
<1>3. CASE ReadSave \/ Consume
  <2>1. /\ dpc \in {"read", "consume"} /\ dpc' \in {"consume", "set"}
        /\ dpc = "read" => dpc' = "consume" /\ got' = saveFile
        /\ dpc = "consume" => dpc' = "set" /\ got' = got /\ k' = 1
        /\ UNCHANGED <<flag, store, fileVars>>
    BY <1>3 DEF ReadSave, Consume, DaemonStep
  <2>2. ~flag /\ ~Telling
    BY <2>1 DEF SaveTurns
  <2>3. SaveTurns'
    BY <1>0, <2>1, <2>2 DEF SaveTurns, Telling, uiVars, history, cgiVars, fileVars
  <2>4. Carries(got)'
    BY <1>0, <2>1 DEF SaveTravels, Carries, Arrives, uiVars, history
  <2>5. \A i \in DOMAIN Fields : ~(i < 1)
    BY FieldsFacts
  <2>6. SaveTravels'
    BY <1>0, <2>1, <2>2, <2>4, <2>5 DEF SaveTravels, Telling, Applying, uiVars, history, cgiVars
  <2> QED
    BY <1>a, <2>3, <2>6
<1>4. CASE params_set
  <2>1. /\ dpc = "set" /\ dpc' = "set" /\ k <= Len(Fields) /\ k' = k + 1
        /\ UNCHANGED <<flag, got, saveFile, fileVars>>
    BY <1>4 DEF params_set, DaemonStep
  <2>2. /\ k \in Nat /\ k \in DOMAIN Fields /\ Fields[k] \in Param
        /\ \A i \in DOMAIN Fields : i < k + 1 => i < k \/ i = k
    <3>1. k \in 1..(Len(Fields) + 1)
      BY DEF TypeOK
    <3> QED
      BY <2>1, <3>1, FieldsFacts
  <2>3. Carries(got)
    BY <2>1 DEF SaveTravels
  <2>4. store' = [store EXCEPT ![Fields[k]] = got[Fields[k]]]
    BY <1>4, <2>2, <2>3 DEF params_set, Carries
  <2>5. ~Telling /\ ~flag
    BY <2>1 DEF SaveTurns
  <2>6. SaveTurns'
    BY <1>0, <2>1, <2>5 DEF SaveTurns, Telling, uiVars, history, cgiVars, fileVars
  <2>7. ASSUME NEW i \in DOMAIN Fields, i < k', Fields[i] \in last
        PROVE  Arrives(Fields[i], store'[Fields[i]])
    <3>1. \A p \in Param : store'[p] = IF p = Fields[k] THEN got[p] ELSE store[p]
      BY <2>2, <2>4 DEF TypeOK
    <3>2. Fields[i] \in Param /\ (i < k \/ i = k)
      BY <2>1, <2>2, <2>7, FieldsFacts
    <3>3. CASE Fields[i] = Fields[k]
      BY <2>3, <2>7, <3>1, <3>2, <3>3 DEF Carries
    <3>4. CASE Fields[i] # Fields[k]
      <4>1. Arrives(Fields[i], store[Fields[i]])
        BY <2>1, <2>7, <3>2, <3>4 DEF SaveTravels
      <4> QED
        BY <3>1, <3>2, <3>4, <4>1
    <3> QED
      BY <3>3, <3>4
  <2>8. SaveTravels'
    BY <1>0, <2>1, <2>3, <2>5, <2>7 DEF SaveTravels, Telling, Applying, Carries, Arrives, uiVars, history, cgiVars
  <2> QED
    BY <1>a, <2>6, <2>8
<1>5. CASE Applied
  <2>1. /\ dpc = "set" /\ dpc' = "open" /\ k > Len(Fields)
        /\ UNCHANGED <<flag, store, saveFile, fileVars>>
    BY <1>5 DEF Applied, DaemonStep
  <2>2. ~Telling /\ ~flag
    BY <2>1 DEF SaveTurns
  <2>3. \A p \in last : Arrives(p, store[p])
    <3>1. \A i \in 1..Len(Fields) : i < k
      <4>1. k \in 1..(Len(Fields) + 1)
        BY DEF TypeOK
      <4> QED
        BY <2>1, <4>1, FieldsFacts
    <3>2. \A i \in 1..Len(Fields) : Fields[i] \in last => Arrives(Fields[i], store[Fields[i]])
      BY <2>1, <3>1, FieldsFacts DEF SaveTravels
    <3> QED
      BY <3>2, FieldsFacts DEF TypeOK
  <2>4. SaveTurns'
    BY <1>0, <2>1, <2>2 DEF SaveTurns, Telling, uiVars, history, cgiVars, fileVars
  <2>5. SaveTravels'
    BY <1>0, <2>1, <2>2, <2>3 DEF SaveTravels, Telling, Carries, Arrives, uiVars, history, cgiVars
  <2> QED
    BY <1>a, <2>4, <2>5
<1>6. CASE DaemonOpen \/ DaemonFill \/ DaemonRename \/ DaemonRenameFails \/ DaemonUnlink
  <2>1. /\ dpc \in {"open", "fill", "rename", "unlink"}
        /\ dpc' \in {"fill", "rename", "unlink", "idle"}
        /\ UNCHANGED <<flag, store, got, k, saveFile>>
    BY <1>6 DEF DaemonOpen, DaemonFill, DaemonRename, DaemonRenameFails, DaemonUnlink, DaemonStep
  <2>2. ~Telling /\ ~flag
    BY <2>1 DEF SaveTurns
  <2>3. cgi \notin {"fill", "rename"}
    BY <2>2 DEF SaveTurns, Telling, TypeOK
  <2>4. SaveTurns'
    BY <1>0, <2>1, <2>2, <2>3 DEF SaveTurns, Telling, uiVars, history, cgiVars
  <2>5. SaveTravels'
    BY <1>0, <2>1, <2>2 DEF SaveTravels, Telling, Applying, Carries, Arrives, uiVars, history, cgiVars
  <2> QED
    BY <1>a, <2>4, <2>5
<1> QED
  BY <1>1, <1>2, <1>3, <1>4, <1>5, <1>6 DEF Daemon

LEMMA QuietStep ==
  ASSUME RequestsFit, MaskNotTyped
  PROVE  TypeOK /\ QuietInv /\ [Next]_vars => QuietInv'
<1> SUFFICES ASSUME TypeOK, QuietInv, [Next]_vars  PROVE QuietInv'
  OBVIOUS
<1>1. ASSUME NEW s \in Section, NEW p \in s, NEW v \in Edits[p], Save(s, p, v)
      PROVE  QuietInv'
  <2>0. PICK body, entered : body = gatherFields(s, p, v) /\ entered = [q \in {p} |-> v]
    OBVIOUS
  <2>1. /\ DOMAIN body = s /\ s \subseteq Param /\ HasRoom(s)
        /\ DOMAIN entered = {p} /\ entered[p] = v /\ body[p] = Sent[p][v]
    BY <2>0, SectionFacts DEF gatherFields, RequestsFit
  <2>2. Ask("save", body, entered, Astray(s \ {p}))
    BY <1>1, <2>0 DEF Save
  <2>3. req' = [op |-> "save", body |-> body, edited |-> DOMAIN entered]
    BY <2>2 DEF Ask, Send
  <2>4. \A q \in {p} : Kept(q)'
    BY <2>1, <2>3 DEF Kept, MaskNotTyped
  <2> QED
    BY <2>1, <2>2, <2>4, QuietAsk
<1>2. ASSUME NEW c \in Imports, Import(c)
      PROVE  QuietInv'
  <2>0. PICK entered :
          entered = [p \in {q \in DOMAIN c : ~(q \in MaskedByCgi /\ c[q] = Blank)} |-> c[p]]
    OBVIOUS
  <2>1. /\ DOMAIN entered \subseteq DOMAIN c /\ DOMAIN c \subseteq Param /\ HasRoom(DOMAIN c)
        /\ \A p \in DOMAIN entered : entered[p] = c[p]
    BY <2>0, SectionFacts DEF RequestsFit, IsText
  <2>2. Ask("import", c, entered, {})
    BY <1>2, <2>0 DEF Import
  <2>3. req' = [op |-> "import", body |-> c, edited |-> DOMAIN entered]
    BY <2>2 DEF Ask, Send
  <2>4. \A q \in DOMAIN entered : Kept(q)'
    BY <2>0, <2>3 DEF Kept
  <2> QED
    BY <2>1, <2>2, <2>4, QuietAsk
<1>9. CASE loadClipList
  <2>1. UNCHANGED <<ui, history, cgiVars, daemonVars, saveFile, fileVars>>
    BY <1>9 DEF loadClipList
  <2> QED
    BY <2>1 DEF QuietInv, SaveTurns, SaveAsks, SaveTravels, SaveAnswered, Telling, Applying,
                Kept, HasRoom, Carries, Arrives, history, cgiVars, daemonVars, fileVars
<1>3. CASE Refresh
  <2>1. /\ ui = "refresh" /\ cgi = "idle" /\ ui' = "loading" /\ cgi' = "load"
        /\ req' = [op |-> "config", body |-> Empty, edited |-> {}]
        /\ UNCHANGED <<history, daemonVars, saveFile, fileVars>>
    BY <1>3 DEF Refresh, Send
  <2>2. SUFFICES ASSUME clean
                 PROVE  (SaveTurns /\ SaveAsks /\ SaveTravels /\ SaveAnswered)'
    BY <2>1 DEF QuietInv, history
  <2>3. SaveTurns' /\ SaveAsks' /\ SaveAnswered'
    BY <2>1, <2>2 DEF QuietInv, SaveTurns, SaveAsks, SaveAnswered, Telling, history, daemonVars
  <2>4. SaveTravels'
    BY <2>1, <2>2 DEF QuietInv, SaveTravels, Telling, Applying, Carries, Arrives, history, daemonVars
  <2> QED
    BY <2>3, <2>4
<1>4. CASE Cgi
  <2>1. clean' = clean
    BY <1>4 DEF Cgi, config_load, CgiWriteSave, CgiOpen, CgiFill, CgiRename, CgiRenameFails,
                CgiUnlink, signal_daemon, ReplySaved, ReplyConfig, uiVars, history
  <2> QED
    BY <1>4, <2>1, QuietCgi DEF QuietInv
<1>5. CASE Daemon
  <2>1. clean' = clean
    BY <1>5 DEF Daemon, TakeFlag, NothingToApply, ReadSave, Consume, params_set, Applied,
                DaemonOpen, DaemonFill, DaemonRename, DaemonRenameFails, DaemonUnlink, uiVars, history
  <2> QED
    BY <1>5, <2>1, QuietDaemon DEF QuietInv
<1>6. CASE Tick \/ UNCHANGED vars
  <2>1. UNCHANGED vars
    BY <1>6 DEF Tick
  <2> QED
    BY <2>1 DEF vars, QuietInv, SaveTurns, SaveAsks, SaveTravels, SaveAnswered, Telling, Applying,
                Kept, HasRoom, Carries, Arrives, uiVars, history, cgiVars, daemonVars, fileVars
<1>7. CASE Crash
  BY <1>7 DEF Crash, QuietInv
<1>8. CASE Restart
  BY <1>8 DEF Restart, DaemonStep, QuietInv, SaveTurns, uiVars, history
<1> QED
  BY <1>1, <1>2, <1>3, <1>4, <1>5, <1>6, <1>7, <1>8, <1>9 DEF Next, Request

(* A save made when nothing is pending succeeds and is in the parameters   *)
(* once nothing is pending again, if no crash meets it: in whatever state  *)
(* crashes, failed writes and overlapping saves have left the files        *)
(* before, so no temp file or save file that was left over is in its way.  *)
THEOREM QuietSavesStick ==
  ASSUME RequestsFit, MaskNotTyped
  PROVE  Spec => []QuietSaveSticks
<1>1. Init => QuietInv
  BY DEF Init, QuietInv, SaveTurns, SaveAsks, SaveTravels, SaveAnswered, Telling
<1>2. TypeOK /\ QuietInv => QuietSaveSticks
  <2> SUFFICES ASSUME TypeOK, QuietInv, Quiet, clean
               PROVE  \A p \in last : Arrives(p, store[p]) /\ acked[p] = asked[p]
    BY DEF QuietSaveSticks, Arrives
  <2>1. ui # "saving" /\ ~Telling /\ ~Applying
    BY DEF QuietInv, SaveTurns, Telling, Applying, Quiet
  <2> QED
    BY <2>1 DEF QuietInv, SaveTravels, SaveAnswered
<1> QED
  BY <1>1, <1>2, InitTypes, TypeStep, QuietStep, PTL DEF Spec

-----------------------------------------------------------------------------
(***************************************************************************)
(* How far either process is from the end of what it is doing.             *)
(***************************************************************************)

(* Steps the CGI has left until its request is answered, at most.          *)
CgiLeft ==
  CASE cgi = "load"   -> 7
    [] cgi = "save"   -> 6
    [] cgi = "open"   -> 5
    [] cgi = "fill"   -> 4
    [] cgi = "rename" -> 3
    [] cgi = "unlink" -> 2
    [] cgi = "signal" -> 2
    [] cgi = "reply"  -> 1
    [] OTHER          -> 0

(* Steps the daemon has left until its callback returns, at most: one for  *)
(* each parameter it has not yet looked at, and the export.                *)
DaemonLeft ==
  CASE dpc = "read"    -> Len(Fields) + 8
    [] dpc = "consume" -> Len(Fields) + 7
    [] dpc = "set"     -> Len(Fields) + 7 - k
    [] dpc = "open"    -> 4
    [] dpc = "fill"    -> 3
    [] dpc = "rename"  -> 2
    [] dpc = "unlink"  -> 1
    [] OTHER           -> 0

(* A request or a callback that has begun only comes nearer to its end,    *)
(* whatever the other process does; no step of its own is wasted.          *)
RequestGoesOn ==
  cgi # "idle" => CgiLeft' <= CgiLeft /\ (Cgi => CgiLeft' < CgiLeft)

CallbackGoesOn ==
  dpc \notin {"idle", "down"} =>
    DaemonLeft' <= DaemonLeft /\ (Daemon => DaemonLeft' < DaemonLeft)

LEMMA CgiLeftBound == TypeOK => CgiLeft \in 0..7
BY DEF TypeOK, CgiLeft

LEMMA DaemonLeftBound == TypeOK => DaemonLeft \in 0..(Len(Fields) + 8)
<1> SUFFICES ASSUME TypeOK PROVE DaemonLeft \in 0..(Len(Fields) + 8)
  OBVIOUS
<1>1. Len(Fields) \in Nat
  BY FieldsFacts
<1>2. k \in 1..(Len(Fields) + 1)
  BY DEF TypeOK
<1> QED
  BY <1>1, <1>2 DEF DaemonLeft

(* Where each step of the CGI goes.                                        *)
LEMMA CgiGoes ==
  TypeOK /\ Cgi => cgi' # cgi /\ CgiLeft' < CgiLeft /\ dpc' = dpc /\ k' = k
<1> SUFFICES ASSUME TypeOK, Cgi
             PROVE  cgi' # cgi /\ CgiLeft' < CgiLeft /\ dpc' = dpc /\ k' = k
  OBVIOUS
<1>1. CASE config_load
  BY <1>1 DEF config_load, CgiStep, CgiLeft, daemonVars
<1>2. CASE CgiWriteSave
  BY <1>2 DEF CgiWriteSave, CgiStep, CgiLeft, daemonVars
<1>3. CASE CgiOpen
  BY <1>3 DEF CgiOpen, CgiStep, CgiLeft, daemonVars
<1>4. CASE CgiFill
  BY <1>4 DEF CgiFill, CgiStep, CgiLeft, daemonVars
<1>5. CASE CgiRename
  BY <1>5 DEF CgiRename, CgiStep, CgiLeft, daemonVars
<1>6. CASE CgiRenameFails
  BY <1>6 DEF CgiRenameFails, CgiStep, CgiLeft, daemonVars
<1>7. CASE CgiUnlink
  BY <1>7 DEF CgiUnlink, CgiStep, CgiLeft, daemonVars
<1>8. CASE signal_daemon
  BY <1>8 DEF signal_daemon, CgiStep, CgiLeft
<1>9. CASE ReplySaved
  BY <1>9 DEF ReplySaved, CgiStep, CgiLeft, daemonVars
<1>10. CASE ReplyConfig
  BY <1>10 DEF ReplyConfig, CgiStep, CgiLeft, daemonVars
<1> QED
  BY <1>1, <1>2, <1>3, <1>4, <1>5, <1>6, <1>7, <1>8, <1>9, <1>10 DEF Cgi

(* And each step of the daemon, TakeFlag apart, which begins a callback.   *)
LEMMA DaemonGoes ==
  TypeOK /\ Daemon =>
    cgi' = cgi /\ (dpc # "idle" => dpc # "down" /\ DaemonLeft' < DaemonLeft)
<1> SUFFICES ASSUME TypeOK, Daemon
             PROVE  /\ cgi' = cgi
                    /\ dpc # "idle" => dpc # "down" /\ DaemonLeft' < DaemonLeft
  OBVIOUS
<1>1. Len(Fields) \in Nat
  BY FieldsFacts
<1>2. k \in 1..(Len(Fields) + 1)
  BY DEF TypeOK
<1>3. CASE TakeFlag
  BY <1>3 DEF TakeFlag, DaemonStep, cgiVars
<1>4. CASE NothingToApply
  BY <1>1, <1>4 DEF NothingToApply, DaemonStep, DaemonLeft, cgiVars
<1>5. CASE ReadSave
  BY <1>1, <1>5 DEF ReadSave, DaemonStep, DaemonLeft, cgiVars
<1>6. CASE Consume
  BY <1>1, <1>6 DEF Consume, DaemonStep, DaemonLeft, cgiVars
<1>7. CASE params_set
  BY <1>1, <1>2, <1>7 DEF params_set, DaemonStep, DaemonLeft, cgiVars
<1>8. CASE Applied
  BY <1>1, <1>2, <1>8 DEF Applied, DaemonStep, DaemonLeft, cgiVars
<1>9. CASE DaemonOpen
  BY <1>9 DEF DaemonOpen, DaemonStep, DaemonLeft, cgiVars
<1>10. CASE DaemonFill
  BY <1>10 DEF DaemonFill, DaemonStep, DaemonLeft, cgiVars
<1>11. CASE DaemonRename
  BY <1>11 DEF DaemonRename, DaemonStep, DaemonLeft, cgiVars
<1>12. CASE DaemonRenameFails
  BY <1>12 DEF DaemonRenameFails, DaemonStep, DaemonLeft, cgiVars
<1>13. CASE DaemonUnlink
  BY <1>13 DEF DaemonUnlink, DaemonStep, DaemonLeft, cgiVars
<1> QED
  BY <1>3, <1>4, <1>5, <1>6, <1>7, <1>8, <1>9, <1>10, <1>11, <1>12, <1>13 DEF Daemon

(* A step that moves neither process shortens and lengthens nothing.       *)
LEMMA LeftStays ==
  TypeOK /\ dpc' = dpc /\ k' = k => DaemonLeft' <= DaemonLeft
<1> SUFFICES ASSUME TypeOK, dpc' = dpc, k' = k PROVE DaemonLeft' <= DaemonLeft
  OBVIOUS
<1>1. DaemonLeft' = DaemonLeft
  BY DEF DaemonLeft
<1>2. DaemonLeft \in Int
  BY DaemonLeftBound, FieldsFacts
<1> QED
  BY <1>1, <1>2

LEMMA CgiLeftStays ==
  TypeOK /\ cgi' = cgi => CgiLeft' <= CgiLeft
<1> SUFFICES ASSUME TypeOK, cgi' = cgi PROVE CgiLeft' <= CgiLeft
  OBVIOUS
<1>1. CgiLeft' = CgiLeft
  BY DEF CgiLeft
<1> QED
  BY <1>1, CgiLeftBound

LEMMA GoingOnStep ==
  TypeOK /\ [Next]_vars => RequestGoesOn /\ CallbackGoesOn
<1> SUFFICES ASSUME TypeOK, [Next]_vars PROVE RequestGoesOn /\ CallbackGoesOn
  OBVIOUS
<1>1. Len(Fields) \in Nat
  BY FieldsFacts
<1>2. k \in 1..(Len(Fields) + 1)
  BY DEF TypeOK
<1>3. CgiLeft \in Int /\ CgiLeft' \in Int /\ DaemonLeft \in Int /\ DaemonLeft' \in Int
  <2>1. (CgiLeft \in 0..7 /\ DaemonLeft \in 0..(Len(Fields) + 8))'
    BY TypeStep, CgiLeftBound, DaemonLeftBound, PTL
  <2> QED
    BY <2>1, <1>1, CgiLeftBound, DaemonLeftBound
<1>4. Cgi => RequestGoesOn
  BY CgiGoes, <1>3 DEF RequestGoesOn
<1>5. Daemon => CallbackGoesOn
  BY DaemonGoes, <1>3 DEF CallbackGoesOn
<1>6. ~Cgi /\ cgi' = cgi => RequestGoesOn
  BY CgiLeftStays DEF RequestGoesOn
<1>7. ~Daemon /\ dpc' = dpc /\ k' = k => CallbackGoesOn
  BY LeftStays DEF CallbackGoesOn
<1>8. CASE Cgi
  <2>1. ~Daemon
    BY <1>8, CgiGoes, DaemonGoes
  <2> QED
    BY <1>4, <1>7, <1>8, <2>1, CgiGoes
<1>9. CASE Daemon
  <2>1. ~Cgi
    BY <1>9, CgiGoes, DaemonGoes
  <2> QED
    BY <1>5, <1>6, <1>9, <2>1, DaemonGoes
<1>10. CASE ~Cgi /\ ~Daemon /\ (Request \/ Refresh)
  <2>1. cgi = "idle" /\ dpc' = dpc /\ k' = k
    BY <1>10 DEF Request, Refresh, Save, Import, Ask, MayRequest, daemonVars
  <2> QED
    BY <1>7, <1>10, <2>1 DEF RequestGoesOn
<1>11. CASE ~Cgi /\ ~Daemon /\ (loadClipList \/ Tick \/ UNCHANGED vars)
  <2>1. cgi' = cgi /\ dpc' = dpc /\ k' = k
    BY <1>11 DEF loadClipList, Tick, vars, cgiVars, daemonVars
  <2> QED
    BY <1>6, <1>7, <1>11, <2>1
<1>12. CASE ~Cgi /\ ~Daemon /\ Crash
  <2>1. cgi' = cgi /\ DaemonLeft' = 0
    BY <1>12 DEF Crash, cgiVars, DaemonLeft
  <2>2. DaemonLeft' <= DaemonLeft
    BY <2>1, <1>1, DaemonLeftBound
  <2> QED
    BY <1>6, <1>12, <2>1, <2>2 DEF CallbackGoesOn
<1>13. CASE ~Cgi /\ ~Daemon /\ Restart
  <2>1. cgi' = cgi /\ dpc = "down"
    BY <1>13 DEF Restart, DaemonStep, cgiVars
  <2> QED
    BY <1>6, <1>13, <2>1 DEF CallbackGoesOn
<1> QED
  BY <1>8, <1>9, <1>10, <1>11, <1>12, <1>13 DEF Next

(* Whatever crashes, failed writes and hasty saves do, the CGI answers a   *)
(* request within 7 steps of its own, a rename that finds no file among    *)
(* them (write_overrides_to unlinks and reports it), and the daemon's      *)
(* callback returns within as many as there are parameters and 8 more,     *)
(* export and failed rename included.                                      *)
THEOREM RequestsEnd ==
  Spec => /\ [](CgiLeft \in 0..7 /\ DaemonLeft \in 0..(Len(Fields) + 8))
          /\ [][RequestGoesOn /\ CallbackGoesOn]_vars
<1>1. TypeOK => CgiLeft \in 0..7 /\ DaemonLeft \in 0..(Len(Fields) + 8)
  BY CgiLeftBound, DaemonLeftBound
<1>2. TypeOK /\ [Next]_vars => [RequestGoesOn /\ CallbackGoesOn]_vars
  BY GoingOnStep
<1> QED
  BY <1>1, <1>2, TypeCorrect, PTL DEF Spec
=============================================================================
