----------------------------- MODULE ConfigStore -----------------------------
(***************************************************************************)
(* How an edit in the web UI reaches the daemon's parameters and comes     *)
(* back: app.js (the form), config_cgi.c (the FastCGI process), the files  *)
(* /tmp/weather_acap_save.json and /tmp/weather_acap_config.json, SIGUSR1, *)
(* apply_save_file and write_config_file of weather_acap.c, and the store  *)
(* of params.c with its file on flash.                                     *)
(*                                                                         *)
(* Two processes write CONFIG_FILE through the same CONFIG_FILE.tmp and a  *)
(* rename, so names and inodes are kept apart: a writer that has opened    *)
(* the .tmp keeps writing to its inode whatever name it has by then.       *)
(* An ordinary configuration (under 3 KB) fits one stdio buffer, so its    *)
(* text reaches the inode in one write (and cJSON_Parse ignores what may   *)
(* remain after it).                                                       *)
(***************************************************************************)
EXTENDS Integers, Sequences, FiniteSets

CONSTANTS
  Fields,        \* the parameters, in the order of FIELDS and CONFIG_PARAMS
  Value,         \* the values they may have
  Mask,          \* "__SET__", what a form sends for a password left alone
  Blank,         \* "", what an export holds for a secret
  Default,       \* the CGI's compiled defaults, a value per parameter
  Truncated,     \* what is left of a value after json_esc into esc[1024]
  Stripped,      \* what json_esc_to writes of a value: no control characters
  Shown, Sent,   \* per parameter: what its field shows of a value, and sends
                 \* of an entry, where an empty one becomes the field's default
  Disabled,      \* "-1", the choice that every select of clips has
  Initial,       \* the parameters as the model starts
  Section,       \* the sections of the form, each saved as a whole
  Edits,         \* the values the operator may enter in each parameter
  Imports,       \* the configurations the operator may upload
  ClipSelect,    \* parameters whose field is a select of the device's clips
  ClipLists,     \* the lists of clips that the device may answer with
  MaskedByUi,    \* parameters the form sends as Mask when left alone
  MaskedByCgi,   \* parameters the CGI hides, and skips when sent as Mask
  MaxOverrides,  \* size of the overrides arrays (64)
  MaxSaves,      \* bound on the requests of the operator
  Env            \* the disturbances that may happen, a subset of Disturbance

Param == {Fields[i] : i \in DOMAIN Fields}

Disturbance ==
  {"hasty",    \* the operator saves again before the daemon has applied
   "crash",    \* the daemon dies, and is respawned
   "persist"}  \* writing the parameter file on flash fails

ASSUME FieldsAssumption ==
  /\ Fields \in Seq(Param)
  /\ \A i, j \in DOMAIN Fields : Fields[i] = Fields[j] => i = j
ASSUME ValueAssumption ==
  /\ {Mask, Blank, Disabled} \subseteq Value
  /\ Default \in [Param -> Value]
  /\ Truncated \in [Value -> Value] /\ Stripped \in [Value -> Value]
  /\ Shown \in [Param -> [Value -> Value]] /\ Sent \in [Param -> [Value -> Value]]
  /\ ClipSelect \subseteq Param /\ ClipLists \subseteq SUBSET Value
  /\ Initial \subseteq [Param -> Value]
  /\ Edits \in [Param -> SUBSET Value]
  /\ \A c \in Imports : c \in [DOMAIN c -> Value] /\ DOMAIN c \subseteq Param
  /\ Section \subseteq SUBSET Param
ASSUME BoundAssumption == MaxOverrides \in Nat /\ MaxSaves \in Nat

VARIABLES
  \* the browser: what it waits for, the form, the choices of its selects of
  \* clips, and the saved choice of each that loadConfig keeps beside it
  ui, form, clips, saved,
  \* what the operator did: the values asked for and acknowledged, the number
  \* of requests, the parameters the last one edited, and whether it was made
  \* with nothing pending and no crash since; and the parameters that were
  \* sent along with something else than was asked for
  asked, acked, saves, last, clean, strayed,
  \* the CGI process: its request, g_config, and whether both writes went well
  cgi, req, seen, ok,
  \* the daemon: its thread, the SIGUSR1 flag, g_store, the save file it read
  dpc, flag, store, got, k,
  \* the parameter file on flash
  disk,
  \* /tmp: SAVE_FILE, the inodes named CONFIG_FILE and CONFIG_FILE.tmp, the
  \* inodes' contents, and the inode each process is writing
  saveFile, cfg, tmp, data, fd

history    == <<asked, acked, saves, last, clean, strayed>>
uiVars     == <<ui, form, clips, saved, history>>
cgiVars    == <<cgi, req, seen, ok>>
daemonVars == <<dpc, flag, store, got, k, disk>>
fileVars   == <<cfg, tmp, data, fd>>
vars       == <<uiVars, cgiVars, daemonVars, saveFile, fileVars>>

Inode  == 1..4
NoFile == 0
Empty  == [p \in {} |-> Blank]       \* a file that does not parse, or is absent
Unknown == [unknown |-> TRUE]        \* no value was acknowledged

(* A configuration as a file holds it: some parameters and their values.   *)
IsText(c) == DOMAIN c \subseteq Param /\ \A p \in DOMAIN c : c[p] \in Value

(* The parameters that a form may send along with something else.          *)
MayStray == ClipSelect \cup (MaskedByUi \ MaskedByCgi)

NoRequest == [op |-> "none", body |-> Empty, edited |-> {}]

TypeOK ==
  /\ ui \in {"idle", "saving", "refresh", "loading"}
  /\ form \in [Param -> Value]
  /\ clips \subseteq Value /\ saved \in [ClipSelect -> Value]
  /\ asked \in [Param -> Value]
  /\ \A p \in Param : acked[p] \in Value \/ acked[p] = Unknown
  /\ saves \in 0..MaxSaves
  /\ last \subseteq Param /\ clean \in BOOLEAN /\ strayed \subseteq MayStray
  /\ cgi \in {"idle", "load", "save", "open", "fill", "rename", "unlink", "signal", "reply"}
  /\ req.op \in {"none", "save", "import", "config"} /\ IsText(req.body) /\ req.edited \subseteq Param
  /\ IsText(seen)
  /\ ok \in BOOLEAN
  /\ dpc \in {"idle", "read", "consume", "set", "open", "fill", "rename", "unlink", "down"}
  /\ flag \in BOOLEAN
  /\ store \in [Param -> Value]
  /\ IsText(got)
  /\ k \in 1..(Len(Fields) + 1)
  /\ disk \in [Param -> Value]
  /\ IsText(saveFile)
  /\ {cfg, tmp} \subseteq Inode \cup {NoFile}
  /\ DOMAIN data = Inode /\ \A i \in Inode : IsText(data[i])
  /\ fd \in [{"cgi", "daemon"} -> Inode \cup {NoFile}]

Exported == [p \in Param |-> Truncated[store[p]]]

(* The daemon has started: it holds what the flash holds and has exported  *)
(* it, and the page has been loaded, but not yet the list of clips.        *)
Init ==
  /\ store \in Initial
  /\ disk = store
  /\ ui = "idle"
  /\ form = [p \in Param |-> IF p \in ClipSelect THEN Disabled
                             ELSE IF p \in MaskedByUi THEN Blank
                             ELSE Shown[p][Exported[p]]]
  /\ clips = {} /\ saved = [p \in ClipSelect |-> Exported[p]]
  /\ asked = store
  /\ acked = store
  /\ saves = 0 /\ last = {} /\ clean = TRUE /\ strayed = {}
  /\ cgi = "idle" /\ req = NoRequest /\ seen = Empty /\ ok = TRUE
  /\ dpc = "idle" /\ flag = FALSE /\ got = Empty /\ k = 1
  /\ saveFile = Empty
  /\ cfg = 1 /\ tmp = NoFile
  /\ data = [i \in Inode |-> IF i = 1 THEN Exported ELSE Empty]
  /\ fd = [w \in {"cgi", "daemon"} |-> NoFile]

-----------------------------------------------------------------------------
(***************************************************************************)
(* The temp + rename of write_overrides_to and of write_config_file.       *)
(***************************************************************************)
Fresh == CHOOSE i \in Inode : i \notin {cfg, tmp, fd["cgi"], fd["daemon"]}

(* fopen(tmp, "w"): creates the file, or empties the inode that is there.  *)
OpenTmp(who) ==
  LET i == IF tmp = NoFile THEN Fresh ELSE tmp
  IN  /\ tmp' = i
      /\ data' = [data EXCEPT ![i] = Empty]
      /\ fd' = [fd EXCEPT ![who] = i]
      /\ UNCHANGED cfg

(* fflush and fclose.                                                      *)
FillTmp(who, text) ==
  /\ data' = [data EXCEPT ![fd[who]] = text]
  /\ fd' = [fd EXCEPT ![who] = NoFile]
  /\ UNCHANGED <<cfg, tmp>>

RenameTmp ==
  /\ tmp # NoFile
  /\ cfg' = tmp
  /\ tmp' = NoFile
  /\ UNCHANGED <<data, fd>>

(* unlink(tmp), after a rename that found no file.                         *)
UnlinkTmp ==
  /\ tmp' = NoFile
  /\ UNCHANGED <<cfg, data, fd>>

-----------------------------------------------------------------------------
(***************************************************************************)
(* The browser: one page, one request at a time.                           *)
(***************************************************************************)
Quiet == cgi = "idle" /\ dpc = "idle" /\ ~flag

MayRequest ==
  /\ ui = "idle" /\ cgi = "idle"
  /\ saves < MaxSaves
  /\ "hasty" \in Env \/ Quiet

Send(op, body, edited) ==
  /\ req' = [op |-> op, body |-> body, edited |-> edited]
  /\ cgi' = "load"
  /\ UNCHANGED <<seen, ok>>

(* What the path may make of a value: what the escaping of either process  *)
(* leaves of it and, unless the form keeps it to itself, what a field      *)
(* shows and sends of it, however often it goes around.                    *)
Closed(p, S) ==
  \A v \in S : /\ Truncated[v] \in S /\ Stripped[v] \in S /\ Sent[p][v] \in S
               /\ p \notin MaskedByUi => Shown[p][v] \in S

Worn ==
  [p \in Param |-> [v \in Value |->
     {w \in Value : \A S \in SUBSET Value : v \in S /\ Closed(p, S) => w \in S}]]

(* The request of an operator who has entered some values; others go with  *)
(* it that were not asked for.                                             *)
Ask(op, body, entered, astray) ==
  /\ MayRequest
  /\ Send(op, body, DOMAIN entered)
  /\ asked' = [p \in Param |-> IF p \in DOMAIN entered THEN entered[p] ELSE asked[p]]
  /\ acked' = [p \in Param |-> IF p \in DOMAIN entered THEN Unknown ELSE acked[p]]
  /\ saves' = saves + 1
  /\ last' = DOMAIN entered
  /\ clean' = Quiet
  /\ strayed' = (strayed \ DOMAIN entered) \cup astray
  /\ ui' = "saving"
  /\ UNCHANGED <<clips, saved, daemonVars, saveFile, fileVars>>

(* Defective: a field left alone is sent as its default.                   *)
gathersDefaults(s, p, v) ==
  [q \in s |-> IF q = p THEN Sent[q][v]
               ELSE IF q \in MaskedByUi THEN Mask
               ELSE Default[q]]

(* gatherFields: every field of the section, one of them edited; a         *)
(* password that was left alone is sent as Mask.                           *)
gatherFields(s, p, v) ==
  [q \in s |-> IF q = p THEN Sent[q][v]
               ELSE IF q \in MaskedByUi THEN Mask
               ELSE Sent[q][form[q]]]

(* Selects of clips whose list has not been loaded since their choice was  *)
(* last reloaded send another one; and the CGI does not know the mask of   *)
(* every password.                                                         *)
Astray(s) ==
  {q \in s : \/ q \in ClipSelect /\ form[q] \notin Worn[q][asked[q]]
             \/ q \in MaskedByUi \ MaskedByCgi}

MayEnter(p, v) ==
  /\ p \in ClipSelect => v \in clips \cup {Disabled}
  /\ p \in MaskedByUi => v # Blank

Save(s, p, v) ==
  /\ MayEnter(p, v)
  /\ Ask("save", gatherFields(s, p, v), [q \in {p} |-> v], Astray(s \ {p}))
  /\ form' = [form EXCEPT ![p] = v]

(* Upload of a configuration exported from another camera, its secrets     *)
(* blank.                                                                  *)
Import(c) ==
  /\ Ask("import", c,
         [p \in {q \in DOMAIN c : ~(q \in MaskedByCgi /\ c[q] = Blank)} |-> c[p]], {})
  /\ UNCHANGED form

(* loadClipList, when the page has been loaded and at the operator's wish: *)
(* the selects are built anew and set to their saved choices, as far as    *)
(* they are on the list.  A request that fails leaves them as they are.    *)
loadClipList ==
  /\ clips' \in ClipLists
  /\ form' = [p \in Param |-> IF p \notin ClipSelect THEN form[p]
                              ELSE IF saved[p] \in clips' THEN saved[p]
                              ELSE Disabled]
  /\ UNCHANGED <<ui, saved, history, cgiVars, daemonVars, saveFile, fileVars>>

(* loadConfig, once the save has been answered.                            *)
Refresh ==
  /\ ui = "refresh" /\ cgi = "idle"
  /\ Send("config", Empty, {})
  /\ ui' = "loading"
  /\ UNCHANGED <<form, clips, saved, history, daemonVars, saveFile, fileVars>>

-----------------------------------------------------------------------------
(***************************************************************************)
(* The CGI process, one request at a time.                                 *)
(***************************************************************************)
CgiStep(from, to) == cgi = from /\ cgi' = to

config_load ==
  /\ CgiStep("load", IF req.op = "config" THEN "reply" ELSE "save")
  /\ seen' = IF cfg = NoFile THEN Empty ELSE data[cfg]
  /\ UNCHANGED <<req, ok, uiVars, daemonVars, saveFile, fileVars>>

cfg_get(p) == IF p \in DOMAIN seen THEN seen[p] ELSE Default[p]

(* endpoint_save skips masked passwords, endpoint_import blank secrets and *)
(* what does not fit its array.                                            *)
Kept(p) ==
  IF req.op = "save" THEN ~(p \in MaskedByCgi /\ req.body[p] = Mask)
                     ELSE ~(p \in MaskedByCgi /\ req.body[p] = Blank)

(* Of the first i parameters, those the request has and that are kept.     *)
Present(i) == {p \in DOMAIN req.body : Kept(p) /\ \E j \in 1..i : Fields[j] = p}

Overridden ==
  {p \in Param : \E i \in DOMAIN Fields :
     Fields[i] = p /\ p \in Present(i) /\ Cardinality(Present(i)) <= MaxOverrides}

write_overrides ==
  [p \in Param |-> Stripped[IF p \in Overridden THEN req.body[p] ELSE cfg_get(p)]]

(* Defective: CONFIG_FILE is left to the daemon.                           *)
CgiSkipsConfigFile ==
  /\ CgiStep("save", "signal")
  /\ saveFile' = write_overrides
  /\ ok' = TRUE
  /\ UNCHANGED <<req, seen, uiVars, daemonVars, fileVars>>

(* write_save_file: SAVE_FILE first (its .tmp is the CGI's alone).         *)
CgiWriteSave ==
  /\ CgiStep("save", "open")
  /\ saveFile' = write_overrides
  /\ ok' = TRUE
  /\ UNCHANGED <<req, seen, uiVars, daemonVars, fileVars>>

(* Defective: CONFIG_FILE is opened for writing in place.                  *)
CgiOpenInPlace ==
  /\ CgiStep("open", "fill")
  /\ data' = [data EXCEPT ![cfg] = Empty]
  /\ fd' = [fd EXCEPT !["cgi"] = cfg]
  /\ UNCHANGED <<cfg, tmp, req, seen, ok, uiVars, daemonVars, saveFile>>

CgiOpen ==
  /\ CgiStep("open", "fill")
  /\ OpenTmp("cgi")
  /\ UNCHANGED <<req, seen, ok, uiVars, daemonVars, saveFile>>

CgiFill ==
  /\ CgiStep("fill", "rename")
  /\ FillTmp("cgi", write_overrides)
  /\ UNCHANGED <<req, seen, ok, uiVars, daemonVars, saveFile>>

CgiRename ==
  /\ CgiStep("rename", "signal")
  /\ RenameTmp
  /\ UNCHANGED <<req, seen, ok, uiVars, daemonVars, saveFile>>

(* Defective: a rename that fails is tried again.                          *)
CgiRenameRetries == cgi = "rename" /\ tmp = NoFile /\ UNCHANGED vars

CgiRenameFails ==
  /\ CgiStep("rename", "unlink")
  /\ tmp = NoFile
  /\ UNCHANGED <<req, seen, ok, uiVars, daemonVars, saveFile, fileVars>>

CgiUnlink ==
  /\ CgiStep("unlink", "reply")
  /\ UnlinkTmp
  /\ ok' = FALSE
  /\ UNCHANGED <<req, seen, uiVars, daemonVars, saveFile>>

(* Defective: the daemon is not told.                                      *)
CgiNoSignal ==
  /\ CgiStep("signal", "reply")
  /\ UNCHANGED <<req, seen, ok, uiVars, daemonVars, saveFile, fileVars>>

(* Between a crash and the respawn PID_FILE names no process.              *)
signal_daemon ==
  /\ CgiStep("signal", "reply")
  /\ flag' = (flag \/ dpc # "down")
  /\ UNCHANGED <<req, seen, ok, uiVars, dpc, store, got, k, disk, saveFile, fileVars>>

(* A save or an import is answered: what was asked for is acknowledged.    *)
ReplySaved ==
  /\ CgiStep("reply", "idle") /\ req.op # "config"
  /\ acked' = IF ok THEN [p \in Param |-> IF p \in req.edited THEN asked[p] ELSE acked[p]]
                    ELSE acked
  /\ ui' = "refresh"
  /\ req' = NoRequest /\ seen' = Empty
  /\ UNCHANGED <<ok, form, clips, saved, asked, saves, last, clean, strayed,
                 daemonVars, saveFile, fileVars>>

(* The form that loadConfig fills in: a select of clips stays as it is,    *)
(* its saved choice is kept for loadClipList.                              *)
Filled ==
  [p \in Param |-> IF p \in ClipSelect THEN form[p]
                  ELSE IF p \in MaskedByUi THEN Blank
                  ELSE Shown[p][cfg_get(p)]]

(* endpoint_config.                                                        *)
ReplyConfig ==
  /\ CgiStep("reply", "idle") /\ req.op = "config"
  /\ form' = Filled
  /\ saved' = [p \in ClipSelect |-> cfg_get(p)]
  /\ ui' = "idle"
  /\ req' = NoRequest /\ seen' = Empty
  /\ UNCHANGED <<ok, clips, history, daemonVars, saveFile, fileVars>>

Cgi ==
  \/ config_load \/ CgiWriteSave
  \/ CgiOpen \/ CgiFill \/ CgiRename \/ CgiRenameFails \/ CgiUnlink
  \/ signal_daemon \/ ReplySaved \/ ReplyConfig

-----------------------------------------------------------------------------
(***************************************************************************)
(* The daemon: check_reload_cb or the start of do_poll sees the flag.      *)
(***************************************************************************)
DaemonStep(from, to) == dpc = from /\ dpc' = to

TakeFlag ==
  /\ flag
  /\ DaemonStep("idle", "read")
  /\ flag' = FALSE
  /\ UNCHANGED <<store, got, k, disk, uiVars, cgiVars, saveFile, fileVars>>

(* fopen(SAVE_FILE) fails: return.                                         *)
NothingToApply ==
  /\ DaemonStep("read", "idle")
  /\ saveFile = Empty
  /\ UNCHANGED <<flag, store, got, k, disk, uiVars, cgiVars, saveFile, fileVars>>

ReadSave ==
  /\ DaemonStep("read", "consume")
  /\ saveFile # Empty
  /\ got' = saveFile
  /\ UNCHANGED <<flag, store, k, disk, uiVars, cgiVars, saveFile, fileVars>>

(* unlink(SAVE_FILE), whatever has that name by now.                       *)
Consume ==
  /\ DaemonStep("consume", "set")
  /\ saveFile' = Empty
  /\ k' = 1
  /\ UNCHANGED <<flag, store, got, disk, uiVars, cgiVars, fileVars>>

(* Defective: a parameter that the save file holds is not set.             *)
SetsNothing ==
  /\ DaemonStep("set", "set")
  /\ k <= Len(Fields)
  /\ k' = k + 1
  /\ UNCHANGED <<flag, store, got, disk, uiVars, cgiVars, saveFile, fileVars>>

(* Defective: the store is not written to flash.                           *)
SetsSlotOnly ==
  /\ DaemonStep("set", "set")
  /\ k <= Len(Fields)
  /\ store' = [store EXCEPT ![Fields[k]] = got[Fields[k]]]
  /\ k' = k + 1
  /\ UNCHANGED <<flag, got, disk, uiVars, cgiVars, saveFile, fileVars>>

(* Defective: the loop goes one entry past the end of CONFIG_PARAMS.       *)
SetsPastEnd ==
  /\ DaemonStep("set", "set")
  /\ k <= Len(Fields) + 1
  /\ store' = [p \in Param |-> IF k \in DOMAIN Fields /\ p = Fields[k] THEN got[p] ELSE store[p]]
  /\ disk' = store'
  /\ k' = k + 1
  /\ UNCHANGED <<flag, got, uiVars, cgiVars, saveFile, fileVars>>

(* params_set of the k-th parameter: the slot, then the whole store to     *)
(* flash; a failure to write is logged and nothing else.                   *)
params_set ==
  /\ DaemonStep("set", "set")
  /\ k <= Len(Fields)
  /\ IF Fields[k] \in DOMAIN got
       THEN /\ store' = [store EXCEPT ![Fields[k]] = got[Fields[k]]]
            /\ disk' = store' \/ ("persist" \in Env /\ disk' = disk)
       ELSE UNCHANGED <<store, disk>>
  /\ k' = k + 1
  /\ UNCHANGED <<flag, got, uiVars, cgiVars, saveFile, fileVars>>

Applied ==
  /\ DaemonStep("set", "open")
  /\ k > Len(Fields)
  /\ got' = Empty /\ k' = 1
  /\ UNCHANGED <<flag, store, disk, uiVars, cgiVars, saveFile, fileVars>>

(* write_config_file.                                                      *)
DaemonOpen ==
  /\ DaemonStep("open", "fill")
  /\ OpenTmp("daemon")
  /\ UNCHANGED <<flag, store, got, k, disk, uiVars, cgiVars, saveFile>>

DaemonFill ==
  /\ DaemonStep("fill", "rename")
  /\ FillTmp("daemon", Exported)
  /\ UNCHANGED <<flag, store, got, k, disk, uiVars, cgiVars, saveFile>>

DaemonRename ==
  /\ DaemonStep("rename", "idle")
  /\ RenameTmp
  /\ UNCHANGED <<flag, store, got, k, disk, uiVars, cgiVars, saveFile>>

DaemonRenameFails ==
  /\ DaemonStep("rename", "unlink")
  /\ tmp = NoFile
  /\ UNCHANGED <<flag, store, got, k, disk, uiVars, cgiVars, saveFile, fileVars>>

DaemonUnlink ==
  /\ DaemonStep("unlink", "idle")
  /\ UnlinkTmp
  /\ UNCHANGED <<flag, store, got, k, disk, uiVars, cgiVars, saveFile>>

(* check_reload_cb without the flag.                                       *)
Tick == dpc = "idle" /\ ~flag /\ UNCHANGED vars

Daemon ==
  \/ TakeFlag \/ NothingToApply \/ ReadSave \/ Consume
  \/ params_set \/ Applied
  \/ DaemonOpen \/ DaemonFill \/ DaemonRename \/ DaemonRenameFails \/ DaemonUnlink

Crash ==
  /\ "crash" \in Env
  /\ dpc # "down" /\ dpc' = "down"
  /\ flag' = FALSE
  /\ got' = Empty /\ k' = 1
  /\ fd' = [fd EXCEPT !["daemon"] = NoFile]
  /\ clean' = FALSE
  /\ UNCHANGED <<store, disk, ui, form, clips, saved, asked, acked, saves, last, strayed,
                 cgiVars, saveFile, cfg, tmp, data>>

(* main up to write_config_file: a save file left over is not looked at.   *)
Restart ==
  /\ DaemonStep("down", "open")
  /\ store' = disk
  /\ UNCHANGED <<flag, got, k, disk, uiVars, cgiVars, saveFile, fileVars>>

-----------------------------------------------------------------------------
Request ==
  \/ \E s \in Section : \E p \in s : \E v \in Edits[p] : Save(s, p, v)
  \/ \E c \in Imports : Import(c)

Next == Request \/ loadClipList \/ Refresh \/ Cgi \/ Daemon \/ Tick \/ Crash \/ Restart

Spec == Init /\ [][Next]_vars

(***************************************************************************)
(* The page, the CGI and the daemon's one-second callback keep going; the  *)
(* operator owes nothing.                                                  *)
(***************************************************************************)
FairSpec ==
  Spec /\ WF_vars(Refresh) /\ WF_vars(Cgi) /\ WF_vars(Daemon) /\ WF_vars(Restart)

-----------------------------------------------------------------------------
(* A value that comes through as it is.                                    *)
Fits(p, v) == Worn[p][v] = {v}

(* A save that was answered "ok" is in the daemon's parameters, and on     *)
(* flash, once nothing is left to do, and so is what earlier ones set      *)
(* (endpoint_save writes the whole configuration back): as it was entered, *)
(* or as the escaping and the fields of the form leave such a value; but   *)
(* for a select of clips or a password that strayed since.                 *)
AckedSavesStick ==
  Quiet => \A p \in Param : acked[p] # Unknown =>
             store[p] = disk[p] /\ (store[p] \in Worn[p][acked[p]] \/ p \in strayed)

(* However the files were left by earlier requests and crashes, a save     *)
(* made when nothing is pending succeeds, if no crash meets it.            *)
QuietSaveSticks ==
  Quiet /\ clean => \A p \in last :
    /\ store[p] \in {Stripped[asked[p]], Stripped[Sent[p][asked[p]]]}
    /\ acked[p] = asked[p]

(* Every request of the page is answered, and the form reloaded.           *)
PageRecovers == []<>(ui = "idle")

(* A parameter only ever changes to what the operator last asked for it,   *)
(* or to what the escaping and its own field leave of that: no default of  *)
(* the CGI and no mask or stale value gets in through the files, nor any   *)
(* default of a field unless the value is one the field cannot hold.  Two  *)
(* kinds of fields do let others in: a select of clips that is sent before *)
(* its list was loaded, or after its choice changed behind it (app.js      *)
(* stores what it shows), and a password whose mask the CGI does not know. *)
OnlyAskedValues ==
  [][\A p \in Param : store'[p] # store[p] =>
       store'[p] \in Worn[p][asked[p]] \/ p \in strayed]_vars

(* "A concurrent CGI read can never see a half-written file"               *)
(* (write_config_file).                                                    *)
ReadersSeeWholeFile == cfg # NoFile => data[cfg] # Empty

(* What the page shows after the refresh that follows a save is what was   *)
(* saved (the reason write_save_file gives for writing CONFIG_FILE too),   *)
(* or what is left of it; a select of clips only after the next load of    *)
(* its list, from the choice kept beside it.                               *)
FormShowsSaved ==
  ui = "idle" => \A p \in Param \ (MaskedByUi \cup strayed) :
    acked[p] # Unknown =>
      (IF p \in ClipSelect THEN saved[p] ELSE form[p]) \in Worn[p][acked[p]]

(* Every acknowledged save of a value that fits reaches the flash, unless  *)
(* a later one replaces it, or a save of its section that strays.          *)
SavesReachFlash ==
  \A p \in Param :
    (acked[p] # Unknown /\ Fits(p, acked[p]) /\ p \notin strayed)
      ~> (disk[p] = acked[p] \/ acked[p] = Unknown \/ p \in strayed)
=============================================================================
