---------------------------- MODULE MCConfigStore ----------------------------
(***************************************************************************)
(* Small instances of ConfigStore: a number, a template, a password that   *)
(* form and CGI mask and one that only the form does, and a select of      *)
(* clips, in two sections of the form.                                     *)
(***************************************************************************)
EXTENDS ConfigStore

CONSTANTS cooldown, template, pass, d4200, clip, d, a, b, long, lines, cut

MCFields == <<cooldown, pass, template, d4200, clip>>
MCValue  == {d, a, b, long, lines, cut, Mask, Blank, Disabled}

MCDefault == [p \in Param |-> d]
MCInitial == {[p \in Param |-> a]}
MCSection == {{cooldown, pass}, {template, d4200, clip}}

(* Values that survive json_esc, a long one and one of two lines.          *)
KeepsAll == [v \in Value |-> v]
Shortens == [v \in Value |-> IF v \in {long, lines} THEN cut ELSE v]
Strips   == [v \in Value |-> IF v = lines THEN cut ELSE v]

(* An empty number is sent as its field's default.                         *)
AsItIs  == [p \in Param |-> KeepsAll]
MCSent  == [p \in Param |-> IF p = cooldown THEN [KeepsAll EXCEPT ![Blank] = d] ELSE KeepsAll]

MCEdits ==
  [p \in Param |-> CASE p = cooldown -> {b, Blank}
                     [] p = template -> {long, lines}
                     [] OTHER -> {b}]

(* A full configuration of another camera.                                 *)
MCImports ==
  {[p \in Param |-> CASE p \in {cooldown, pass} -> Blank [] p = template -> lines [] OTHER -> b]}

MCClipLists == {{}, {a, b}}

(* As little data as the races need.                                       *)
OneField   == <<cooldown>>
OneSection == {{cooldown}}
OneEdit    == [p \in Param |-> {a, b}]
=============================================================================
