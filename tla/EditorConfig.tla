---------------------------- MODULE EditorConfig ----------------------------
(***************************************************************************)
(* Setup and uninstall on the configuration of an editor, while the editor *)
(* or its user may write the same file.                                    *)
(*                                                                         *)
(* Setup reads the file, puts its server entry into what it read, copies   *)
(* the file aside and renames the new text over it, on Windows after it    *)
(* removed the file; uninstall reads it, takes the entries out and writes  *)
(* it in place.  A text that does not parse stops setup, or is moved aside *)
(* when it may be overwritten.                                             *)
(*                                                                         *)
(* A text is the number of the edit it comes from, whether it parses, and  *)
(* the entries under the key of this program and under its former one.     *)
(* An I/O error and what Claude Code does to its own file on request are   *)
(* left out.                                                               *)
(***************************************************************************)
EXTENDS Naturals, FiniteSets

CONSTANTS
  Installers,     \* processes that run setup or uninstall
  MaxConfigEdits  \* bound: what the user and the editor write

ASSUME EditorAssumption == MaxConfigEdits \in Nat

VARIABLES
  config,      \* the file; without one its form is "absent"
  backup,      \* <file>.nebu-ctx.bak
  setAside,    \* the edits whose text was moved aside as invalid
  format,      \* how the editor is configured
  installer,   \* the control state of each process
  text,        \* what each process is to write
  configEdits,
  atRisk       \* history: the edits a process may have written over unread

editorVars == <<config, backup, setAside, format, installer, text, configEdits, atRisk>>

\* json stands for Crush too, gemini for Zed and Amp.
Formats == {"json", "gemini", "opencode", "jetbrains", "toml", "yaml"}
ServerEntry == {"none", "ours", "other"}
Text == [edit : 0..MaxConfigEdits, form : {"absent", "broken", "whole"},
         nebu : ServerEntry, legacy : ServerEntry]
NoText == [edit |-> 0, form |-> "absent", nebu |-> "none", legacy |-> "none"]
Fresh == [NoText EXCEPT !.form = "whole", !.nebu = "ours"]

EditorInit ==
  /\ config = NoText /\ backup = NoText /\ setAside = {}
  /\ format \in Formats
  /\ installer = [p \in Installers |-> "idle"] /\ text = [p \in Installers |-> NoText]
  /\ configEdits = 0 /\ atRisk = {}

InstallerGoes(p, step) == installer' = [installer EXCEPT ![p] = step]
WillWrite(p, t) == text' = [text EXCEPT ![p] = t]
AtWork == \E p \in Installers : installer[p] # "idle"

\* A process begins while another is at work, or finds no file where there was one.
Begins(p) ==
  /\ installer[p] = "idle"
  /\ atRisk' = IF AtWork \/ config.form = "absent" THEN atRisk \union {configEdits} ELSE atRisk

\* The user or the editor writes the file, whatever a process is about to write.
EditConfig ==
  /\ configEdits < MaxConfigEdits /\ configEdits' = configEdits + 1
  /\ config' \in [edit : {configEdits'}, form : {"broken", "whole"}, nebu : {config.nebu, "other"},
                  legacy : ServerEntry]
  /\ atRisk' = IF AtWork THEN atRisk \union {configEdits'} ELSE atRisk
  /\ UNCHANGED <<backup, setAside, format, installer, text>>

(***************************************************************************)
(* Setup.                                                                  *)
(***************************************************************************)

\* Text without structure is not parsed.
Parses(t) == t.form # "broken" \/ format \in {"toml", "yaml"}

\* Nothing is to be done: under Gemini also when the former entry is the one wanted, for
\* JetBrains as soon as there is any entry, in YAML as soon as either name occurs.
Already(t) ==
  CASE format = "json"      -> t.nebu = "ours" /\ t.legacy = "none"
    [] format = "gemini"    -> t.nebu = "ours" \/ (t.nebu = "none" /\ t.legacy = "ours")
    [] format = "jetbrains" -> t.nebu # "none"
    [] format = "yaml"      -> t.nebu # "none" \/ t.legacy # "none"
    [] OTHER                -> t.nebu = "ours"

\* The former entry goes where it is looked for.
Upserted(t) ==
  [t EXCEPT !.form = "whole", !.nebu = "ours",
            !.legacy = IF format \in {"json", "opencode"} THEN "none" ELSE @]

ReadForSetup(p) ==
  /\ Begins(p) /\ Parses(config) /\ ~Already(config)
  /\ WillWrite(p, Upserted(config)) /\ InstallerGoes(p, "copy")
  /\ UNCHANGED <<config, backup, setAside, format, configEdits>>

\* Mutant: an invalid file is overwritten where it is.
MutSetInvalidAside(p) ==
  /\ Begins(p) /\ ~Parses(config)
  /\ config' = NoText
  /\ WillWrite(p, Fresh) /\ InstallerGoes(p, "copy")
  /\ UNCHANGED <<backup, setAside, format, configEdits>>

\* overwrite_invalid: backup_invalid_file gives each text a name of its own.
SetInvalidAside(p) ==
  /\ Begins(p) /\ ~Parses(config)
  /\ setAside' = setAside \union {config.edit} /\ config' = NoText
  /\ WillWrite(p, Fresh) /\ InstallerGoes(p, "copy")
  /\ UNCHANGED <<backup, format, configEdits>>

\* write_atomic_with_backup
CopyAside(p) ==
  /\ installer[p] = "copy" /\ InstallerGoes(p, "rename")
  /\ backup' = IF config.form = "absent" THEN backup ELSE config
  /\ UNCHANGED <<config, setAside, format, text, configEdits, atRisk>>

\* On Windows the file goes first; a process that dies now leaves the copy only.
RemoveTarget(p) ==
  /\ installer[p] = "rename" /\ config.form # "absent" /\ InstallerGoes(p, "removed")
  /\ config' = NoText
  /\ UNCHANGED <<backup, setAside, format, text, configEdits, atRisk>>

\* Another process may still be about to write what it read before.
Replace(p) ==
  /\ installer[p] \in {"rename", "removed"} /\ InstallerGoes(p, "idle")
  /\ config' = text[p] /\ WillWrite(p, NoText)
  /\ UNCHANGED <<backup, setAside, format, configEdits, atRisk>>

(***************************************************************************)
(* Uninstall.                                                              *)
(***************************************************************************)

\* The name occurs in the file: as the key, or elsewhere in what the user wrote.
Mentions(t) == t.nebu # "none" \/ t.edit # 0

\* TOML and YAML are written whether or not they have the entry, and keep the former one.
ReadForUninstall(p) ==
  /\ Begins(p) /\ Parses(config) /\ Mentions(config)
  /\ format \in {"toml", "yaml"} \/ config.nebu # "none" \/ config.legacy # "none"
  /\ WillWrite(p, [config EXCEPT !.nebu = "none",
                                 !.legacy = IF format \in {"toml", "yaml"} THEN @ ELSE "none"])
  /\ InstallerGoes(p, "cut")
  /\ UNCHANGED <<config, backup, setAside, format, configEdits>>

\* fs::write empties the file; a process that dies now leaves nothing.
CutConfig(p) ==
  /\ installer[p] = "cut" /\ InstallerGoes(p, "fill")
  /\ config' = [NoText EXCEPT !.form = "broken"]
  /\ UNCHANGED <<backup, setAside, format, text, configEdits, atRisk>>

FillConfig(p) ==
  /\ installer[p] = "fill" /\ InstallerGoes(p, "idle")
  /\ config' = text[p] /\ WillWrite(p, NoText)
  /\ UNCHANGED <<backup, setAside, format, configEdits, atRisk>>

KillInstaller(p) ==
  /\ installer[p] # "idle" /\ InstallerGoes(p, "idle")
  /\ atRisk' = IF installer[p] = "fill" THEN atRisk \union {text[p].edit} ELSE atRisk
  /\ WillWrite(p, NoText)
  /\ UNCHANGED <<config, backup, setAside, format, configEdits>>

InstallerStep(p) ==
  \/ ReadForSetup(p) \/ SetInvalidAside(p) \/ CopyAside(p) \/ RemoveTarget(p) \/ Replace(p)
  \/ ReadForUninstall(p) \/ CutConfig(p) \/ FillConfig(p) \/ KillInstaller(p)

EditorNext == EditConfig \/ \E p \in Installers : InstallerStep(p)

EditorSpec == EditorInit /\ [][EditorNext]_editorVars

(***************************************************************************)
(* Properties.                                                             *)
(***************************************************************************)

EditorTypeOK ==
  /\ {config, backup} \subseteq Text /\ setAside \subseteq 0..MaxConfigEdits /\ format \in Formats
  /\ installer \in [Installers -> {"idle", "copy", "rename", "removed", "cut", "fill"}]
  /\ text \in [Installers -> Text]
  /\ configEdits \in 0..MaxConfigEdits /\ atRisk \subseteq 0..MaxConfigEdits

\* What was written to the file last is in it, in a copy, or about to be put back: a setup
\* that dies between removing the file and replacing it leaves it in .nebu-ctx.bak.  That
\* is unless it was written while setup or uninstall was at work, two of them were,
\* uninstall was killed in its write, or setup came anew and found no file
\* (write_atomic_with_backup, backup_invalid_file, remove_mcp_configs).
LastEditIsKept ==
  configEdits \in atRisk \union {config.edit} \union setAside
                         \union (IF config.form = "absent" THEN {backup.edit} ELSE {})
                         \union {text[p].edit : p \in {q \in Installers : installer[q] = "fill"}}
=============================================================================
