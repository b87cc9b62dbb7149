---------------------------- MODULE Installation ----------------------------
(***************************************************************************)
(* The files of ~/.config/longline and the processes that write and read   *)
(* them without a lock: `longline init` (src/cli.rs) writes the rules      *)
(* manifest, its includes and the judge's settings, each with fs::write;   *)
(* hooks load manifest and includes (src/config/rules.rs); the judge       *)
(* checks its settings file and repairs it by a rename                     *)
(* (src/ai_judge/settings.rs) before its provider reads it, later.         *)
(***************************************************************************)
EXTENDS Integers, Sequences, FiniteSets

CONSTANTS
  Inits,        \* runs of `longline init`, each of a version of its own
  Hooks,        \* hooks, each of which loads the rules once
  Judges,       \* runs of the judge that have claude among their providers
  NumIncludes,  \* the includes a whole manifest lists
  MaxLaunches,  \* bound: launches of claude in one run of the judge
  MaxEdits      \* bound: the user's edits of the settings file

ASSUME InstallationAssumption ==
  /\ "user" \notin Inits
  /\ NumIncludes \in Nat \ {0}
  /\ MaxLaunches \in Nat \ {0}
  /\ MaxEdits \in Nat

VARIABLES
  file,      \* the rules files: 0 is rules.yaml, 1..NumIncludes its includes
  settings,  \* what judge-claude-settings.json holds
  init,      \* the runs of init
  last,      \* history: the init that was the last to begin writing
  hook,      \* the hooks' loads
  judge,     \* the judges' runs
  edits      \* the user's edits so far

installVars == <<file, settings, init, last, hook, judge, edits>>

Manifest == 0
RulesFiles == 0..NumIncludes
SettingsFile == NumIncludes + 1
Versions == Inits \cup {"user"}

\* What a rules file holds: text of these versions, and is that one of them whole?
Absent == [from |-> {}, whole |-> TRUE]
Empty == [from |-> {}, whole |-> FALSE]
Whole(v) == [from |-> {v}, whole |-> TRUE]
Torn(f) == ~file[f].whole

\* What the settings file holds.  "unsafe" is all that content_is_safe rejects: what
\* does not parse, does not pin cleanupPeriodDays to 3650 at least, or has a key, or
\* the value of a type, that is_inert_and_safe does not know.
Settings == {"absent", "safe", "unsafe"}
ContentIsSafe(content) == content = "safe"

Loading(h) == hook[h].pc \in {"manifest", "includes"}
Writing(i) == init[i].pc \in {"open", "write"}

\* Bound: a load and a run of the judge share no file, so an execution has only one
\* of the two.
OnlyLoads == \A j \in Judges : judge[j].pc = "idle"
OnlyJudges == \A h \in Hooks : hook[h].pc = "idle"

InstallInit ==
  /\ \E installed \in BOOLEAN :
       file = [f \in RulesFiles |-> IF installed THEN Whole("user") ELSE Absent]
  /\ settings \in Settings
  /\ init = [i \in Inits |-> [pc |-> "idle", force |-> FALSE, at |-> Manifest,
                              held |-> FALSE, alone |-> TRUE]]
  /\ last = "user"
  /\ hook = [h \in Hooks |-> [pc |-> "idle", listed |-> NumIncludes, got |-> <<>>,
                              clean |-> TRUE]]
  /\ judge = [j \in Judges |-> [pc |-> "idle", tmp |-> "absent", launches |-> 0,
                                touched |-> FALSE, read |-> "none"]]
  /\ edits = 0

-----------------------------------------------------------------------------
(* longline init                                                           *)

\* run_init: refused if there is a manifest, unless forced; or the directory
\* cannot be made.
BeginInit(i, force) ==
  /\ init[i].pc = "idle"
  /\ \/ /\ file[Manifest] = Absent \/ force
        /\ init' = [k \in Inits |->
             CASE k = i -> [init[i] EXCEPT !.pc = "open", !.force = force,
                                           !.alone = ~\E m \in Inits : Writing(m)]
               [] k # i -> [init[k] EXCEPT !.alone = @ /\ ~Writing(k)]]
        /\ last' = i
     \/ /\ init' = [init EXCEPT ![i].pc = "refused"]
        /\ UNCHANGED last
  /\ UNCHANGED <<file, settings, hook, judge, edits>>

\* History: a rules file is being written while these hooks load theirs.
Disturbed == [h \in Hooks |-> [hook[h] EXCEPT !.clean = @ /\ ~Loading(h)]]

\* Mutated: fs::write without the truncation.
OpenInPlace(i) ==
  /\ init[i].pc = "open" /\ init[i].at \in RulesFiles
  /\ init' = [init EXCEPT ![i].pc = "write"]
  /\ hook' = Disturbed
  /\ UNCHANGED <<file, settings, last, judge, edits>>

\* fs::write opens a rules file, which empties it, ...
OpenRules(i) ==
  /\ init[i].pc = "open" /\ init[i].at \in RulesFiles
  /\ file' = [file EXCEPT ![init[i].at] = Empty]
  /\ init' = [init EXCEPT ![i].pc = "write"]
  /\ hook' = Disturbed
  /\ UNCHANGED <<settings, last, judge, edits>>

\* ... and writes it, at once or in two parts.  Each writer starts at offset 0, so
\* where two of them write one file, what is longer shows behind what is shorter.
WriteRules(i) ==
  /\ init[i].pc = "write" /\ init[i].at \in RulesFiles
  /\ LET f == init[i].at IN
     \/ /\ file[f] = Empty
        /\ file' = [file EXCEPT ![f].from = {i}]
        /\ UNCHANGED init
     \/ /\ \/ file' = [file EXCEPT ![f] = Whole(i)]
           \/ /\ ~(file[f].from \subseteq {i})
              /\ file' = [file EXCEPT ![f] = [from |-> @.from \cup {i}, whole |-> FALSE]]
        /\ init' = [init EXCEPT ![i].pc = "open", ![i].at = f + 1]
  /\ hook' = Disturbed
  /\ UNCHANGED <<settings, last, judge, edits>>

\* The settings file is written if it does not exist, or if init is forced.
OpenSettings(i) ==
  /\ init[i].pc = "open" /\ init[i].at = SettingsFile
  /\ IF settings = "absent" \/ init[i].force
     THEN /\ settings' = "unsafe"
          /\ init' = [init EXCEPT ![i].pc = "write", ![i].held = TRUE]
          /\ judge' = [j \in Judges |-> [judge[j] EXCEPT !.touched = TRUE]]
     ELSE /\ init' = [init EXCEPT ![i].pc = "done"]
          /\ UNCHANGED <<settings, judge>>
  /\ UNCHANGED <<file, last, hook, edits>>

\* What is written goes to the file that was opened, which a judge may have
\* replaced by another one of that name.
WriteSettings(i) ==
  /\ init[i].pc = "write" /\ init[i].at = SettingsFile
  /\ settings' = IF init[i].held THEN "safe" ELSE settings
  /\ init' = [init EXCEPT ![i].pc = "done"]
  /\ UNCHANGED <<file, last, hook, judge, edits>>

\* A file cannot be opened, or the disk is full, and init returns; or it is killed.
InterruptInit(i) ==
  /\ Writing(i)
  /\ init' = [init EXCEPT ![i].pc = "interrupted"]
  /\ UNCHANGED <<file, settings, last, hook, judge, edits>>

-----------------------------------------------------------------------------
(* A hook loads its rules.                                                 *)

\* load_config: the embedded rules, if there is no manifest.
BeginLoad(h) ==
  /\ hook[h].pc = "idle" /\ OnlyLoads
  /\ hook' = [hook EXCEPT
       ![h].pc = IF file[Manifest] = Absent THEN "embedded" ELSE "manifest",
       ![h].clean = \A f \in RulesFiles : file[f].whole]
  /\ UNCHANGED <<file, settings, init, last, judge, edits>>

\* load_rules: an empty manifest has no version, an error.  A torn one may be one,
\* or it lists fewer includes: none, if it ends before `include:` and so is taken
\* for a file of rules that has no rules.
ReadManifest(h) ==
  /\ hook[h].pc = "manifest"
  /\ \/ /\ Torn(Manifest)
        /\ hook' = [hook EXCEPT ![h].pc = "failed"]
     \/ \E n \in 0..NumIncludes :
          /\ IF Torn(Manifest) THEN file[Manifest] # Empty ELSE n = NumIncludes
          /\ hook' = [hook EXCEPT ![h].pc = "includes", ![h].listed = n]
  /\ UNCHANGED <<file, settings, init, last, judge, edits>>

NextInclude(h) == Len(hook[h].got) + 1

\* Mutated: an include that is not there is left out.
ReadIncludeIfThere(h) ==
  /\ hook[h].pc = "includes" /\ NextInclude(h) <= hook[h].listed
  /\ hook' = [hook EXCEPT ![h].got = Append(@, file[NextInclude(h)])]
  /\ UNCHANGED <<file, settings, init, last, judge, edits>>

\* load_rules_manifest: every include the manifest lists, or an error.  A torn one
\* may be an error, or what is there of it is taken for the whole.
ReadInclude(h) ==
  /\ hook[h].pc = "includes" /\ NextInclude(h) <= hook[h].listed
  /\ LET f == NextInclude(h) IN
     \/ /\ file[f] = Absent \/ Torn(f)
        /\ hook' = [hook EXCEPT ![h].pc = "failed"]
     \/ /\ file[f] # Absent
        /\ hook' = [hook EXCEPT ![h].got = Append(@, file[f])]
  /\ UNCHANGED <<file, settings, init, last, judge, edits>>

EndLoad(h) ==
  /\ hook[h].pc = "includes" /\ NextInclude(h) > hook[h].listed
  /\ hook' = [hook EXCEPT ![h].pc = "loaded"]
  /\ UNCHANGED <<file, settings, init, last, judge, edits>>

-----------------------------------------------------------------------------
(* A run of the judge.                                                     *)

\* Mutated: a settings file that cannot be read is not looked at.
CheckSettingsIfThere(j) ==
  /\ judge[j].pc = "idle" /\ OnlyJudges
  /\ judge' = [judge EXCEPT ![j].touched = FALSE,
       ![j].pc = IF settings # "unsafe" THEN "ready" ELSE "create"]
  /\ UNCHANGED <<file, settings, init, last, hook, edits>>

\* ensure_settings_file: what is there is good, or it is to be written anew.
CheckSettings(j) ==
  /\ judge[j].pc = "idle" /\ OnlyJudges
  /\ judge' = [judge EXCEPT ![j].touched = FALSE,
       ![j].pc = IF ContentIsSafe(settings) THEN "ready" ELSE "create"]
  /\ UNCHANGED <<file, settings, init, last, hook, edits>>

\* atomic_write: a temporary file of this process in the same directory ...
CreateTemp(j) ==
  /\ judge[j].pc = "create"
  /\ judge' = [judge EXCEPT ![j].pc = "fill", ![j].tmp = "unsafe"]
  /\ UNCHANGED <<file, settings, init, last, hook, edits>>

FillTemp(j) ==
  /\ judge[j].pc = "fill"
  /\ judge' = [judge EXCEPT ![j].pc = "rename", ![j].tmp = "safe"]
  /\ UNCHANGED <<file, settings, init, last, hook, edits>>

\* ... takes the name: who holds the old file open writes to no name any more.
Rename(j) ==
  /\ judge[j].pc = "rename"
  /\ settings' = judge[j].tmp
  /\ judge' = [judge EXCEPT ![j].pc = "ready", ![j].tmp = "absent", ![j].touched = FALSE]
  /\ init' = [i \in Inits |-> [init[i] EXCEPT !.held = FALSE]]
  /\ UNCHANGED <<file, last, hook, edits>>

\* An error in any of these: `--settings` and its path are dropped, and the
\* temporary file stays if it was made.
GiveUpSettings(j) ==
  /\ judge[j].pc \in {"create", "fill", "rename"}
  /\ judge' = [judge EXCEPT ![j].pc = "unavailable"]
  /\ UNCHANGED <<file, settings, init, last, hook, edits>>

\* run: claude is launched as the hedge, and again, seconds later.
LaunchClaude(j) ==
  /\ judge[j].pc \in {"ready", "unavailable"} /\ judge[j].launches < MaxLaunches
  /\ judge' = [judge EXCEPT ![j].launches = @ + 1,
       ![j].read = IF judge[j].pc = "ready" THEN settings ELSE "none"]
  /\ UNCHANGED <<file, settings, init, last, hook, edits>>

\* The runtime's timeout on the hook: what it has written stays.
KillJudge(j) ==
  /\ judge[j].pc \notin {"idle", "killed"}
  /\ judge' = [judge EXCEPT ![j].pc = "killed"]
  /\ UNCHANGED <<file, settings, init, last, hook, edits>>

\* The user writes the settings file, or removes it.
EditSettings(content) ==
  /\ edits < MaxEdits /\ OnlyJudges /\ content # settings
  /\ settings' = content
  /\ init' = [i \in Inits |-> [init[i] EXCEPT !.held = FALSE]]
  /\ judge' = [j \in Judges |-> [judge[j] EXCEPT !.touched = TRUE]]
  /\ edits' = edits + 1
  /\ UNCHANGED <<file, last, hook>>

-----------------------------------------------------------------------------
InstallNext ==
  \/ \E i \in Inits :
       \/ \E force \in BOOLEAN : BeginInit(i, force)
       \/ OpenRules(i) \/ WriteRules(i) \/ OpenSettings(i) \/ WriteSettings(i)
       \/ InterruptInit(i)
  \/ \E h \in Hooks : BeginLoad(h) \/ ReadManifest(h) \/ ReadInclude(h) \/ EndLoad(h)
  \/ \E j \in Judges :
       \/ CheckSettings(j) \/ CreateTemp(j) \/ FillTemp(j) \/ Rename(j)
       \/ GiveUpSettings(j) \/ LaunchClaude(j) \/ KillJudge(j)
  \/ \E content \in Settings : EditSettings(content)

InstallSpec == InstallInit /\ [][InstallNext]_installVars

-----------------------------------------------------------------------------
InstallTypeOK ==
  /\ file \in [RulesFiles -> [from : SUBSET Versions, whole : BOOLEAN]]
  /\ settings \in Settings
  /\ init \in [Inits -> [pc : {"idle", "refused", "open", "write", "interrupted", "done"},
                         force : BOOLEAN, at : 0..SettingsFile, held : BOOLEAN,
                         alone : BOOLEAN]]
  /\ last \in Versions
  /\ \A h \in Hooks :
       /\ hook[h].pc \in {"idle", "embedded", "manifest", "includes", "loaded", "failed"}
       /\ Len(hook[h].got) <= hook[h].listed /\ hook[h].listed \in 0..NumIncludes
       /\ hook[h].clean \in BOOLEAN
  /\ judge \in [Judges -> [pc : {"idle", "create", "fill", "rename", "ready",
                                 "unavailable", "killed"},
                           tmp : {"absent", "unsafe", "safe"}, launches : 0..MaxLaunches,
                           touched : BOOLEAN, read : Settings \cup {"none"}]]
  /\ edits \in 0..MaxEdits

\* A hook that loads its rules has loaded all of them: every include, and each one
\* whole, unless an init was writing meanwhile or had left a file torn.  So an
\* init killed after the manifest, whose includes are missing, makes the load fail.
LoadsAreWhole ==
  \A h \in Hooks : hook[h].pc = "loaded" /\ hook[h].clean =>
    /\ Len(hook[h].got) = NumIncludes
    /\ \A n \in 1..NumIncludes : hook[h].got[n].whole /\ hook[h].got[n] # Absent

\* An init that completes, and during which no other one was writing, has installed
\* its own version of every file, whatever inits before it have left behind.
InitIsWhole ==
  \A i \in Inits : init[i].pc = "done" /\ init[i].alone /\ last = i =>
    \A f \in RulesFiles : file[f] = Whole(i)

\* Claude is never launched with a settings file that does not pin what it must,
\* unless an init or the user has written the file after the judge had checked it;
\* and not at all with one if the judge could not put a good one there.
SettingsAreSafe ==
  \A j \in Judges : judge[j].read = "none" \/ judge[j].touched \/ ContentIsSafe(judge[j].read)
=============================================================================
