------------------------------ MODULE Keystore ------------------------------
(***************************************************************************)
(* The encrypted key file and the commands that change it (keystore.py;     *)
(* cli.cmd_init, cmd_add_hd, cmd_add_raw, cmd_show_seed, _load_mnemonic).   *)
(* A run loads the whole file, waits for a secret to be typed, and writes   *)
(* the whole file back through a temporary one.  Nothing locks the file, so *)
(* runs in two terminals overlap; a run can be killed at any step, a write  *)
(* can fail, and the machine can lose power.                                *)
(***************************************************************************)
EXTENDS Integers, FiniteSets

CONSTANTS
    Runs,     \* the invocations of the program
    Labels,
    Cmds,     \* "init", "force" (init --force), "add", "read"
    Files     \* the key files a user may have at first

VARIABLES
    file,    \* what the path names
    older,   \* what it may name again after a power loss: renames not yet on disk
    tmp,     \* each run's temporary file
    run,     \* where each run is
    copy,    \* the keystore each run holds in memory
    saves,   \* (history) how many times the file was replaced
    first,   \* (history) the entries there were at first
    born,    \* (history) [entry -> the save it came, or came back, with]
    dropped, \* (history) entries a run's save took out of the file
    warned   \* (history) entries whose passphrase a run said it drops

vars == <<file, older, tmp, run, copy, saves, first, born, dropped, warned>>

\* An entry: its label, the run that added it ("before" for those already
\* there), and whether it has a BIP-39 passphrase.
Entry   == [label : Labels, by : Runs \cup {"before"}, pass : BOOLEAN]
Content == [version : {1, 2}, entries : SUBSET Entry, whole : BOOLEAN]
Missing == [version |-> 0, entries |-> {}, whole |-> TRUE]

\* The files of both versions a wallet may already have.
ASSUME KeystoreAssumption ==
    /\ Cmds \subseteq {"init", "force", "add", "read"}
    /\ "before" \notin Runs
    /\ \A f \in Files : /\ f \in Content \cup {Missing} /\ f.whole
                        /\ \A e, g \in f.entries : e.label = g.label => e = g
                        /\ \A e \in f.entries : e.by = "before"

LabelsOf(S) == {e.label : e \in S}
Unique(S)   == \A e, f \in S : e.label = f.label => e = f

Init ==
    /\ file \in Files /\ first = file.entries
    /\ older = {}
    /\ tmp = [r \in Runs |-> "none"]
    /\ run \in [Runs -> [cmd : Cmds, stage : {"start"}, label : Labels,
                         pass : BOOLEAN, began : {0}]]
    \* Only an add has a label and a passphrase of its own.
    /\ \A r \in Runs : run[r].cmd # "add" =>
          ~ run[r].pass /\ run[r].label = CHOOSE l \in Labels : TRUE
    /\ copy = [r \in Runs |-> {}]
    /\ saves = 0 /\ born = [e \in file.entries |-> 0]
    /\ dropped = {} /\ warned = {}

Goto(r, s)  == run' = [run EXCEPT ![r].stage = s]
Enter(r, s) == run' = [run EXCEPT ![r].stage = s, ![r].began = saves]

-----------------------------------------------------------------------------
\* Faulty: init overwrites whatever is there.
NeverRefuses(r) == FALSE

\* cmd_init refuses a path that exists, unless forced.
InitRefuses(r) == file # Missing /\ run[r].cmd # "force"

\* cmd_init: the path is looked at, then a passphrase is asked for, twice.
CheckPath(r) ==
    /\ run[r].stage = "start" /\ run[r].cmd \in {"init", "force"}
    /\ Enter(r, IF InitRefuses(r) THEN "refused" ELSE "saving")
    /\ UNCHANGED <<file, older, tmp, copy, saves, first, born, dropped, warned>>

\* Faulty: passphrases are stripped whatever the version.
StripsAlways(e) == [e EXCEPT !.pass = FALSE]

\* Keystore.load: a version 1 file never used its passphrases; they are
\* dropped from the copy, and the command says so.
Loaded(e) == IF file.version < 2 THEN [e EXCEPT !.pass = FALSE] ELSE e

\* _load_keystore, for every command that needs a key.  A file that is not
\* there, is not whole, or does not open under the passphrase ends the run.
Load(r) ==
    /\ run[r].stage = "start" /\ run[r].cmd \in {"add", "read"}
    /\ \/ /\ file # Missing /\ file.whole
          /\ copy' = [copy EXCEPT ![r] = {Loaded(e) : e \in file.entries}]
          /\ warned' = warned \cup
                {<<e, r>> : e \in {f \in file.entries : file.version < 2 /\ f.pass}}
          /\ Enter(r, IF run[r].cmd = "add" THEN "typing" ELSE "done")
       \/ /\ Enter(r, "failed")
          /\ UNCHANGED <<copy, warned>>
    /\ UNCHANGED <<file, older, tmp, saves, first, born, dropped>>

\* The secret is typed or generated; add_hd and add_raw refuse a label the
\* copy already has.
AddEntry(r) ==
    /\ run[r].stage = "typing"
    /\ IF run[r].label \in LabelsOf(copy[r])
       THEN Goto(r, "failed") /\ UNCHANGED copy
       ELSE /\ Goto(r, "saving")
            /\ copy' = [copy EXCEPT ![r] = @ \cup
                  {[label |-> run[r].label, by |-> r, pass |-> run[r].pass]}]
    /\ UNCHANGED <<file, older, tmp, saves, first, born, dropped, warned>>

-----------------------------------------------------------------------------
\* _atomic_write, step by step: a temporary file beside the target ...
Write(r) ==
    /\ run[r].stage = "saving"
    /\ \/ tmp[r] = "none" /\ tmp' = [tmp EXCEPT ![r] = "partial"]
       \/ tmp[r] = "partial" /\ tmp' = [tmp EXCEPT ![r] = "written"]
       \/ tmp[r] = "written" /\ tmp' = [tmp EXCEPT ![r] = "synced"]
    /\ UNCHANGED <<file, older, run, copy, saves, first, born, dropped, warned>>

\* (history) What the file did not hold comes with this change of it.
Reborn(entries) == [e \in DOMAIN born \cup entries |->
                      IF e \in entries \ file.entries THEN saves + 1 ELSE born[e]]

\* Faulty: the file is renamed as soon as it is written.
WithoutSync(r) == tmp[r] \in {"written", "synced"}

\* ... that is written and synced ...
ReadyToReplace(r) == tmp[r] = "synced"

\* ... replaces it; the rename itself reaches the disk later.
Replace(r) ==
    /\ run[r].stage = "saving" /\ ReadyToReplace(r)
    /\ file' = [version |-> 2, entries |-> copy[r], whole |-> TRUE]
    \* What a power loss may leave: an older file, or this one if it was not
    \* synced, in part.
    /\ older' = older \cup {file}
          \cup (IF tmp[r] = "synced" THEN {} ELSE {[file' EXCEPT !.whole = FALSE]})
    /\ tmp' = [tmp EXCEPT ![r] = "none"]
    /\ saves' = saves + 1
    /\ born' = Reborn(copy[r])
    /\ dropped' = dropped \cup
          {<<e, r>> : e \in {f \in file.entries :
                               \A c \in copy[r] : <<c.label, c.by>> # <<f.label, f.by>>}}
    /\ Goto(r, "done")
    /\ UNCHANGED <<copy, first, warned>>

\* A full disk or ^C: the temporary file is unlinked and the error is raised.
WriteFails(r) ==
    /\ run[r].stage \in {"typing", "saving"}
    /\ tmp' = [tmp EXCEPT ![r] = "none"]
    /\ Goto(r, "failed")
    /\ UNCHANGED <<file, older, copy, saves, first, born, dropped, warned>>

\* The process is killed: its temporary file stays behind.
Kill(r) ==
    /\ run[r].stage \in {"typing", "saving"}
    /\ Goto(r, "killed")
    /\ UNCHANGED <<file, older, tmp, copy, saves, first, born, dropped, warned>>

\* The system writes its renames back.
Flush ==
    /\ older # {}
    /\ older' = {}
    /\ UNCHANGED <<file, tmp, run, copy, saves, first, born, dropped, warned>>

PowerLoss ==
    /\ older # {} \/ \E r \in Runs : run[r].stage \in {"typing", "saving"}
    /\ file' \in {file} \cup older
    /\ older' = {}
    /\ saves' = saves + 1 /\ born' = Reborn(file'.entries)
    /\ run' = [r \in Runs |-> IF run[r].stage \in {"typing", "saving"}
                              THEN [run[r] EXCEPT !.stage = "killed"] ELSE run[r]]
    /\ UNCHANGED <<tmp, copy, first, dropped, warned>>

Command(r) == \/ CheckPath(r) \/ Load(r) \/ AddEntry(r)
              \/ Write(r) \/ Replace(r) \/ WriteFails(r) \/ Kill(r)

Next == (\E r \in Runs : Command(r)) \/ Flush \/ PowerLoss
Spec == Init /\ [][Next]_vars

-----------------------------------------------------------------------------
\* A crash, a full disk, ^C or a power loss at any step leaves a whole
\* keystore, the old one or the new one, with one entry a label
\* (_atomic_write).
FileIsWhole == /\ file.whole /\ \A f \in older : f.whole
               /\ Unique(file.entries)

\* A save takes an entry out of the file only if it is forced to, or if the
\* entry came while the run was between its look at the file and its save: a
\* run that overlaps no other loses nothing (cmd_init, cmd_add_hd, cmd_add_raw).
LostOnlyInARace ==
    \A d \in dropped :
        run[d[2]].cmd = "force" \/ born[d[1]] > run[d[2]].began

\* A passphrase that was used is never lost: an entry keeps the one it was
\* added with through every later load and save, and one that disappears was a
\* version 1 entry's, which the run that dropped it, or one before, had said
\* (Keystore.load, _load_keystore).
PassphraseKept ==
    \A e \in file.entries :
        /\ e.by # "before" => e.pass = run[e.by].pass
        /\ e.by = "before" /\ ~ e.pass =>
              \/ e \in first
              \/ \E r \in Runs : <<[e EXCEPT !.pass = TRUE], r>> \in warned
=============================================================================
