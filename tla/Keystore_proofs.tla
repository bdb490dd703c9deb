--------------------------- MODULE Keystore_proofs ---------------------------
(***************************************************************************)
(* What holds of Keystore for any number of overlapping runs, any labels    *)
(* and any files a user may have at first.                                  *)
(***************************************************************************)
EXTENDS Keystore, TLAPS

Stage == {"start", "refused", "typing", "saving", "failed", "done", "killed"}
Run   == [cmd : Cmds, stage : Stage, label : Labels, pass : BOOLEAN, began : Nat]
Good  == [version : {0, 1, 2}, entries : SUBSET Entry, whole : BOOLEAN]

\* Everything a run has at hand, a power loss can bring back, or the path names
\* is made of entries.
TypeInv ==
    /\ file \in Good /\ older \subseteq Good
    /\ run \in [Runs -> Run]
    /\ copy \in [Runs -> SUBSET Entry]
    /\ tmp \in [Runs -> {"none", "partial", "written", "synced"}]
    /\ saves \in Nat

\* The invariant behind FileIsWhole: every file that can come to be named by
\* the path, and every copy that can be saved to it, has one entry a label.
WholeInv ==
    /\ TypeInv
    /\ file.whole /\ Unique(file.entries)
    /\ \A f \in older : f.whole /\ Unique(f.entries)
    /\ \A r \in Runs : Unique(copy[r])

USE DEF Good

-----------------------------------------------------------------------------
\* A version 1 entry loses its passphrase and nothing else (Keystore.load).
LEMMA LoadedKeeps ==
    ASSUME NEW e \in Entry
    PROVE  /\ Loaded(e) \in Entry
           /\ Loaded(e).label = e.label /\ Loaded(e).by = e.by
           /\ Loaded(e).pass => e.pass
  BY DEF Loaded, Entry

\* The files the user may have at first are good ones.
LEMMA FirstFiles ==
    ASSUME NEW f \in Files
    PROVE  f \in Good /\ f.whole /\ Unique(f.entries)
<1>1. f \in Content \cup {Missing} /\ f.whole
  BY KeystoreAssumption
<1>2. \A e, g \in f.entries : e.label = g.label => e = g
  BY KeystoreAssumption
<1>3. f \in Good
  <2>1. CASE f = Missing
    BY <2>1 DEF Missing
  <2>2. CASE f \in Content
    <3>1. f = [version |-> f.version, entries |-> f.entries, whole |-> f.whole]
          /\ f.version \in {1, 2} /\ f.entries \in SUBSET Entry
          /\ f.whole \in BOOLEAN
      BY <2>2 DEF Content
    <3> QED
      BY <3>1
  <2> QED
    BY <1>1, <2>1, <2>2
<1> QED
  BY <1>1, <1>2, <1>3 DEF Unique

\* Where a run goes, and what it remembers of the file's state.
LEMMA StepTypes ==
    ASSUME TypeInv, NEW r \in Runs, NEW s \in Stage, Goto(r, s) \/ Enter(r, s)
    PROVE  run' \in [Runs -> Run]
<1>1. CASE Goto(r, s)
  <2>1. run' = [run EXCEPT ![r] = [run[r] EXCEPT !.stage = s]]
    BY <1>1 DEF Goto
  <2>2. [run[r] EXCEPT !.stage = s] \in Run
    BY DEF TypeInv, Run
  <2> QED
    BY <2>1, <2>2 DEF TypeInv
<1>2. CASE Enter(r, s)
  <2>1. run' = [run EXCEPT ![r] = [run[r] EXCEPT !.stage = s, !.began = saves]]
    BY <1>2 DEF Enter
  <2>2. [run[r] EXCEPT !.stage = s, !.began = saves] \in Run
    <3>1. run[r] \in Run /\ saves \in Nat
      BY DEF TypeInv
    <3>2. [run[r] EXCEPT !.stage = s] \in Run
      BY <3>1 DEF Run
    <3> QED
      BY <3>1, <3>2 DEF Run
  <2> QED
    BY <2>1, <2>2 DEF TypeInv
<1> QED
  BY <1>1, <1>2

\* Every step of every run keeps the types.
LEMMA TypeInvInit == Init => TypeInv
<1> SUFFICES ASSUME Init PROVE TypeInv
  OBVIOUS
<1>1. file \in Good
  BY FirstFiles DEF Init
<1>2. run \in [Runs -> Run]
  BY DEF Init, Run, Stage
<1> QED
  BY <1>1, <1>2 DEF Init, TypeInv

\* ... and none of them, nor a power loss, leaves them.
LEMMA TypeInvNext == TypeInv /\ [Next]_vars => TypeInv'
<1> SUFFICES ASSUME TypeInv, [Next]_vars PROVE TypeInv'
  OBVIOUS
<1> USE DEF TypeInv
<1>1. ASSUME NEW r \in Runs, CheckPath(r) PROVE TypeInv'
  <2>1. run' \in [Runs -> Run]
    BY <1>1, StepTypes DEF CheckPath, Stage
  <2> QED
    BY <1>1, <2>1 DEF CheckPath
<1>2. ASSUME NEW r \in Runs, Load(r) PROVE TypeInv'
  <2>1. run' \in [Runs -> Run]
    BY <1>2, StepTypes DEF Load, Stage
  <2>2. {Loaded(e) : e \in file.entries} \subseteq Entry
    BY LoadedKeeps
  <2>3. copy' \in [Runs -> SUBSET Entry]
    BY <1>2, <2>2 DEF Load
  <2> QED
    BY <1>2, <2>1, <2>3 DEF Load
<1>3. ASSUME NEW r \in Runs, AddEntry(r) PROVE TypeInv'
  <2>1. run' \in [Runs -> Run]
    BY <1>3, StepTypes DEF AddEntry, Stage
  <2>2. [label |-> run[r].label, by |-> r, pass |-> run[r].pass] \in Entry
    BY DEF Entry, Run
  <2>3. copy' \in [Runs -> SUBSET Entry]
    BY <1>3, <2>2 DEF AddEntry
  <2> QED
    BY <1>3, <2>1, <2>3 DEF AddEntry
<1>4. ASSUME NEW r \in Runs, Write(r) PROVE TypeInv'
  BY <1>4 DEF Write
<1>5. ASSUME NEW r \in Runs, Replace(r) PROVE TypeInv'
  <2>1. run' \in [Runs -> Run]
    BY <1>5, StepTypes DEF Replace, Stage
  <2>2. file' \in Good /\ [file' EXCEPT !.whole = FALSE] \in Good
    BY <1>5 DEF Replace
  <2>3. older' \subseteq Good
    BY <1>5, <2>2 DEF Replace
  <2>4. UNCHANGED copy /\ saves' = saves + 1 /\ tmp' = [tmp EXCEPT ![r] = "none"]
    BY <1>5 DEF Replace
  <2> QED
    BY <2>1, <2>2, <2>3, <2>4
<1>6. ASSUME NEW r \in Runs, WriteFails(r) \/ Kill(r) PROVE TypeInv'
  <2>1. run' \in [Runs -> Run]
    BY <1>6, StepTypes DEF WriteFails, Kill, Stage
  <2> QED
    BY <1>6, <2>1 DEF WriteFails, Kill
<1>7. ASSUME Flush PROVE TypeInv'
  BY <1>7 DEF Flush
<1>8. ASSUME PowerLoss PROVE TypeInv'
  <2>1. run' \in [Runs -> Run]
    BY <1>8 DEF PowerLoss, Run, Stage
  <2> QED
    BY <1>8, <2>1 DEF PowerLoss
<1>9. CASE UNCHANGED vars
  BY <1>9 DEF vars
<1> QED
  BY <1>1, <1>2, <1>3, <1>4, <1>5, <1>6, <1>7, <1>8, <1>9 DEF Next, Command

-----------------------------------------------------------------------------
\* A keystore that is loaded still has one entry a label (Keystore.load).
LEMMA LoadedUnique ==
    ASSUME NEW S \in SUBSET Entry, Unique(S)
    PROVE  Unique({Loaded(e) : e \in S})
<1> SUFFICES ASSUME NEW e \in S, NEW f \in S, Loaded(e).label = Loaded(f).label
             PROVE  Loaded(e) = Loaded(f)
  BY DEF Unique
<1>1. e = f
  BY LoadedKeeps DEF Unique
<1> QED
  BY <1>1

\* ... and so has one to which a new label is added (_require_unique).
LEMMA AddedUnique ==
    ASSUME NEW S, Unique(S), NEW e, e.label \notin LabelsOf(S)
    PROVE  Unique(S \cup {e})
  BY DEF Unique, LabelsOf

\* Every step of an overlapping run, a flush or a power loss keeps the files
\* whole: only a synced temporary file is renamed (keystore._atomic_write).
LEMMA WholeInvNext == WholeInv /\ [Next]_vars => WholeInv'
<1> SUFFICES ASSUME WholeInv, [Next]_vars PROVE WholeInv'
  OBVIOUS
<1> USE DEF WholeInv
<1>0. TypeInv'
  BY TypeInvNext
<1>1. ASSUME NEW r \in Runs, Load(r) PROVE WholeInv'
  <2>1. ASSUME NEW s \in Runs PROVE Unique(copy'[s])
    <3>1. Unique({Loaded(e) : e \in file.entries})
      BY LoadedUnique DEF TypeInv
    <3> QED
      BY <1>1, <3>1 DEF Load, TypeInv
  <2> QED
    BY <1>0, <1>1, <2>1 DEF Load
<1>2. ASSUME NEW r \in Runs, AddEntry(r) PROVE WholeInv'
  <2> DEFINE new == [label |-> run[r].label, by |-> r, pass |-> run[r].pass]
  <2>1. CASE run[r].label \in LabelsOf(copy[r])
    BY <1>0, <1>2, <2>1 DEF AddEntry
  <2>2. CASE run[r].label \notin LabelsOf(copy[r])
    <3>1. new.label = run[r].label
      OBVIOUS
    <3>2. Unique(copy[r] \cup {new})
      BY <2>2, <3>1, AddedUnique
    <3>3. copy' = [copy EXCEPT ![r] = @ \cup {new}]
      BY <1>2, <2>2 DEF AddEntry
    <3>4. \A s \in Runs : Unique(copy'[s])
      BY <3>2, <3>3 DEF TypeInv
    <3> QED
      BY <1>0, <1>2, <3>4 DEF AddEntry
  <2> QED
    BY <2>1, <2>2
<1>3. ASSUME NEW r \in Runs, Replace(r) PROVE WholeInv'
  <2>1. file' = [version |-> 2, entries |-> copy[r], whole |-> TRUE]
        /\ older' = older \cup {file}
    BY <1>3 DEF Replace, ReadyToReplace
  <2> QED
    BY <1>0, <1>3, <2>1 DEF Replace
<1>4. ASSUME PowerLoss PROVE WholeInv'
  BY <1>0, <1>4 DEF PowerLoss
<1>5. ASSUME NEW r \in Runs, CheckPath(r) \/ Write(r) \/ WriteFails(r) \/ Kill(r)
      PROVE  WholeInv'
  BY <1>0, <1>5 DEF CheckPath, Write, WriteFails, Kill
<1>6. CASE Flush
  BY <1>0, <1>6 DEF Flush
<1>7. CASE UNCHANGED vars
  BY <1>0, <1>7 DEF vars
<1> QED
  BY <1>1, <1>2, <1>3, <1>4, <1>5, <1>6, <1>7 DEF Next, Command

\* Whatever stops any of the overlapping runs at any step, the path names a
\* whole keystore with one entry a label, and so does every file a power loss
\* may bring back (keystore._atomic_write).
THEOREM AlwaysWhole == Spec => []FileIsWhole
<1>1. Init => WholeInv
  <2> SUFFICES ASSUME Init PROVE WholeInv
    OBVIOUS
  <2>1. file.whole /\ Unique(file.entries)
    BY FirstFiles DEF Init
  <2>2. \A r \in Runs : Unique(copy[r])
    BY DEF Init, Unique
  <2> QED
    BY <2>1, <2>2, TypeInvInit DEF Init, WholeInv
<1>2. WholeInv /\ [Next]_vars => WholeInv'
  BY WholeInvNext
<1>3. WholeInv => FileIsWhole
  BY DEF WholeInv, FileIsWhole
<1> QED
  BY <1>1, <1>2, <1>3, PTL DEF Spec

-----------------------------------------------------------------------------
\* No step changes what a run was asked to do, and only the first one of a run
\* notes the state of the file.
LEMMA RunsKeep ==
    ASSUME TypeInv, [Next]_vars, NEW s \in Runs
    PROVE  /\ run'[s].cmd = run[s].cmd /\ run'[s].pass = run[s].pass
           /\ run[s].stage # "start" =>
                 run'[s].began = run[s].began /\ run'[s].stage # "start"
           /\ run[s].stage = "done" => run'[s].stage = "done"
<1> USE DEF TypeInv, Run
<1>1. ASSUME NEW r \in Runs, CheckPath(r) \/ Load(r)
      PROVE  run[r].stage = "start" /\ \E t : t # "start" /\ Enter(r, t)
  BY <1>1 DEF CheckPath, Load
<1>2. ASSUME NEW r \in Runs,
             AddEntry(r) \/ Replace(r) \/ WriteFails(r) \/ Kill(r)
      PROVE  run[r].stage \in {"typing", "saving"} /\ \E t : t # "start" /\ Goto(r, t)
  BY <1>2 DEF AddEntry, Replace, WriteFails, Kill
<1>3. CASE \E r \in Runs : CheckPath(r) \/ Load(r)
  <2> PICK r \in Runs : CheckPath(r) \/ Load(r)
    BY <1>3
  <2>1. PICK t : /\ run[r].stage = "start" /\ t # "start"
                 /\ run' = [run EXCEPT ![r].stage = t, ![r].began = saves]
    BY <1>1 DEF Enter
  <2>2. CASE s = r
    BY <2>1, <2>2
  <2>3. CASE s # r
    <3>1. run'[s] = run[s]
      BY <2>1, <2>3
    <3> QED
      BY <3>1
  <2> QED
    BY <2>2, <2>3
<1>4. CASE \E r \in Runs : AddEntry(r) \/ Replace(r) \/ WriteFails(r) \/ Kill(r)
  BY <1>2, <1>4 DEF Goto
<1>5. CASE PowerLoss
  BY <1>5 DEF PowerLoss
<1>6. CASE (\E r \in Runs : Write(r)) \/ Flush \/ UNCHANGED vars
  BY <1>6 DEF Write, Flush, vars
<1> QED
  BY <1>3, <1>4, <1>5, <1>6 DEF Next, Command

-----------------------------------------------------------------------------
\* The entry's passphrase is the one it was added with, or its loss was told.
KeptBy(e, runs, initial, lost) ==
    /\ e.by # "before" => e.pass = runs[e.by].pass
    /\ e.by = "before" /\ ~ e.pass =>
          \/ e \in initial
          \/ \E r \in Runs : <<[e EXCEPT !.pass = TRUE], r>> \in lost

Kept(e)  == KeptBy(e, run, first, warned)
Still(e) == KeptBy(e, run', first', warned')

OldOnly(f) == f.version < 2 => \A e \in f.entries : e.by = "before"

\* The invariant behind PassphraseKept: it holds of every copy and of every
\* file a power loss may bring back, and a version 1 file has no new entries.
PassInv ==
    /\ TypeInv
    /\ \A e \in file.entries : Kept(e)
    /\ \A f \in older : OldOnly(f) /\ \A e \in f.entries : Kept(e)
    /\ \A r \in Runs : \A e \in copy[r] : Kept(e)
    /\ OldOnly(file)

\* What was kept stays kept, as nothing that was told is forgotten.
LEMMA KeptStays ==
    ASSUME TypeInv, [Next]_vars, NEW e \in Entry, Kept(e)
    PROVE  Still(e)
<1>1. first' = first /\ warned \subseteq warned'
  BY DEF Next, Command, CheckPath, Load, AddEntry, Write, Replace, WriteFails,
         Kill, Flush, PowerLoss, vars
<1>2. e.by # "before" => run'[e.by].pass = run[e.by].pass
  BY RunsKeep DEF Entry
<1> QED
  BY <1>1, <1>2 DEF Kept, Still, KeptBy

\* Loading a version 1 file drops passphrases, and says which.
LEMMA LoadedKept ==
    ASSUME PassInv, [Next]_vars, NEW r \in Runs, Load(r), copy'[r] # copy[r],
           NEW e \in file.entries
    PROVE  Still(Loaded(e))
<1>1. e \in Entry /\ Still(e)
  BY KeptStays DEF PassInv, TypeInv
<1>2. warned' = warned \cup
         {<<g, r>> : g \in {f \in file.entries : file.version < 2 /\ f.pass}}
  BY DEF Load, PassInv, TypeInv
<1>3. CASE file.version < 2 /\ e.pass
  <2>1. e.by = "before" /\ Loaded(e).by = "before"
    BY <1>1, <1>3, LoadedKeeps DEF PassInv, OldOnly
  <2>2. [Loaded(e) EXCEPT !.pass = TRUE] = e
    BY <1>1, <1>3 DEF Loaded, Entry
  <2>3. <<e, r>> \in warned'
    BY <1>2, <1>3
  <2> QED
    BY <2>1, <2>2, <2>3 DEF Still, KeptBy
<1>4. CASE ~ (file.version < 2 /\ e.pass)
  <2>1. Loaded(e) = e
    BY <1>1, <1>4 DEF Loaded, Entry
  <2> QED
    BY <1>1, <2>1
<1> QED
  BY <1>3, <1>4

\* Every step keeps the passphrase of an entry in use: a load only drops what the
\* file's version no longer has (keystore.Keystore.load).
LEMMA PassInvNext == PassInv /\ [Next]_vars => PassInv'
<1> SUFFICES ASSUME PassInv, [Next]_vars PROVE PassInv'
  OBVIOUS
<1>0. TypeInv /\ TypeInv'
  BY TypeInvNext DEF PassInv
<1>a. \A e \in Entry : Kept(e) => Still(e)
  BY <1>0, KeptStays
<1>b. /\ \A e \in file.entries : Still(e)
      /\ \A f \in older : OldOnly(f) /\ \A e \in f.entries : Still(e)
      /\ \A r \in Runs : \A e \in copy[r] : Still(e)
  BY <1>a DEF PassInv, TypeInv
<1> DEFINE After == /\ \A e \in file'.entries : Still(e)
                    /\ \A f \in older' : OldOnly(f) /\ \A e \in f.entries : Still(e)
                    /\ \A r \in Runs : \A e \in copy'[r] : Still(e)
                    /\ OldOnly(file')
<1>c. After => PassInv'
  BY <1>0 DEF PassInv, Kept, Still, OldOnly
<1> SUFFICES After
  BY <1>c
<1>1. ASSUME NEW r \in Runs, Load(r) PROVE After
  <2>1. \A s \in Runs : \A e \in copy'[s] : Still(e)
    <3>1. CASE copy'[r] = copy[r]
      BY <1>0, <1>1, <1>b, <3>1 DEF Load, TypeInv
    <3>2. CASE copy'[r] # copy[r]
      <4>1. copy' = [copy EXCEPT ![r] = {Loaded(e) : e \in file.entries}]
        BY <1>0, <1>1, <3>2 DEF Load, TypeInv
      <4>2. \A e \in file.entries : Still(Loaded(e))
        BY <1>1, <3>2, LoadedKept
      <4> QED
        BY <1>0, <1>b, <4>1, <4>2 DEF TypeInv
    <3> QED
      BY <3>1, <3>2
  <2> QED
    BY <1>0, <1>1, <1>b, <2>1 DEF Load, PassInv
<1>2. ASSUME NEW r \in Runs, AddEntry(r) PROVE After
  <2> DEFINE new == [label |-> run[r].label, by |-> r, pass |-> run[r].pass]
  <2>1. run'[r].pass = run[r].pass
    BY <1>0, RunsKeep
  <2>2. Still(new)
    BY <2>1, KeystoreAssumption DEF Still, KeptBy
  <2>3. \A s \in Runs : copy'[s] \subseteq copy[s] \cup {new}
    BY <1>0, <1>2 DEF AddEntry, TypeInv
  <2>4. \A s \in Runs : \A e \in copy'[s] : Still(e)
    BY <1>b, <2>2, <2>3
  <2> QED
    BY <1>0, <1>2, <1>b, <2>4 DEF AddEntry, PassInv
<1>3. ASSUME NEW r \in Runs, Replace(r) PROVE After
  <2>1. /\ file' = [version |-> 2, entries |-> copy[r], whole |-> TRUE]
        /\ older' = older \cup {file} /\ copy' = copy
    BY <1>3 DEF Replace, ReadyToReplace
  <2> QED
    BY <1>0, <1>b, <2>1 DEF PassInv, OldOnly
<1>4. ASSUME PowerLoss PROVE After
  BY <1>0, <1>4, <1>b DEF PowerLoss, PassInv
<1>5. CASE UNCHANGED <<file, older, copy>>
  BY <1>0, <1>5, <1>b DEF PassInv
<1>6. CASE Flush
  BY <1>0, <1>6, <1>b DEF Flush, PassInv
<1>7. ASSUME NEW r \in Runs, CheckPath(r) \/ Write(r) \/ WriteFails(r) \/ Kill(r)
      PROVE  UNCHANGED <<file, older, copy>>
  BY <1>7 DEF CheckPath, Write, WriteFails, Kill
<1>8. UNCHANGED vars => UNCHANGED <<file, older, copy>>
  BY DEF vars
<1> QED
  BY <1>1, <1>2, <1>3, <1>4, <1>5, <1>6, <1>7, <1>8 DEF Next, Command

\* However many runs overlap and whatever stops them, an entry keeps the
\* passphrase it was added with, and one that a version 1 file's entry loses is
\* one a run had said it drops (Keystore.load, cli._load_keystore).
THEOREM PassphrasesStay == Spec => []PassphraseKept
<1>1. Init => PassInv
  <2> SUFFICES ASSUME Init PROVE PassInv
    OBVIOUS
  <2>1. \A e \in file.entries : e.by = "before" /\ Kept(e)
    BY KeystoreAssumption DEF Init, Kept, KeptBy
  <2> QED
    BY <2>1, TypeInvInit DEF Init, PassInv, OldOnly
<1>2. PassInv /\ [Next]_vars => PassInv'
  BY PassInvNext
<1>3. PassInv => PassphraseKept
  BY DEF PassInv, PassphraseKept, Kept, KeptBy
<1> QED
  BY <1>1, <1>2, <1>3, PTL DEF Spec

-----------------------------------------------------------------------------
\* The run still holds the entry, whatever became of its passphrase.
Holds(S, e) == \E c \in S : c.label = e.label /\ c.by = e.by

\* The invariant behind LostOnlyInARace: what a run that is about to save does
\* not hold came to the file after the run looked at it, and what a save took
\* out came that late as well.
RaceInv ==
    /\ TypeInv
    /\ file.entries \subseteq DOMAIN born
    /\ \A e \in DOMAIN born : born[e] \in Nat /\ born[e] <= saves
    /\ \A r \in Runs : run[r].began <= saves
    /\ \A r \in Runs :
          run[r].stage \in {"typing", "saving"} /\ run[r].cmd # "force" =>
             \A e \in file.entries : Holds(copy[r], e) \/ born[e] > run[r].began
    /\ \A d \in dropped :
          /\ d[1] \in DOMAIN born /\ d[2] \in Runs
          /\ run[d[2]].stage = "done"
          /\ run[d[2]].cmd = "force" \/ born[d[1]] > run[d[2]].began

\* Entries come back no earlier than they came.
LEMMA RebornLater ==
    ASSUME RaceInv, NEW S
    PROVE  /\ DOMAIN Reborn(S) = DOMAIN born \cup S
           /\ \A e \in DOMAIN born \cup S :
                 Reborn(S)[e] \in Nat /\ Reborn(S)[e] <= saves + 1
           /\ \A e \in DOMAIN born : Reborn(S)[e] >= born[e]
           /\ \A e \in S \ file.entries : Reborn(S)[e] = saves + 1
  BY DEF Reborn, RaceInv, TypeInv

\* What the invariant needs of a step that leaves the file alone.
LEMMA RaceStays ==
    ASSUME RaceInv, [Next]_vars, UNCHANGED <<file, saves, born, dropped>>,
           \A r \in Runs : run'[r].began <= saves,
           \A r \in Runs :
             run'[r].stage \in {"typing", "saving"} /\ run'[r].cmd # "force" =>
               \A e \in file.entries :
                  Holds(copy'[r], e) \/ born[e] > run'[r].began
    PROVE  RaceInv'
<1>1. TypeInv /\ TypeInv'
  BY TypeInvNext DEF RaceInv
<1>2. \A d \in dropped :
         /\ run'[d[2]].stage = "done" /\ run'[d[2]].cmd = run[d[2]].cmd
         /\ run'[d[2]].began = run[d[2]].began
  BY <1>1, RunsKeep DEF RaceInv
<1>3. \A d \in dropped :
         /\ d[1] \in DOMAIN born /\ d[2] \in Runs
         /\ run'[d[2]].stage = "done"
         /\ run'[d[2]].cmd = "force" \/ born[d[1]] > run'[d[2]].began
  BY <1>2 DEF RaceInv
<1> QED
  BY <1>1, <1>3 DEF RaceInv, Holds

\* Every step keeps the entries a run has seen, unless another saved meanwhile or
\* the file was overwritten on purpose (keystore.Keystore.save, cli.cmd_init).
LEMMA RaceInvNext == RaceInv /\ [Next]_vars => RaceInv'
<1> SUFFICES ASSUME RaceInv, [Next]_vars PROVE RaceInv'
  OBVIOUS
<1>0. TypeInv /\ TypeInv'
  BY TypeInvNext DEF RaceInv
<1>a. saves \in Nat /\ \A s \in Runs : run[s] \in Run
  BY <1>0 DEF TypeInv
<1>1. ASSUME NEW r \in Runs, CheckPath(r) PROVE RaceInv'
  <2>1. \A s \in Runs : s # r => run'[s] = run[s]
    BY <1>0, <1>1 DEF CheckPath, Enter, TypeInv
  <2>2. run'[r].began = saves /\ run'[r].cmd = run[r].cmd
    BY <1>0, <1>1 DEF CheckPath, Enter, TypeInv, Run
  <2>3. run'[r].stage \in {"typing", "saving"} /\ run[r].cmd # "force" =>
           file = Missing
    BY <1>0, <1>1 DEF CheckPath, Enter, InitRefuses, TypeInv, Run
  <2>4. UNCHANGED <<file, saves, born, dropped, copy>>
    BY <1>1 DEF CheckPath
  <2>5. \A s \in Runs : run'[s].began <= saves
    BY <1>a, <2>1, <2>2 DEF RaceInv
  <2>6. ASSUME NEW s \in Runs, run'[s].stage \in {"typing", "saving"},
               run'[s].cmd # "force", NEW e \in file.entries
        PROVE  Holds(copy'[s], e) \/ born[e] > run'[s].began
    <3>1. CASE s = r
      BY <2>2, <2>3, <2>6, <3>1 DEF Missing
    <3>2. CASE s # r
      BY <2>1, <2>4, <2>6, <3>2 DEF RaceInv
    <3> QED
      BY <3>1, <3>2
  <2> QED
    BY <2>4, <2>5, <2>6, RaceStays
<1>2. ASSUME NEW r \in Runs, Load(r) PROVE RaceInv'
  <2>1. \A s \in Runs : s # r => run'[s] = run[s] /\ copy'[s] = copy[s]
    BY <1>0, <1>2 DEF Load, Enter, TypeInv
  <2>2. run'[r].began = saves
    BY <1>0, <1>2 DEF Load, Enter, TypeInv, Run
  <2>3. run'[r].stage \in {"typing", "saving"} =>
           copy'[r] = {Loaded(e) : e \in file.entries}
    BY <1>0, <1>2 DEF Load, Enter, TypeInv, Run
  <2>4. UNCHANGED <<file, saves, born, dropped>>
    BY <1>2 DEF Load
  <2>5. \A s \in Runs : run'[s].began <= saves
    BY <1>a, <2>1, <2>2 DEF RaceInv
  <2>6. ASSUME NEW s \in Runs, run'[s].stage \in {"typing", "saving"},
               run'[s].cmd # "force", NEW e \in file.entries
        PROVE  Holds(copy'[s], e) \/ born[e] > run'[s].began
    <3>1. CASE s = r
      <4>1. Loaded(e) \in copy'[s]
        BY <2>3, <2>6, <3>1
      <4>2. Loaded(e).label = e.label /\ Loaded(e).by = e.by
        BY <1>0, LoadedKeeps DEF TypeInv
      <4> QED
        BY <4>1, <4>2 DEF Holds
    <3>2. CASE s # r
      BY <2>1, <2>6, <3>2 DEF RaceInv
    <3> QED
      BY <3>1, <3>2
  <2> QED
    BY <2>4, <2>5, <2>6, RaceStays
<1>3. ASSUME NEW r \in Runs, AddEntry(r) \/ Write(r) \/ WriteFails(r) \/ Kill(r)
      PROVE  RaceInv'
  <2>1. \A s \in Runs : /\ run'[s].began = run[s].began /\ run'[s].cmd = run[s].cmd
                        /\ run'[s].stage \in {"typing", "saving"} =>
                              run[s].stage \in {"typing", "saving"}
    BY <1>0, <1>3 DEF AddEntry, Write, WriteFails, Kill, Goto, TypeInv, Run
  <2>2. \A s \in Runs : copy[s] \subseteq copy'[s]
    BY <1>0, <1>3 DEF AddEntry, Write, WriteFails, Kill, TypeInv
  <2>3. UNCHANGED <<file, saves, born, dropped>>
    BY <1>3 DEF AddEntry, Write, WriteFails, Kill
  <2>4. \A s \in Runs : run'[s].began <= saves
    BY <2>1 DEF RaceInv
  <2>5. ASSUME NEW s \in Runs, run'[s].stage \in {"typing", "saving"},
               run'[s].cmd # "force", NEW e \in file.entries
        PROVE  Holds(copy'[s], e) \/ born[e] > run'[s].began
    <3>1. Holds(copy[s], e) \/ born[e] > run[s].began
      BY <2>1, <2>5 DEF RaceInv
    <3> QED
      BY <2>1, <2>2, <3>1 DEF Holds
  <2> QED
    BY <2>3, <2>4, <2>5, RaceStays
<1>4. ASSUME NEW r \in Runs, Replace(r) PROVE RaceInv'
  <2>1. /\ file'.entries = copy[r] /\ born' = Reborn(copy[r])
        /\ saves' = saves + 1 /\ copy' = copy
        /\ run[r].stage = "saving"
    BY <1>4 DEF Replace
  <2>2. \A s \in Runs : s # r => run'[s] = run[s]
    BY <1>0, <1>4 DEF Replace, Goto, TypeInv
  <2>3. /\ run'[r].stage = "done" /\ run'[r].cmd = run[r].cmd
        /\ run'[r].began = run[r].began
    BY <1>0, <1>4 DEF Replace, Goto, TypeInv, Run
  <2>4. /\ file'.entries \subseteq DOMAIN born'
        /\ \A e \in DOMAIN born' : born'[e] \in Nat /\ born'[e] <= saves'
    BY <2>1, RebornLater
  <2>5. \A s \in Runs : run'[s].began <= saves'
    BY <1>a, <2>1, <2>2, <2>3 DEF RaceInv, Run
  <2>6. ASSUME NEW s \in Runs, run'[s].stage \in {"typing", "saving"},
               run'[s].cmd # "force", NEW e \in file'.entries
        PROVE  Holds(copy'[s], e) \/ born'[e] > run'[s].began
    <3>1. s # r /\ run'[s] = run[s]
      BY <2>2, <2>3, <2>6
    <3>2. CASE e \in file.entries
      <4>1. Holds(copy[s], e) \/ born[e] > run[s].began
        BY <2>6, <3>1, <3>2 DEF RaceInv
      <4>2. born'[e] \in Nat /\ born'[e] >= born[e] /\ born[e] \in Nat
        BY <2>1, <2>4, <3>2, RebornLater DEF RaceInv
      <4>3. run[s].began \in Nat
        BY <1>a DEF Run
      <4> QED
        BY <2>1, <3>1, <4>1, <4>2, <4>3
    <3>3. CASE e \notin file.entries
      <4>1. born'[e] = saves + 1
        BY <2>1, <3>3, RebornLater
      <4>2. run[s].began \in Nat /\ run[s].began <= saves
        BY <1>a DEF RaceInv, Run
      <4> QED
        BY <1>a, <3>1, <4>1, <4>2
    <3> QED
      BY <3>2, <3>3
  <2>7. ASSUME NEW d \in dropped'
        PROVE  /\ d[1] \in DOMAIN born' /\ d[2] \in Runs
               /\ run'[d[2]].stage = "done"
               /\ run'[d[2]].cmd = "force" \/ born'[d[1]] > run'[d[2]].began
    <3>1. CASE d \in dropped
      <4>1. /\ d[1] \in DOMAIN born /\ d[2] \in Runs /\ run[d[2]].stage = "done"
            /\ run[d[2]].cmd = "force" \/ born[d[1]] > run[d[2]].began
        BY <3>1 DEF RaceInv
      <4>2. d[2] # r /\ run'[d[2]] = run[d[2]]
        BY <2>1, <2>2, <4>1
      <4>3. /\ d[1] \in DOMAIN born' /\ born'[d[1]] \in Nat
            /\ born'[d[1]] >= born[d[1]] /\ born[d[1]] \in Nat
        BY <2>1, <2>4, <4>1, RebornLater DEF RaceInv
      <4>4. run[d[2]].began \in Nat
        BY <1>a, <4>1 DEF Run
      <4> QED
        BY <4>1, <4>2, <4>3, <4>4
    <3>2. CASE d \notin dropped
      <4>1. PICK e \in file.entries : d = <<e, r>> /\ ~ Holds(copy[r], e)
        <5>1. PICK e \in file.entries :
                 /\ d = <<e, r>>
                 /\ \A c \in copy[r] : <<c.label, c.by>> # <<e.label, e.by>>
          BY <1>4, <2>7, <3>2 DEF Replace
        <5> QED
          BY <5>1 DEF Holds
      <4>2. run[r].cmd = "force" \/ born[e] > run[r].began
        BY <2>1, <4>1 DEF RaceInv
      <4>3. /\ e \in DOMAIN born' /\ born'[e] \in Nat
            /\ born'[e] >= born[e] /\ born[e] \in Nat
        BY <2>1, <2>4, <4>1, RebornLater DEF RaceInv
      <4>4. run[r].began \in Nat
        BY <1>a DEF Run
      <4>5. d[1] = e /\ d[2] = r
        BY <4>1
      <4> QED
        BY <2>3, <4>2, <4>3, <4>4, <4>5
    <3> QED
      BY <3>1, <3>2
  <2> QED
    BY <1>0, <2>4, <2>5, <2>6, <2>7 DEF RaceInv, Holds
<1>5. ASSUME PowerLoss PROVE RaceInv'
  <2>1. /\ born' = Reborn(file'.entries) /\ saves' = saves + 1
        /\ dropped' = dropped
    BY <1>5 DEF PowerLoss
  <2>2. \A s \in Runs : /\ run'[s].stage \notin {"typing", "saving"}
                        /\ run'[s].began = run[s].began /\ run'[s].cmd = run[s].cmd
                        /\ run[s].stage = "done" => run'[s].stage = "done"
    BY <1>0, <1>5 DEF PowerLoss, TypeInv, Run
  <2>3. /\ file'.entries \subseteq DOMAIN born'
        /\ \A e \in DOMAIN born' : born'[e] \in Nat /\ born'[e] <= saves'
    BY <2>1, RebornLater
  <2>4. \A s \in Runs : run'[s].began <= saves'
    BY <1>a, <2>1, <2>2 DEF RaceInv, Run
  <2>5. ASSUME NEW d \in dropped
        PROVE  /\ d[1] \in DOMAIN born' /\ d[2] \in Runs
               /\ run'[d[2]].stage = "done"
               /\ run'[d[2]].cmd = "force" \/ born'[d[1]] > run'[d[2]].began
    <3>1. /\ d[1] \in DOMAIN born /\ d[2] \in Runs /\ run[d[2]].stage = "done"
          /\ run[d[2]].cmd = "force" \/ born[d[1]] > run[d[2]].began
      BY DEF RaceInv
    <3>2. /\ d[1] \in DOMAIN born' /\ born'[d[1]] \in Nat
          /\ born'[d[1]] >= born[d[1]] /\ born[d[1]] \in Nat
      BY <2>1, <2>3, <3>1, RebornLater DEF RaceInv
    <3>3. run[d[2]].began \in Nat
      BY <1>a, <3>1 DEF Run
    <3> QED
      BY <2>2, <3>1, <3>2, <3>3
  <2> QED
    BY <1>0, <2>1, <2>2, <2>3, <2>4, <2>5 DEF RaceInv
<1>6. CASE Flush
  BY <1>0, <1>6 DEF Flush, RaceInv, Holds
<1>7. CASE UNCHANGED vars
  BY <1>0, <1>7 DEF vars, RaceInv, Holds
<1> QED
  BY <1>1, <1>2, <1>3, <1>4, <1>5, <1>6, <1>7 DEF Next, Command

\* Of any number of overlapping runs, one that is not forced takes out of the
\* file only what came there after it looked: runs that do not overlap lose
\* nothing (cmd_init, cmd_add_hd, cmd_add_raw).
THEOREM NothingLostButInARace == Spec => []LostOnlyInARace
<1>1. Init => RaceInv
  <2> SUFFICES ASSUME Init PROVE RaceInv
    OBVIOUS
  <2>1. \A r \in Runs : run[r].began = 0 /\ run[r].stage = "start"
    BY DEF Init
  <2> QED
    BY <2>1, TypeInvInit DEF Init, RaceInv
<1>2. RaceInv /\ [Next]_vars => RaceInv'
  BY RaceInvNext
<1>3. RaceInv => LostOnlyInARace
  BY DEF RaceInv, LostOnlyInARace
<1> QED
  BY <1>1, <1>2, <1>3, PTL DEF Spec
=============================================================================
