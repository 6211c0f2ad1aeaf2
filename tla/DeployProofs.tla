---------------------------- MODULE DeployProofs ----------------------------
(***************************************************************************)
(* Proofs about Deploy: for any releases and any number of runs, wherever  *)
(* a run fails or is killed and whatever the control panel does meanwhile, *)
(* a dry run changes nothing, the fragment never goes in over another      *)
(* release, a refused one is taken out again unless the commands that do   *)
(* it fail or are killed, a run that ends well has installed what it was   *)
(* asked to, and RESTORE.txt leads back as far as it says.                 *)
(*                                                                         *)
(* The inductive invariant says, section by section of the script, what    *)
(* the run has done so far and what its backup holds.                      *)
(***************************************************************************)
EXTENDS Deploy, TLAPS

-----------------------------------------------------------------------------
(* The inductive invariant.                                                *)

\* The sections before anything is written, those that bring the application up, and
\* those after the fragment was written.
Reading == {"check", "site", "backup"}
Application == {"copy", "config", "up", "probe"}
Written == {"test", "restore", "reload"}
Running == Reading \cup Application \cup {"fragment"} \cup Written

\* Nothing is written by a dry run, nor before the backup.
Untouched ==
    /\ pc \in Reading \cup {"copy"} => State = before
    /\ pc \in Running \ Reading => ~opt.dry

\* The backup holds what was there before: the compose file as long as it can be used
\* for a rollback, the fragment while the run goes on.
Copied ==
    /\ backup.done => backup.compose = before.compose
    /\ pc \in Running \ Reading => backup.done /\ (opt.proxy => backup.frag = before.frag)

\* The containers are those of this release once they are up, or have died since.
Installed ==
    /\ pc \in Application => ~opt.skip
    /\ pc \in {"config", "up"} => compose = opt.release
    /\ pc \in {"probe", "fragment"} \cup Written /\ ~opt.skip =>
          compose = opt.release /\ app \in {opt.release, None}

\* The fragment is the one of before, until that of this release is written; a run
\* without a proxy never writes one.
Proxied ==
    /\ pc \in Reading \cup Application \cup {"fragment"} => frag = before.frag
    /\ pc \in Written => opt.proxy /\ frag = opt.release /\ had = (before.frag # None)
    /\ pc = "over" /\ ~opt.proxy => frag = before.frag

\* A refused fragment is there between its installation and its test only.
Sound ==
    cut \/ /\ pc \notin {"test", "restore"} => frag \notin Refused
           /\ pc \in Running => before.frag \notin Refused

IInv == TypeOK /\ Untouched /\ Copied /\ Installed /\ Proxied /\ Sound

LEMMA NoneAccepted == None \notin Refused /\ None # Torn
BY DeployAssumption DEF Refused, None, Torn

LEMMA AcceptedWhole == ASSUME NEW f \in File, f \notin Refused PROVE f \in Whole
BY DEF File, Whole, Refused

-----------------------------------------------------------------------------
(* The steps.                                                              *)

LEMMA BeginKeeps == IInv /\ Begin => IInv'
<1>. SUFFICES ASSUME IInv, Begin PROVE IInv'
  OBVIOUS
<1>. USE DeployAssumption DEF IInv, Begin, Kept, Same, Over, Go, script, server, Running, Reading, Application, Written, Nothing
<1>1. TypeOK'
  <2>1. backup' \in [done : BOOLEAN, compose : File, frag : File]
    BY DEF File, Whole
  <2>2. before' \in [compose : File, frag : File, app : Whole]
    BY DEF TypeOK, State
  <2>3. runs' \in 0 .. MaxRuns
    BY DEF TypeOK
  <2>4. /\ pc' = "check" /\ code' = "none" /\ had' = FALSE /\ opt' \in Option /\ cut' = cut
        /\ compose' = compose /\ frag' = frag /\ app' = app /\ live' = live /\ restOk' = restOk
    OBVIOUS
  <2>. HIDE DEF Begin
  <2>. QED BY <2>1, <2>2, <2>3, <2>4 DEF TypeOK
<1>2. Untouched'
  BY DEF Untouched, State, TypeOK
<1>3. Copied'
  BY DEF Copied, TypeOK
<1>4. Installed'
  BY DEF Installed, Untouched, TypeOK
<1>5. Proxied'
  BY DEF Proxied, Untouched, State, TypeOK
<1>6. Sound'
  BY DEF Sound, State
<1>. QED BY <1>1, <1>2, <1>3, <1>4, <1>5, <1>6

LEMMA PrerequisitesKeeps == IInv /\ Prerequisites => IInv'
<1>. SUFFICES ASSUME IInv, Prerequisites PROVE IInv'
  OBVIOUS
<1>. USE DeployAssumption DEF IInv, Prerequisites, Kept, Same, Over, Go, script, server, Running, Reading, Application, Written
<1>1. TypeOK'
  BY DEF TypeOK, Option, File, Whole
<1>2. Untouched'
  BY DEF Untouched, State, TypeOK
<1>3. Copied'
  BY DEF Copied, TypeOK
<1>4. Installed'
  BY DEF Installed, Untouched, TypeOK
<1>5. Proxied'
  BY DEF Proxied, Untouched, State, TypeOK
<1>6. Sound'
  BY NoneAccepted DEF Sound, Proxied, Copied, TypeOK
<1>. QED BY <1>1, <1>2, <1>3, <1>4, <1>5, <1>6

LEMMA FindSiteKeeps == IInv /\ FindSite => IInv'
<1>. SUFFICES ASSUME IInv, FindSite PROVE IInv'
  OBVIOUS
<1>. USE DeployAssumption DEF IInv, FindSite, Kept, Same, Over, Go, script, server, Running, Reading, Application, Written
<1>1. TypeOK'
  BY DEF TypeOK, Option, File, Whole
<1>2. Untouched'
  BY DEF Untouched, State, TypeOK
<1>3. Copied'
  BY DEF Copied, TypeOK
<1>4. Installed'
  BY DEF Installed, Untouched, TypeOK
<1>5. Proxied'
  BY DEF Proxied, Untouched, State, TypeOK
<1>6. Sound'
  BY NoneAccepted DEF Sound, Proxied, Copied, TypeOK
<1>. QED BY <1>1, <1>2, <1>3, <1>4, <1>5, <1>6

LEMMA DryRunKeeps == IInv /\ DryRun => IInv'
<1>. SUFFICES ASSUME IInv, DryRun PROVE IInv'
  OBVIOUS
<1>. USE DeployAssumption DEF IInv, DryRun, Kept, Same, Over, Go, script, server, Running, Reading, Application, Written
<1>1. TypeOK'
  BY DEF TypeOK, Option, File, Whole
<1>2. Untouched'
  BY DEF Untouched, State, TypeOK
<1>3. Copied'
  BY DEF Copied, TypeOK
<1>4. Installed'
  BY DEF Installed, Untouched, TypeOK
<1>5. Proxied'
  BY DEF Proxied, Untouched, State, TypeOK
<1>6. Sound'
  BY NoneAccepted DEF Sound, Proxied, Copied, TypeOK
<1>. QED BY <1>1, <1>2, <1>3, <1>4, <1>5, <1>6

LEMMA BackupKeeps == IInv /\ Backup => IInv'
<1>. SUFFICES ASSUME IInv, Backup PROVE IInv'
  OBVIOUS
<1>. USE DeployAssumption DEF IInv, Backup, Kept, Same, Over, Go, script, server, Running, Reading, Application, Written, Copies
<1>0. Copies \in [done : BOOLEAN, compose : File, frag : File]
      /\ Copies.done = TRUE /\ Copies.compose = compose /\ (opt.proxy => Copies.frag = frag)
  BY DEF TypeOK, File, Whole
<1>. HIDE DEF Copies
<1>1. TypeOK'
  BY <1>0 DEF TypeOK
<1>2. Untouched'
  BY DEF Untouched, State, TypeOK
<1>3. Copied'
  <2>1. State = before
    BY DEF Untouched
  <2>2. compose = before.compose /\ frag = before.frag
    BY <2>1 DEF State
  <2>. QED BY <1>0, <2>2 DEF Copied
<1>4. Installed'
  BY DEF Installed, Untouched, TypeOK
<1>5. Proxied'
  BY DEF Proxied, Untouched, State, TypeOK
<1>6. Sound'
  BY NoneAccepted DEF Sound, Proxied, Copied, TypeOK
<1>. QED BY <1>1, <1>2, <1>3, <1>4, <1>5, <1>6

LEMMA CopyComposeKeeps == IInv /\ CopyCompose => IInv'
<1>. SUFFICES ASSUME IInv, CopyCompose PROVE IInv'
  OBVIOUS
<1>. USE DeployAssumption DEF IInv, CopyCompose, Kept, Same, Over, Go, script, server, Running, Reading, Application, Written
<1>1. TypeOK'
  BY DEF TypeOK, Option, File, Whole
<1>2. Untouched'
  BY DEF Untouched, State, TypeOK
<1>3. Copied'
  BY DEF Copied, TypeOK
<1>4. Installed'
  BY DEF Installed, Untouched, TypeOK
<1>5. Proxied'
  BY DEF Proxied, Untouched, State, TypeOK
<1>6. Sound'
  BY NoneAccepted DEF Sound, Proxied, Copied, TypeOK
<1>. QED BY <1>1, <1>2, <1>3, <1>4, <1>5, <1>6

LEMMA PullKeeps == IInv /\ Pull => IInv'
<1>. SUFFICES ASSUME IInv, Pull PROVE IInv'
  OBVIOUS
<1>. USE DeployAssumption DEF IInv, Pull, Kept, Same, Over, Go, script, server, Running, Reading, Application, Written
<1>1. TypeOK'
  BY DEF TypeOK, Option, File, Whole
<1>2. Untouched'
  BY DEF Untouched, State, TypeOK
<1>3. Copied'
  BY DEF Copied, TypeOK
<1>4. Installed'
  BY DEF Installed, Untouched, TypeOK
<1>5. Proxied'
  BY DEF Proxied, Untouched, State, TypeOK
<1>6. Sound'
  BY NoneAccepted DEF Sound, Proxied, Copied, TypeOK
<1>. QED BY <1>1, <1>2, <1>3, <1>4, <1>5, <1>6

LEMMA UpKeeps == IInv /\ Up => IInv'
<1>. SUFFICES ASSUME IInv, Up PROVE IInv'
  OBVIOUS
<1>. USE DeployAssumption DEF IInv, Up, Kept, Same, Over, Go, script, server, Running, Reading, Application, Written
<1>1. TypeOK'
  <2>1. compose \in Whole
    BY DEF Installed, TypeOK, Option, Whole
  <2>2. app' \in Whole /\ pc' \in {"probe", "over"} /\ code' \in {code, "died"}
    BY <2>1 DEF TypeOK, Whole
  <2>. QED BY <2>2 DEF TypeOK
<1>2. Untouched'
  BY DEF Untouched, State, TypeOK
<1>3. Copied'
  BY DEF Copied, TypeOK
<1>4. Installed'
  BY DEF Installed, Untouched, TypeOK
<1>5. Proxied'
  BY DEF Proxied, Untouched, State, TypeOK
<1>6. Sound'
  BY NoneAccepted DEF Sound, Proxied, Copied, TypeOK
<1>. QED BY <1>1, <1>2, <1>3, <1>4, <1>5, <1>6

LEMMA ProbeKeeps == IInv /\ Probe => IInv'
<1>. SUFFICES ASSUME IInv, Probe PROVE IInv'
  OBVIOUS
<1>. USE DeployAssumption DEF IInv, Probe, Kept, Same, Over, Go, script, server, Running, Reading, Application, Written
<1>1. TypeOK'
  BY DEF TypeOK, Option, File, Whole
<1>2. Untouched'
  BY DEF Untouched, State, TypeOK
<1>3. Copied'
  BY DEF Copied, TypeOK
<1>4. Installed'
  BY DEF Installed, Untouched, TypeOK
<1>5. Proxied'
  BY DEF Proxied, Untouched, State, TypeOK
<1>6. Sound'
  BY NoneAccepted DEF Sound, Proxied, Copied, TypeOK
<1>. QED BY <1>1, <1>2, <1>3, <1>4, <1>5, <1>6

LEMMA NoFragmentKeeps == IInv /\ NoFragment => IInv'
<1>. SUFFICES ASSUME IInv, NoFragment PROVE IInv'
  OBVIOUS
<1>. USE DeployAssumption DEF IInv, NoFragment, Kept, Same, Over, Go, script, server, Running, Reading, Application, Written
<1>1. TypeOK'
  BY DEF TypeOK, Option, File, Whole
<1>2. Untouched'
  BY DEF Untouched, State, TypeOK
<1>3. Copied'
  BY DEF Copied, TypeOK
<1>4. Installed'
  BY DEF Installed, Untouched, TypeOK
<1>5. Proxied'
  BY DEF Proxied, Untouched, State, TypeOK
<1>6. Sound'
  BY NoneAccepted DEF Sound, Proxied, Copied, TypeOK
<1>. QED BY <1>1, <1>2, <1>3, <1>4, <1>5, <1>6

LEMMA RenderFailsKeeps == IInv /\ RenderFails => IInv'
<1>. SUFFICES ASSUME IInv, RenderFails PROVE IInv'
  OBVIOUS
<1>. USE DeployAssumption DEF IInv, RenderFails, Kept, Same, Over, Go, script, server, Running, Reading, Application, Written
<1>1. TypeOK'
  BY DEF TypeOK, Option, File, Whole
<1>2. Untouched'
  BY DEF Untouched, State, TypeOK
<1>3. Copied'
  BY DEF Copied, TypeOK
<1>4. Installed'
  BY DEF Installed, Untouched, TypeOK
<1>5. Proxied'
  BY DEF Proxied, Untouched, State, TypeOK
<1>6. Sound'
  BY NoneAccepted DEF Sound, Proxied, Copied, TypeOK
<1>. QED BY <1>1, <1>2, <1>3, <1>4, <1>5, <1>6

LEMMA InstallKeeps == IInv /\ Install => IInv'
<1>. SUFFICES ASSUME IInv, Install PROVE IInv'
  OBVIOUS
<1>. USE DeployAssumption DEF IInv, Install, Kept, Same, Over, Go, script, server, Running, Reading, Application, Written
<1>1. TypeOK'
  BY DEF TypeOK, Option, File, Whole
<1>2. Untouched'
  BY DEF Untouched, State, TypeOK
<1>3. Copied'
  BY DEF Copied, TypeOK
<1>4. Installed'
  BY DEF Installed, Untouched, TypeOK
<1>5. Proxied'
  BY DEF Proxied, Untouched, State, TypeOK
<1>6. Sound'
  BY NoneAccepted DEF Sound, Proxied, Copied, TypeOK
<1>. QED BY <1>1, <1>2, <1>3, <1>4, <1>5, <1>6

LEMMA InstallFailsKeeps == IInv /\ InstallFails => IInv'
<1>. SUFFICES ASSUME IInv, InstallFails PROVE IInv'
  OBVIOUS
<1>. USE DeployAssumption DEF IInv, InstallFails, Kept, Same, Over, Go, script, server, Running, Reading, Application, Written
<1>1. TypeOK'
  BY DEF TypeOK, Option, File, Whole
<1>2. Untouched'
  BY DEF Untouched, State, TypeOK
<1>3. Copied'
  BY DEF Copied, TypeOK
<1>4. Installed'
  BY DEF Installed, Untouched, TypeOK
<1>5. Proxied'
  BY DEF Proxied, Untouched, State, TypeOK
<1>6. Sound'
  BY NoneAccepted DEF Sound, Proxied, Copied, TypeOK
<1>. QED BY <1>1, <1>2, <1>3, <1>4, <1>5, <1>6

LEMMA TestKeeps == IInv /\ Test => IInv'
<1>. SUFFICES ASSUME IInv, Test PROVE IInv'
  OBVIOUS
<1>. USE DeployAssumption DEF IInv, Test, Kept, Same, Over, Go, script, server, Running, Reading, Application, Written, Valid
<1>1. TypeOK'
  BY DEF TypeOK, Option, File, Whole
<1>2. Untouched'
  BY DEF Untouched, State, TypeOK
<1>3. Copied'
  BY DEF Copied, TypeOK
<1>4. Installed'
  BY DEF Installed, Untouched, TypeOK
<1>5. Proxied'
  BY DEF Proxied, Untouched, State, TypeOK
<1>6. Sound'
  BY NoneAccepted DEF Sound, Proxied, Copied, TypeOK
<1>. QED BY <1>1, <1>2, <1>3, <1>4, <1>5, <1>6

LEMMA RestoreKeeps == IInv /\ Restore => IInv'
<1>. SUFFICES ASSUME IInv, Restore PROVE IInv'
  OBVIOUS
<1>. USE DeployAssumption DEF IInv, Restore, Kept, Same, Over, Go, script, server, Running, Reading, Application, Written, Restored
<1>1. TypeOK'
  BY DEF TypeOK, Option, File, Whole
<1>2. Untouched'
  BY DEF Untouched, State, TypeOK
<1>3. Copied'
  BY DEF Copied, TypeOK
<1>4. Installed'
  BY DEF Installed, Untouched, TypeOK
<1>5. Proxied'
  BY DEF Proxied, Untouched, State, TypeOK
<1>6. Sound'
  BY NoneAccepted DEF Sound, Proxied, Copied, TypeOK
<1>. QED BY <1>1, <1>2, <1>3, <1>4, <1>5, <1>6

LEMMA RestoreFailsKeeps == IInv /\ RestoreFails => IInv'
<1>. SUFFICES ASSUME IInv, RestoreFails PROVE IInv'
  OBVIOUS
<1>. USE DeployAssumption DEF IInv, RestoreFails, Kept, Same, Over, Go, script, server, Running, Reading, Application, Written
<1>1. TypeOK'
  BY DEF TypeOK, Option, File, Whole
<1>2. Untouched'
  BY DEF Untouched, State, TypeOK
<1>3. Copied'
  BY DEF Copied, TypeOK
<1>4. Installed'
  BY DEF Installed, Untouched, TypeOK
<1>5. Proxied'
  BY DEF Proxied, Untouched, State, TypeOK
<1>6. Sound'
  BY NoneAccepted DEF Sound, Proxied, Copied, TypeOK
<1>. QED BY <1>1, <1>2, <1>3, <1>4, <1>5, <1>6

LEMMA ReloadKeeps == IInv /\ Reload => IInv'
<1>. SUFFICES ASSUME IInv, Reload PROVE IInv'
  OBVIOUS
<1>. USE DeployAssumption DEF IInv, Reload, Kept, Same, Over, Go, script, server, Running, Reading, Application, Written, Valid
<1>1. TypeOK'
  <2>1. live' \in Whole
    BY AcceptedWhole DEF TypeOK
  <2>2. pc' = "over" /\ code' \in {"ok", "died"}
    OBVIOUS
  <2>. QED BY <2>1, <2>2 DEF TypeOK
<1>2. Untouched'
  BY DEF Untouched, State, TypeOK
<1>3. Copied'
  BY DEF Copied, TypeOK
<1>4. Installed'
  BY DEF Installed, Untouched, TypeOK
<1>5. Proxied'
  BY DEF Proxied, Untouched, State, TypeOK
<1>6. Sound'
  BY NoneAccepted DEF Sound, Proxied, Copied, TypeOK
<1>. QED BY <1>1, <1>2, <1>3, <1>4, <1>5, <1>6

LEMMA KilledKeeps == IInv /\ Killed => IInv'
<1>. SUFFICES ASSUME IInv, Killed PROVE IInv'
  OBVIOUS
<1>. USE DeployAssumption DEF IInv, Killed, Kept, Same, Over, Go, script, server, Running, Reading, Application, Written
<1>1. TypeOK'
  BY DEF TypeOK, Option, File, Whole
<1>2. Untouched'
  BY DEF Untouched, State, TypeOK
<1>3. Copied'
  BY DEF Copied, TypeOK
<1>4. Installed'
  BY DEF Installed, Untouched, TypeOK
<1>5. Proxied'
  BY DEF Proxied, Untouched, State, TypeOK
<1>6. Sound'
  BY NoneAccepted DEF Sound, Proxied, Copied, TypeOK
<1>. QED BY <1>1, <1>2, <1>3, <1>4, <1>5, <1>6

LEMMA PanelChangesKeeps == IInv /\ PanelChanges => IInv'
<1>. SUFFICES ASSUME IInv, PanelChanges PROVE IInv'
  OBVIOUS
<1>. USE DeployAssumption DEF IInv, PanelChanges, Kept, Same, Over, Go, script, server, Running, Reading, Application, Written
<1>1. TypeOK'
  BY DEF TypeOK, Option, File, Whole
<1>2. Untouched'
  BY DEF Untouched, State, TypeOK
<1>3. Copied'
  BY DEF Copied, TypeOK
<1>4. Installed'
  BY DEF Installed, Untouched, TypeOK
<1>5. Proxied'
  BY DEF Proxied, Untouched, State, TypeOK
<1>6. Sound'
  BY NoneAccepted DEF Sound, Proxied, Copied, TypeOK
<1>. QED BY <1>1, <1>2, <1>3, <1>4, <1>5, <1>6

LEMMA PanelReloadsKeeps == IInv /\ PanelReloads => IInv'
<1>. SUFFICES ASSUME IInv, PanelReloads PROVE IInv'
  OBVIOUS
<1>. USE DeployAssumption DEF IInv, PanelReloads, Kept, Same, Over, Go, script, server, Running, Reading, Application, Written, Valid
<1>1. TypeOK'
  <2>1. live' \in Whole
    BY AcceptedWhole DEF TypeOK
  <2>. QED BY <2>1 DEF TypeOK
<1>2. Untouched'
  BY DEF Untouched, State, TypeOK
<1>3. Copied'
  BY DEF Copied, TypeOK
<1>4. Installed'
  BY DEF Installed, Untouched, TypeOK
<1>5. Proxied'
  BY DEF Proxied, Untouched, State, TypeOK
<1>6. Sound'
  BY NoneAccepted DEF Sound, Proxied, Copied, TypeOK
<1>. QED BY <1>1, <1>2, <1>3, <1>4, <1>5, <1>6

LEMMA RollbackKeeps == IInv /\ Rollback => IInv'
<1>. SUFFICES ASSUME IInv, Rollback PROVE IInv'
  OBVIOUS
<1>. USE DeployAssumption DEF IInv, Rollback, Kept, Same, Over, Go, script, server, Running, Reading, Application, Written
<1>1. TypeOK'
  <2>1. frag' \in File /\ compose' \in File /\ app' \in Whole
    BY DEF TypeOK, File, Whole
  <2>2. live' \in Whole
    BY <2>1, AcceptedWhole DEF TypeOK
  <2>. QED BY <2>1, <2>2 DEF TypeOK
<1>2. Untouched'
  BY DEF Untouched, State, TypeOK
<1>3. Copied'
  BY DEF Copied, TypeOK
<1>4. Installed'
  BY DEF Installed, Untouched, TypeOK
<1>5. Proxied'
  BY DEF Proxied, Untouched, State, TypeOK
<1>6. Sound'
  BY NoneAccepted DEF Sound, Proxied, Copied, TypeOK
<1>. QED BY <1>1, <1>2, <1>3, <1>4, <1>5, <1>6

-----------------------------------------------------------------------------
(* The theorems.                                                           *)

LEMMA Initially == Init => IInv
<1>. SUFFICES ASSUME Init PROVE IInv
  OBVIOUS
<1>. USE DeployAssumption DEF Init
<1>1. opt \in Option
  <2>1. \E o \in Option : TRUE
    <3>1. PICK r \in Release : TRUE
      OBVIOUS
    <3>2. [release |-> r, dry |-> FALSE, skip |-> FALSE, proxy |-> FALSE, reload |-> FALSE] \in Option
      BY DEF Option
    <3>. QED BY <3>2
  <2>. QED BY <2>1
<1>2. compose \in Whole /\ frag \in Whole /\ Whole \subseteq File /\ frag \notin Refused
  BY NoneAccepted DEF File, Whole, Refused
<1>3. backup \in [done : BOOLEAN, compose : File, frag : File]
  BY DEF Nothing, File, Whole
<1>4. before \in [compose : File, frag : File, app : Whole]
  BY <1>2 DEF State
<1>5. TypeOK
  <2>1. {compose, frag} \subseteq File /\ {app, live} \subseteq Whole /\ runs \in 0 .. MaxRuns
    BY <1>2
  <2>2. pc = "idle" /\ had = FALSE /\ code = "none" /\ cut = FALSE /\ restOk = TRUE
    OBVIOUS
  <2>. HIDE DEF Init
  <2>. QED BY <1>1, <1>3, <1>4, <2>1, <2>2 DEF TypeOK
<1>6. Untouched /\ Installed /\ Proxied
  BY DEF Untouched, Installed, Proxied, Running, Reading, Application, Written
<1>7. Copied
  BY DEF Copied, Nothing, Running, Reading, Application, Written
<1>8. Sound
  BY <1>2 DEF Sound, Running, Reading, Application, Written
<1>. QED BY <1>5, <1>6, <1>7, <1>8 DEF IInv

LEMMA EveryStep == IInv /\ [Next]_vars => IInv'
<1>. SUFFICES ASSUME IInv, [Next]_vars PROVE IInv'
  OBVIOUS
<1>1. CASE UNCHANGED vars
  BY <1>1 DEF vars, script, server, IInv, TypeOK, Untouched, Copied, Installed, Proxied, Sound, State
<1>2. CASE Script
  BY <1>2, PrerequisitesKeeps, FindSiteKeeps, DryRunKeeps, BackupKeeps, CopyComposeKeeps, PullKeeps,
     UpKeeps, ProbeKeeps, NoFragmentKeeps, RenderFailsKeeps, InstallKeeps,
     InstallFailsKeeps, TestKeeps, RestoreKeeps, RestoreFailsKeeps, ReloadKeeps DEF Script
<1>3. CASE Begin \/ Killed \/ PanelChanges \/ PanelReloads \/ Rollback
  BY <1>3, BeginKeeps, KilledKeeps, PanelChangesKeeps, PanelReloadsKeeps, RollbackKeeps
<1>. QED BY <1>1, <1>2, <1>3 DEF Next

LEMMA Invariant == Spec => []IInv
BY Initially, EveryStep, PTL DEF Spec

\* Wherever a run of the script is, and however often it was killed before: a dry run
\* has changed nothing, a fragment is put in over no containers but those of its own
\* release, and one that the test refuses is left behind only by a kill before the end
\* of its test or by a failure of the very command that installs it or takes it out.
THEOREM DeployInvHolds == Spec => []DeployInv
<1>1. IInv => DeployInv
  <2>. SUFFICES ASSUME IInv PROVE DeployInv
    OBVIOUS
  <2>. USE DEF IInv, Running, Reading, Application, Written
  <2>1. DryIsDry
    BY DEF DryIsDry, Untouched, TypeOK
  <2>2. ProxyMeetsApp
    BY DEF ProxyMeetsApp, Installed
  <2>3. NoBrokenLeft
    BY DEF NoBrokenLeft, Sound
  <2>. QED BY <2>1, <2>2, <2>3 DEF DeployInv
<1>. QED BY <1>1, Invariant, PTL

\* A run that ends well has put in place what it was asked to: the compose file of the
\* release, unless that was skipped, with no containers of another one, and its
\* fragment, which the test accepted unless an earlier run left it there untested.
THEOREM SucceedsHolds == Spec => Succeeds
<1>. DEFINE Ends == pc # "over" /\ pc' = "over" /\ code' = "ok" /\ ~opt.dry
            Asked == /\ opt.skip \/ (compose' = opt.release /\ app' \in {opt.release, None})
                     /\ opt.proxy => frag' = opt.release /\ (cut \/ frag' \notin Refused)
<1>1. IInv /\ [Next]_vars => [Ends => Asked]_vars
  <2>. SUFFICES ASSUME IInv, Next, Ends PROVE Asked
    OBVIOUS
  <2>1. NoFragment \/ Test \/ Reload
    BY DEF Next, Script, Begin, Prerequisites, FindSite, DryRun, Backup, CopyCompose, Pull, Up, Probe,
           RenderFails, Install, InstallFails, Restore, RestoreFails, Killed, PanelChanges, PanelReloads, Rollback, Over, Go, script
  <2>2. pc \in {"fragment", "test", "reload"} /\ UNCHANGED <<compose, frag, app>>
    BY <2>1 DEF NoFragment, Test, Reload, server
  <2>3. opt.skip \/ (compose = opt.release /\ app \in {opt.release, None})
    BY <2>2 DEF IInv, Installed, Written
  <2>4. opt.proxy => frag = opt.release
    BY <2>1 DEF NoFragment, Test, Reload, IInv, Proxied, Written
  <2>5. cut \/ frag \notin Refused
    <3>1. CASE pc = "test"
      BY <2>1, <3>1 DEF NoFragment, Test, Reload, Valid, Go, Over
    <3>2. CASE pc # "test"
      BY <2>2, <3>2 DEF IInv, Sound
    <3>. QED BY <3>1, <3>2
  <2>. QED BY <2>2, <2>3, <2>4, <2>5
<1>. QED BY <1>1, Invariant, PTL DEF Spec, Succeeds

\* RESTORE.txt of a run, followed whenever the run is over, brings back the compose file
\* that was there before it; the fragment of before is brought back after a run that was
\* not to touch it, and after another none is left.  The web server has loaded just that
\* where its configuration passes the test.
THEOREM RollbackReturnsHolds == Spec => RollbackReturns
<1>. DEFINE Returned == /\ before.compose # None => compose' = before.compose
                        /\ frag' = IF opt.proxy THEN None ELSE before.frag
                        /\ restOk /\ frag' \notin Refused => live' = frag'
<1>1. IInv /\ [Next]_vars => [Rollback => Returned]_vars
  <2>. SUFFICES ASSUME IInv, Rollback PROVE Returned
    OBVIOUS
  <2>1. ~opt.proxy => frag = before.frag
    BY DEF IInv, Proxied, Rollback
  <2>. QED BY <2>1 DEF IInv, Copied, Rollback
<1>. QED BY <1>1, Invariant, PTL DEF Spec, RollbackReturns
=============================================================================
