------------------------------- MODULE Deploy -------------------------------
(***************************************************************************)
(* Putting the panel on a server that already serves other sites           *)
(* (infra/vps/ispmanager/deploy-panel.sh).                                 *)
(*                                                                         *)
(* The script is run by hand, again and again, with other options or       *)
(* another release.  Every command of it may fail, which ends it (set -e)  *)
(* and may leave the file it was writing torn, and it may be killed        *)
(* between any two commands.  Containers may die once they are up.         *)
(* Meanwhile the control panel of the server changes and reloads the web   *)
(* server's configuration as it likes.                                     *)
(***************************************************************************)
EXTENDS Naturals

CONSTANTS
    Release,    \* what the script installs: compose file and fragment of one release
    Bad,        \* the releases whose fragment the configuration test refuses
    MaxRuns     \* bound on the runs of the script

None == "none"
Torn == "torn"      \* what a cp or an install that fails half-way leaves

ASSUME DeployAssumption ==
    Release # {} /\ Bad \subseteq Release /\ {None, Torn} \cap Release = {} /\ MaxRuns \in Nat

VARIABLES
    pc,         \* the section the script is in, idle or over
    opt,        \* the options of this run
    had,        \* HAD_CONF
    code,       \* how the run ended: none, ok, died
    cut,        \* history: a fragment was once left untested or torn, by a kill
                \* before the end of its test or by a failing install, cp or rm
    compose,    \* docker-compose.yml of APP_DIR
    frag,       \* the fragment in the directory of resources of the domain
    app,        \* the release that runs in the containers
    live,       \* the fragment the web server has loaded
    restOk,     \* the rest of the web server's configuration passes its test
    backup,     \* the copies in the backup directory of this run
    before,     \* compose, frag and app when the run began
    runs

script == <<pc, opt, had, code, cut, backup, before, runs>>
server == <<compose, frag, app, live, restOk>>
vars == <<script, server>>

File == Release \cup {None, Torn}
Whole == Release \cup {None}

\* What the configuration test refuses; a torn fragment is taken for refused, the worse
\* of the two cases.
Refused == Bad \cup {Torn}
Option == [release : Release, dry : BOOLEAN, skip : BOOLEAN, proxy : BOOLEAN, reload : BOOLEAN]
State == [compose |-> compose, frag |-> frag, app |-> app]
Nothing == [done |-> FALSE, compose |-> None, frag |-> None]

TypeOK ==
    /\ pc \in {"idle", "check", "site", "backup", "copy", "config", "up", "probe", "fragment",
               "test", "restore", "reload", "over"}
    /\ opt \in Option /\ had \in BOOLEAN /\ cut \in BOOLEAN
    /\ code \in {"none", "ok", "died"}
    /\ {compose, frag} \subseteq File /\ {app, live} \subseteq Whole /\ restOk \in BOOLEAN
    /\ backup \in [done : BOOLEAN, compose : File, frag : File]
    /\ before \in [compose : File, frag : File, app : Whole]
    /\ runs \in 0 .. MaxRuns

\* A server without the panel, or with an installation that works.
Init ==
    /\ pc = "idle" /\ opt = (CHOOSE o \in Option : TRUE) /\ had = FALSE /\ code = "none" /\ cut = FALSE
    /\ compose \in Whole /\ app = compose
    /\ frag \in {None} \cup ({compose} \ Bad) /\ live = frag
    /\ restOk = TRUE
    /\ backup = Nothing /\ before = State /\ runs = 0

\* nginx -t, apachectl configtest
Valid == restOk /\ frag \notin Refused

Over(c) == pc' = "over" /\ code' = c
Go(to) == pc' = to /\ UNCHANGED code
Same == UNCHANGED <<opt, before, runs>>
Kept == Same /\ UNCHANGED cut

-----------------------------------------------------------------------------
(* One run of the script.                                                  *)

Begin ==
    /\ pc \in {"idle", "over"} /\ runs < MaxRuns
    /\ opt' \in Option /\ runs' = runs + 1
    /\ pc' = "check" /\ code' = "none" /\ had' = FALSE
    /\ backup' = Nothing /\ before' = State
    /\ UNCHANGED <<cut, server>>

\* Docker, ports, subnets, disk, .env: all of it read only.
Prerequisites ==
    /\ pc = "check" /\ (Go("site") \/ Over("died"))
    /\ Kept /\ UNCHANGED <<had, backup, server>>

\* The domain's configuration, its directory of resources, the web server's modules.
FindSite ==
    /\ pc = "site" /\ (Go("backup") \/ (opt.proxy /\ Over("died")))
    /\ Kept /\ UNCHANGED <<had, backup, server>>

\* (Mutant) Files that an earlier run has put there are not copied.
CopiesForeign == [done |-> TRUE, compose |-> IF runs = 1 THEN compose ELSE None, frag |-> frag]

\* backup_path: what there is; the fragment only when a web server is to be changed.
Copies ==
    [done |-> TRUE, compose |-> compose, frag |-> IF opt.proxy THEN frag ELSE None]

\* A dry run prints its plan from here on and changes nothing.
DryRun ==
    /\ pc = "backup" /\ opt.dry /\ (Over("ok") \/ Over("died"))
    /\ Kept /\ UNCHANGED <<had, backup, server>>

Backup ==
    /\ pc = "backup" /\ ~opt.dry
    /\ \/ backup' = Copies /\ Go(IF opt.skip THEN "fragment" ELSE "copy")
       \/ UNCHANGED backup /\ Over("died")
    /\ Kept /\ UNCHANGED <<had, server>>

\* A compose file that is up to date is not written.
CopyCompose ==
    /\ pc = "copy"
    /\ \/ compose' = opt.release /\ Go("config")
       \/ compose' \in {compose, IF compose = opt.release THEN compose ELSE Torn} /\ Over("died")
    /\ Kept /\ UNCHANGED <<had, backup, frag, app, live, restOk>>

\* docker compose config, docker compose pull
Pull ==
    /\ pc = "config" /\ (Go("up") \/ Over("died"))
    /\ Kept /\ UNCHANGED <<had, backup, server>>

\* (Mutant) The script goes on when the containers do not come up.
UpAnyway ==
    /\ pc = "up" /\ app' \in {app, None, compose} /\ Go("probe")
    /\ Kept /\ UNCHANGED <<had, backup, compose, frag, live, restOk>>

\* docker compose up: when it fails it has perhaps stopped what ran before.
Up ==
    /\ pc = "up"
    /\ \/ app' = compose /\ Go("probe")
       \/ app' \in {app, None, compose} /\ Over("died")
    /\ Kept /\ UNCHANGED <<had, backup, compose, frag, live, restOk>>

\* Twenty attempts, during which the containers may die.  wget tells 000 and the script
\* dies.  A curl that fails has printed its 000 before the other is added: 000000 is
\* taken for an answer, and so is "skip" without either of them; the script goes on.
Probe ==
    /\ pc = "probe"
    /\ app' \in {app, None} /\ (Go("fragment") \/ Over("died"))
    /\ Kept /\ UNCHANGED <<had, backup, compose, frag, live, restOk>>

\* No proxy is asked for, or what would be written is there already.
NoFragment ==
    /\ pc = "fragment" /\ (~opt.proxy \/ frag = opt.release)
    /\ Over("ok") /\ Kept /\ UNCHANGED <<had, backup, server>>

\* The template is missing or not filled in.
RenderFails ==
    /\ pc = "fragment" /\ opt.proxy /\ Over("died")
    /\ Kept /\ UNCHANGED <<had, backup, server>>

Install ==
    /\ pc = "fragment" /\ opt.proxy /\ frag # opt.release
    /\ had' = (frag # None) /\ frag' = opt.release /\ Go("test")
    /\ Kept /\ UNCHANGED <<backup, compose, app, live, restOk>>

\* mkdir or install fails: install removes what was there before it writes.
InstallFails ==
    /\ pc = "fragment" /\ opt.proxy /\ frag # opt.release
    /\ had' = (frag # None) /\ frag' \in {frag, None, Torn} /\ Over("died")
    /\ cut' = (cut \/ frag' = Torn)
    /\ Same /\ UNCHANGED <<backup, compose, app, live, restOk>>

\* (Mutant) What a test refuses stays for the administrator to look at.
RestoredNever == frag

\* The fragment of before, or none.  (cp fails when there is no copy.)
Restored ==
    IF ~had THEN None ELSE IF backup.frag = None THEN frag ELSE backup.frag

Test ==
    /\ pc = "test"
    /\ IF ~Valid THEN Go("restore")
       ELSE IF opt.reload THEN Go("reload") ELSE Over("ok")
    /\ Kept /\ UNCHANGED <<had, backup, server>>

Restore ==
    /\ pc = "restore" /\ frag' = Restored /\ Over("died")
    /\ Kept /\ UNCHANGED <<had, backup, compose, app, live, restOk>>

\* rm fails, or cp does before or while it writes: the script dies without its message,
\* and the fragment is where it was, or torn.
RestoreFails ==
    /\ pc = "restore" /\ frag' \in {frag, IF had THEN Torn ELSE frag} /\ Over("died")
    /\ cut' = TRUE
    /\ Same /\ UNCHANGED <<had, backup, compose, app, live, restOk>>

\* A reload of a refused configuration fails; another may fail too.
Reload ==
    /\ pc = "reload"
    /\ \/ Valid /\ live' = frag /\ Over("ok")
       \/ UNCHANGED live /\ Over("died")
    /\ Kept /\ UNCHANGED <<had, backup, compose, frag, app, restOk>>

Script ==
    \/ Prerequisites \/ FindSite \/ DryRun \/ Backup \/ CopyCompose \/ Pull \/ Up \/ Probe
    \/ NoFragment \/ RenderFails \/ Install \/ InstallFails \/ Test \/ Restore \/ RestoreFails
    \/ Reload

-----------------------------------------------------------------------------
(* Around it.                                                              *)

\* The terminal goes away.
Killed ==
    /\ pc \notin {"idle", "over"} /\ Over("died")
    /\ cut' = (cut \/ pc \in {"test", "restore"})
    /\ UNCHANGED <<opt, had, backup, before, runs, server>>

PanelChanges ==
    restOk' = ~restOk /\ UNCHANGED <<script, compose, frag, app, live>>

\* A reload of a refused configuration leaves the old one at work.
PanelReloads ==
    Valid /\ live' = frag /\ UNCHANGED <<script, compose, frag, app, restOk>>

\* The administrator follows RESTORE.txt of the last run.  It names the fragment only
\* when that run was to install one (TARGET_CONF); the reload follows a test.
Rollback ==
    /\ pc = "over" /\ backup.done
    /\ frag' = IF opt.proxy THEN None ELSE frag
    /\ live' = IF restOk /\ frag' \notin Refused THEN frag' ELSE live
    /\ app' = None
    /\ compose' = IF backup.compose = None THEN compose ELSE backup.compose
    /\ UNCHANGED <<script, restOk>>

Next == Begin \/ Script \/ Killed \/ PanelChanges \/ PanelReloads \/ Rollback

\* Every command of the script ends.
Spec == Init /\ [][Next]_vars /\ WF_vars(Script)

-----------------------------------------------------------------------------
(* Properties.                                                             *)

\* A dry run changes neither files nor containers, however it ends.
DryIsDry == opt.dry /\ pc \notin {"idle", "over"} => State = before

\* A fragment goes in over containers that this run has brought up from the compose
\* file of its own release, or that have died since; never over those of another one.
ProxyMeetsApp ==
    pc \in {"test", "restore", "reload"} /\ ~opt.skip =>
        compose = opt.release /\ app \in {opt.release, None}

\* A fragment that the test refuses is never left to the next reload, unless the script
\* is killed between its installation and the end of its test, or the command that
\* installs it or takes it out fails itself ("оставлять на сервере файл, который ломает
\* конфигурацию, нельзя").
NoBrokenLeft == pc \in {"idle", "over"} /\ ~cut => frag \notin Refused

DeployInv == TypeOK /\ DryIsDry /\ ProxyMeetsApp /\ NoBrokenLeft

\* A run that ends well, and is not rolled back, has installed what it was asked to: the
\* compose file, with no containers of another release, and the fragment, which passed
\* its test unless an earlier run left it there untested.
Succeeds == [][pc # "over" /\ pc' = "over" /\ code' = "ok" /\ ~opt.dry =>
    /\ opt.skip \/ (compose' = opt.release /\ app' \in {opt.release, None})
    /\ opt.proxy => frag' = opt.release /\ (cut \/ frag' \notin Refused)]_vars

\* Following RESTORE.txt, wherever the run ended, brings back the compose file of before
\* it.  After a run with a proxy no fragment is left, neither its own nor an earlier
\* one; after a run without, the fragment is the one that was there before.  What the
\* web server has loaded then is that, where its configuration passes the test.
RollbackReturns ==
    [][Rollback => /\ before.compose # None => compose' = before.compose
                   /\ frag' = IF opt.proxy THEN None ELSE before.frag
                   /\ restOk /\ frag' \notin Refused => live' = frag']_vars
=============================================================================
