----------------------------- MODULE SelfUpdate -----------------------------
(***************************************************************************)
(* How a runner follows the hub's version: the poll loop                   *)
(* (runner/src/updater.ts), what cmdRun does when the versions differ      *)
(* (runner/src/cli.ts), the script that moves the checkout step by step    *)
(* (runner/scripts/update.sh) and the process that launchd restarts.       *)
(* Commits of the main branch are numbered.                                *)
(***************************************************************************)
EXTENDS Naturals

CONSTANTS MaxCommit,    \* bound on the commits pushed to main
          MaxFailures   \* bound on failed steps, crashes and signals

ASSUME MaxCommitNat == MaxCommit \in Nat
ASSUME MaxFailuresNat == MaxFailures \in Nat

VARIABLES
  head,      \* main, on the server
  hub,       \* the version that the hub serves
  fetched,   \* refs/remotes/origin/main on the runner's machine
  tree,      \* the commit checked out there
  deps,      \* the commit that node_modules was installed for
  marker,    \* the failure marker, in each directory that could hold one
  proc,      \* what the runner's process does
  version,   \* Updater.config.currentVersion
  stopped,   \* a signal arrived: Updater.stopped, exit within 100 ms
  cause,     \* why the last process ended (read by properties only)
  failures   \* failed steps, crashes and signals so far

diskVars == <<fetched, tree, deps, marker>>
procVars == <<proc, version, stopped, cause>>
vars == <<head, hub, diskVars, procVars, failures>>

Commit == 0..MaxCommit

\* No commit is numbered so: an unknown version, a broken node_modules.
None == MaxCommit + 1

\* The directories of cli.ts (RUNNER_REPO_DIR) and of update.sh (REPO_DIR).
Dir == {"runner", "repo"}

\* "idle": the poll timer is armed, or updates are disabled
\* "polling": the request to /api/version is under way
\* the others: spawnSync runs update.sh, the event loop stands still
Script == {"git fetch", "git checkout", "npm ci"}
Proc == {"down", "idle", "polling"} \cup Script

Init ==
  /\ head = 0
  /\ hub = 0
  /\ fetched = 0
  /\ tree = 0
  /\ deps = 0
  /\ marker = [d \in Dir |-> "none"]
  /\ proc = "down"
  /\ version = None
  /\ stopped = FALSE
  /\ cause = "install"
  /\ failures = 0

Fails == failures < MaxFailures /\ failures' = failures + 1

-----------------------------------------------------------------------------
\* The rest of the world.

Push ==
  /\ head < MaxCommit
  /\ head' = head + 1
  /\ UNCHANGED <<hub, diskVars, procVars, failures>>

\* A deploy, sooner or later after the push, or a roll-back.
DeployHub(v) ==
  /\ v \in 0..head
  /\ hub' = v
  /\ UNCHANGED <<head, diskVars, procVars, failures>>

\* The cooldown of a marker is over.
MarkerAges(d) ==
  /\ marker[d] = "fresh"
  /\ marker' = [marker EXCEPT ![d] = "old"]
  /\ UNCHANGED <<head, hub, fetched, tree, deps, procVars, failures>>

-----------------------------------------------------------------------------
\* The process.

\* cmdRun up to updater.start().  A process that lacks its modules dies at
\* its imports; one whose modules are another commit's may do so.
Starts(v) ==
  /\ proc = "down"
  /\ deps # None
  /\ proc' = "idle"
  /\ version' = v
  /\ UNCHANGED <<head, hub, diskVars, stopped, cause>>

Boot == Starts(tree) /\ UNCHANGED failures

\* detectRunnerVersion finds no version: start() arms no timer.
BootUnversioned == Starts(None) /\ Fails

\* The process ends, and launchd will start another.
Ends(why) ==
  /\ proc' = "down"
  /\ version' = None
  /\ stopped' = FALSE
  /\ cause' = why

\* A crash, or a kill.  What npm was doing stays undone.
Crash ==
  /\ proc # "down"
  /\ Fails
  /\ Ends("crash")
  /\ deps' \in IF proc = "npm ci" THEN {deps, None} ELSE {deps}
  /\ UNCHANGED <<head, hub, fetched, tree, marker>>

Listening == proc \in {"idle", "polling"}

\* SIGINT or SIGTERM: updater.stop() disarms the timer, a poll under way goes on.
Signal ==
  /\ Listening
  /\ ~stopped
  /\ Fails
  /\ stopped' = TRUE
  /\ UNCHANGED <<head, hub, diskVars, proc, version, cause>>

ExitStopped ==
  /\ Listening
  /\ stopped
  /\ Ends("signal")
  /\ UNCHANGED <<head, hub, diskVars, failures>>

-----------------------------------------------------------------------------
\* The poll loop.

PollTimer ==
  /\ proc = "idle"
  /\ version # None
  /\ ~stopped
  /\ proc' = "polling"
  /\ UNCHANGED <<head, hub, diskVars, version, stopped, cause, failures>>

\* checkOnce is over, whatever came of it: the next timer is armed.
BackToIdle == proc' = "idle" /\ UNCHANGED <<version, stopped, cause>>

\* No answer, an error status, no JSON, no version in it.
PollSkipped ==
  /\ proc = "polling"
  /\ Fails
  /\ BackToIdle
  /\ UNCHANGED <<head, hub, diskVars>>

\* A bug: a marker is a marker, however old.
SkipAnyMarker == \E d \in Dir : marker[d] # "none"

\* shouldSkipUpdate: it looks in RUNNER_REPO_DIR.
ShouldSkipUpdate == marker["runner"] = "fresh"

\* The hub's version arrives: nothing to do, or onUpdateNeeded starts the script.
PollAnswered ==
  /\ proc = "polling"
  /\ proc' = IF hub # version /\ ~ShouldSkipUpdate THEN "git fetch" ELSE "idle"
  /\ UNCHANGED <<head, hub, diskVars, version, stopped, cause, failures>>

-----------------------------------------------------------------------------
\* update.sh.

GitFetch ==
  /\ proc = "git fetch"
  /\ fetched' = head
  /\ proc' = "git checkout"
  /\ UNCHANGED <<head, hub, tree, deps, marker, version, stopped, cause, failures>>

\* A bug: the process exits before the script is done.
CheckoutDetached ==
  /\ proc = "git checkout"
  /\ tree' = fetched
  /\ Ends("update")
  /\ UNCHANGED <<head, hub, fetched, deps, marker, failures>>

\* To origin's default branch, whatever version the hub asked for.
GitCheckout ==
  /\ proc = "git checkout"
  /\ tree' = fetched
  /\ proc' = "npm ci"
  /\ UNCHANGED <<head, hub, fetched, deps, marker, version, stopped, cause, failures>>

\* A bug: empty the marker instead of removing it.
NpmCiEmptiesMarker ==
  /\ proc = "npm ci"
  /\ deps' = tree
  /\ marker' = [marker EXCEPT !["repo"] = "empty"]
  /\ Ends("update")
  /\ UNCHANGED <<head, hub, fetched, tree, failures>>

\* The last step; the script removes its marker, cmdRun exits.
NpmCi ==
  /\ proc = "npm ci"
  /\ deps' = tree
  /\ marker' = [marker EXCEPT !["repo"] = "none"]
  /\ Ends("update")
  /\ UNCHANGED <<head, hub, fetched, tree, failures>>

\* mark_failure: the marker goes to REPO_DIR, the runner goes on.
ScriptFails ==
  /\ proc \in Script
  /\ Fails
  /\ marker' = [marker EXCEPT !["repo"] = "fresh"]
  /\ deps' \in IF proc = "npm ci" THEN {deps, None} ELSE {deps}
  /\ BackToIdle
  /\ UNCHANGED <<head, hub, fetched, tree>>

\* The script could not be started, or `set -e' ended it before git fetch.
ScriptAborts ==
  /\ proc = "git fetch"
  /\ Fails
  /\ BackToIdle
  /\ UNCHANGED <<head, hub, diskVars>>

-----------------------------------------------------------------------------
Polls == PollTimer \/ PollSkipped \/ PollAnswered

ScriptSteps == GitFetch \/ GitCheckout \/ NpmCi \/ ScriptFails \/ ScriptAborts

Next ==
  \/ Push
  \/ \E v \in Commit : DeployHub(v)
  \/ \E d \in Dir : MarkerAges(d)
  \/ Boot \/ BootUnversioned
  \/ Crash \/ Signal \/ ExitStopped
  \/ Polls
  \/ ScriptSteps

Spec == Init /\ [][Next]_vars

\* launchd restarts what is able to start, timers fire, requests and commands
\* end.  That they end well is not assumed: MaxFailures bounds how often not.
FairSpec ==
  /\ Spec
  /\ WF_vars(Boot /\ deps = tree)
  /\ WF_vars(ExitStopped)
  /\ WF_vars(Polls)
  /\ WF_vars(ScriptSteps)

-----------------------------------------------------------------------------
\* The process, the checkout and the marker never hold anything else: a commit
\* that was not pushed is not served, fetched, checked out or installed.
TypeOK ==
  /\ head \in Commit
  /\ {hub, fetched, tree} \subseteq 0..head
  /\ deps \in (0..head) \cup {None}
  /\ marker \in [Dir -> {"none", "fresh", "old"}]
  /\ proc \in Proc
  /\ version \in (0..head) \cup {None}
  /\ stopped \in BOOLEAN
  /\ cause \in {"install", "update", "crash", "signal"}
  /\ failures \in 0..MaxFailures

\* What launchd boots after an update is complete: the checkout that the script
\* made, with the modules of that commit (cmdRun runs the script to its end
\* before it exits).
BootsComplete == proc = "down" /\ cause = "update" => deps = tree

\* Every commit that main's hub serves reaches the runner, whatever failed on
\* the way, unless the hub moves on, the runner's version is unknown, or a crash
\* met a checkout without its modules.
Propagates ==
  hub = head ~>
    \/ hub # head
    \/ version = hub
    \/ version = None /\ (proc # "down" \/ deps # tree)
=============================================================================
