---------------------------- MODULE Verification ----------------------------
(***************************************************************************)
(* scripts/verify_trackc.py: look at the archive (layer A), then unpack    *)
(* and run it on the server (layer B).  It may run while the archive is    *)
(* being written again.  Names, sizes, the ban on build products and every *)
(* check that only warns are left out, but for the public grader.          *)
(***************************************************************************)
EXTENDS Packing

VARIABLES
  verifier,    (* where the script is                                    *)
  verPid,
  wants,       (* which of --remote and --remote-public it was given     *)
  inspected,   (* the archive layer A read                               *)
  tested,      (* the tree on the server that layer B ran                *)
  failed,      (* the checks that reported FAIL                          *)
  verExit,     (* how its last run ended                                 *)
  verRuns

verVars == <<verifier, verPid, wants, inspected, tested, failed, verExit, verRuns>>

VerifyInit ==
  /\ verifier = "off" /\ verPid \in Pids /\ wants = {}
  /\ inspected = {} /\ tested = {} /\ failed = {}
  /\ verExit = "none" /\ verRuns = 0

VerifyDir == <<"verify", verPid>>
VerifyIdle == UNCHANGED <<repo, package, packVars>>
VerifyKeeps == UNCHANGED <<verPid, wants, verRuns>>

(* main: nothing to look at is told apart from a verdict.                  *)
Verify(pid, options) ==
  /\ verRuns < MaxRuns /\ verifier = "off"
  /\ verPid' = pid /\ wants' = options /\ verRuns' = verRuns + 1
  /\ failed' = {} /\ inspected' = {} /\ tested' = {}
  /\ IF package.state = "none" THEN verifier' = "off" /\ verExit' = "nothing_found"
                               ELSE verifier' = "layer_A" /\ UNCHANGED verExit
  /\ VerifyIdle /\ UNCHANGED hostVars

(* rep.print and the exit code.                                            *)
Report(fails) ==
  /\ failed' = fails
  /\ verifier' = "off"
  /\ verExit' = IF fails = {} THEN "pass" ELSE "fail"
  /\ VerifyKeeps /\ UNCHANGED <<inspected, tested>>
-----------------------------------------------------------------------------
Runnable(files, path) == \E entry \in files : entry[1] = path /\ entry[3]

(* layer_a: the checks that can FAIL, on the entries of an archive.        *)
Checks(files) ==
  [aec_cc     |-> Has(files, Wrapper),
   aec_cc_x   |-> Runnable(files, Wrapper),
   root       |-> Content(files, Wrapper) = {"root_./src"},
   makefile   |-> Has(files, "C1/compiler/src/Makefile"),
   sources    |-> Has(files, "C1/compiler/src/src"),
   libaec     |-> Has(files, Library),
   libaec_elf |-> Content(files, Library) = {"elf"},
   libaec_x   |-> Runnable(files, Library),
   no_device  |-> ~ Has(files, "C2/lib/libaec_device.so"),
   readme     |-> Has(files, "C3/readme.md"),
   commands   |-> Content(files, "C3/readme.md") = {"commands"},
   scheduler  |-> Has(files, "C3/src/scheduler"),
   runtime    |-> Has(files, "C3/src/runtime"),
   tools      |-> Has(files, "C3/src/tools")]

FailedChecks(files) == {c \in DOMAIN Checks(files) : ~ Checks(files)[c]}

(* An archive that is open for writing is no zip file: nothing catches     *)
(* that.                                                                   *)
LayerA ==
  /\ verifier = "layer_A"
  /\ VerifyIdle /\ UNCHANGED hostVars
  /\ IF package.state \notin {"packed", "cut"}
     THEN /\ verifier' = "off" /\ verExit' = "crashed"
          /\ VerifyKeeps /\ UNCHANGED <<inspected, tested, failed>>
     ELSE /\ inspected' = package.files
          /\ failed' = FailedChecks(package.files)
          /\ IF "remote" \in wants /\ failed' = {}
             THEN verifier' = "key" /\ UNCHANGED verExit
             ELSE verifier' = "off" /\ verExit' = IF failed' = {} THEN "pass" ELSE "fail"
          /\ VerifyKeeps /\ UNCHANGED tested
-----------------------------------------------------------------------------
(* layer_b: its steps in order.  A failed one up to the device library     *)
(* ends the layer; the later ones are independent of one another.          *)
Steps == <<"key", "mkdir", "push", "unzip_there", "unzip", "roots", "device",
           "selftest", "dlopen", "grader", "dag", "worker", "clean">>
StepAfter(step) == Steps[1 + CHOOSE i \in DOMAIN Steps : Steps[i] = step]
Timed == {"unzip", "selftest", "dlopen", "grader", "dag", "worker"}

Advance(step, fails) ==
  /\ verifier = step /\ verifier' = StepAfter(step)
  /\ failed' = failed \cup fails
  /\ VerifyIdle /\ VerifyKeeps /\ UNCHANGED <<inspected, verExit>>

RemoteKey ==
  /\ verifier = "key" /\ VerifyIdle
  /\ \/ ResolveKey /\ Advance("key", {}) /\ UNCHANGED tested
     \/ ~ ssh /\ Report({"ssh"}) /\ UNCHANGED hostVars
     \/ /\ NoKey /\ verifier' = "off" /\ verExit' = "no_key"
        /\ VerifyKeeps /\ UNCHANGED <<hostVars, inspected, tested, failed>>

RemoteMkdir ==
  /\ verifier = "mkdir"
  /\ \/ Hold(VerifyDir, NoFiles) /\ Advance("mkdir", {}) /\ UNCHANGED tested
     \/ Report({"mkdir"}) /\ VerifyIdle /\ UNCHANGED hostVars

(* Mutant: one early return forgets the directory. *)
SetupFailsKeeps(step) ==
  /\ verifier = step /\ Report({step}) /\ VerifyIdle
  /\ IF step = "roots" THEN UNCHANGED hostVars ELSE Rmtree(VerifyDir)

SetupFails(step) ==
  verifier = step /\ Rmtree(VerifyDir) /\ Report({step}) /\ VerifyIdle

(* Mutant: only what a check reported counts, not that the layer broke.    *)
BrokenAsWarning == {}

(* main: an exception in layer B is a FAIL.                                *)
Broken == {"layer_B"}

(* The archive is read a second time, and may be another one by now, or    *)
(* none: that raises, main reports it, and the directory stays.            *)
RemotePush ==
  \/ /\ package.state # "none"
     /\ Hold(VerifyDir, "zip" :> package.files) /\ Advance("push", {}) /\ UNCHANGED tested
  \/ SetupFails("push")
  \/ /\ verifier = "push" /\ package.state = "none"
     /\ Abandon(VerifyDir, "no_archive") /\ Report(Broken) /\ VerifyIdle

RemoteSetup(step, leaves) ==
  \/ Hold(VerifyDir, leaves) /\ Advance(step, {}) /\ UNCHANGED tested
  \/ SetupFails(step)

(* unzip refuses what is no closed archive.  It asks before it writes over *)
(* what an earlier process of this number left, and nobody answers: what   *)
(* was there stays.                                                        *)
RemoteUnzip ==
  \/ /\ verifier = "unzip" /\ Holding(VerifyDir)["zip"] # {}
     /\ Hold(VerifyDir, Holding(VerifyDir) @@ "root" :> Holding(VerifyDir)["zip"])
     /\ Advance("unzip", {}) /\ UNCHANGED tested
  \/ SetupFails("unzip")

(* Anything else that was left is in the listing as well.                  *)
RemoteRoots ==
  /\ verifier = "roots"
  /\ IF DOMAIN Holding(VerifyDir) = {"zip", "root"}
     THEN /\ tested' = Holding(VerifyDir)["root"]
          /\ Advance("roots", {}) /\ UNCHANGED hostVars
     ELSE SetupFails("roots")

(* What the programs of the submission need of it, nothing cut short.      *)
Works(step, files) ==
  LET Needs(paths) == \A p \in paths : Has(files, p) /\ Content(files, p) # {"cut"} IN
  CASE step = "selftest" -> Needs({"C1/compiler/src/Makefile", "C1/compiler/src/src",
                                   "C1/compiler/src/include"})
                            /\ Content(files, Wrapper) = {"root_./src"}
    [] step = "dlopen"   -> Content(files, Library) = {"elf"}
    [] step = "grader"   -> Content(files, Library) = {"elf"}
    [] step = "dag"      -> Needs({"C3/src/tools", "C3/src/scheduler"})
    [] step = "worker"   -> Needs({"C3/src/tools", "C3/src/scheduler", "C3/src/runtime"})

(* Mutant: what a smoke test says goes into the report as a warning.       *)
VerdictWarns(step, ok) == {}

(* rep.add: the grader only warns.                                         *)
Verdict(step, ok) == IF ok \/ step = "grader" THEN {} ELSE {step}

SmokeTest(step) ==
  /\ verifier = step
  /\ \E ok \in {Works(step, tested), FALSE} : Advance(step, Verdict(step, ok))
  /\ Hold(VerifyDir, IF step = "dag" THEN "dag" :> {} ELSE NoFiles)
  /\ UNCHANGED tested

(* No grader was found; without --remote-public none ever is, the default  *)
(* directory being quoted, tilde and all.                                  *)
NoGrader == Advance("grader", {}) /\ UNCHANGED <<hostVars, tested>>

(* Nor a model, and the server cannot make one: a warning too.             *)
NoModel == Advance("dag", {}) /\ UNCHANGED <<hostVars, tested>>

(* A command runs into its timeout: main reports it; nothing removes the   *)
(* directory.                                                              *)
VerifyTimeout ==
  /\ verifier \in Timed
  /\ Abandon(VerifyDir, "timeout") /\ Report(failed \cup Broken) /\ VerifyIdle

RemoteClean == verifier = "clean" /\ Rmtree(VerifyDir) /\ Report(failed) /\ VerifyIdle

InterruptVerify ==
  /\ verifier # "off"
  /\ Abandon(VerifyDir, "interrupt")
  /\ verifier' = "off" /\ verExit' = "interrupted"
  /\ VerifyKeeps /\ VerifyIdle /\ UNCHANGED <<inspected, tested, failed>>

VerifyNext ==
  \/ \E pid \in Pids, options \in {{}, {"remote"}, {"remote", "public"}} : Verify(pid, options)
  \/ LayerA
  \/ RemoteKey \/ RemoteMkdir \/ RemotePush \/ RemoteSetup("unzip_there", NoFiles) \/ RemoteUnzip
  \/ RemoteRoots \/ RemoteSetup("device", "official" :> {})
  \/ \E step \in {"selftest", "dlopen", "dag", "worker"} : SmokeTest(step)
  \/ SmokeTest("grader") /\ "public" \in wants
  \/ NoGrader \/ NoModel
  \/ VerifyTimeout \/ RemoteClean \/ InterruptVerify
=============================================================================
