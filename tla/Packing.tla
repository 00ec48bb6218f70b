------------------------------ MODULE Packing ------------------------------
(***************************************************************************)
(* scripts/pack_trackc.py: make sure there is a C2 library, stage the      *)
(* three parts of the submission in its layout and write the archive.      *)
(* Trees and archives are sets of <<path, content>> pairs; a directory     *)
(* that is copied whole is one path.  Names, sizes and messages are left   *)
(* out, and with them the filter that keeps build products out of a tree.  *)
(***************************************************************************)
EXTENDS RemoteHost, Sequences

CONSTANT Trees  (* the sources a repository may have: parts of Sources,    *)
                (* or of what a hand-edited one has instead                *)
CONSTANT Cuts   (* bound: after how many entries writing the archive stops *)

VARIABLES
  repo,      (* the working tree                                        *)
  package,   (* the archive: none, open for writing, cut short, packed   *)
  packer,    (* where the script is                                     *)
  packPid, mode, staged,
  packRuns

packVars == <<packer, packPid, mode, staged, packRuns>>

Has(tree, path) == \E entry \in tree : entry[1] = path
Content(tree, path) == {entry[2] : entry \in {e \in tree : e[1] = path}}
Library == "C2/libaec.so"
Wrapper == "C1/compiler/aec-cc"

Sources ==
  {<<Wrapper, "root_..">>, <<"C1/Makefile", "file">>, <<"C1/src", "tree">>,
   <<"C1/include", "tree">>, <<"C1/tools", "tree">>,
   <<"C2/agents/dma_agent.py", "file">>, <<"C2/agents/kernel_agent.py", "file">>,
   <<"C3/README.md", "commands">>, <<"C3/requirements.txt", "file">>,
   <<"C3/src/scheduler", "tree">>, <<"C3/src/runtime", "tree">>, <<"C3/src/tools", "tree">>}

(* A path has one content, and the library is built, not written.          *)
ASSUME TreesAssumption ==
  \A tree \in Trees : \A e, f \in tree :
    e = <<e[1], e[2]>> /\ e[1] # Library /\ (e[1] = f[1] => e = f)

NoPackage == [state |-> "none", files |-> {}]
OpenPackage == [state |-> "open", files |-> {}]

(* A repository may lack sources, or have another wrapper; the library may *)
(* be missing, or no ELF file.                                             *)
PackInit ==
  /\ \E sources \in Trees, library \in {{}, {<<Library, "junk">>}, {<<Library, "elf">>}} :
       repo = sources \cup library
  /\ package = NoPackage
  /\ packer = "off" /\ packPid \in Pids /\ mode = "auto" /\ staged = {}
  /\ packRuns = 0

NoFiles == [n \in {} |-> {}]
BuildDir == <<"build", packPid>>
PackGoto(from, to) == packer = from /\ packer' = to
PackStays == UNCHANGED <<packPid, mode, packRuns>>

PackEnds ==
  /\ packer' = "off" /\ staged' = {} /\ mode' = "auto"
  /\ UNCHANGED <<packPid, packRuns>>

Pack(pid, m) ==
  /\ packRuns < MaxRuns
  /\ PackGoto("off", "library")
  /\ packPid' = pid /\ mode' = m /\ packRuns' = packRuns + 1
  /\ UNCHANGED <<hostVars, repo, package, staged>>

PackMoves(from, to) == PackGoto(from, to) /\ PackStays /\ UNCHANGED staged
-----------------------------------------------------------------------------
(* ensure_libaec: a library that is an ELF file is taken as it is.         *)
LibraryThere ==
  /\ Content(repo, Library) = {"elf"}
  /\ PackMoves("library", "stage_c1")
  /\ UNCHANGED <<hostVars, repo, package>>

(* Where a failed remote build leads.                                      *)
BuildFails ==
  IF mode = "auto" THEN packer' = "wsl" /\ PackStays /\ UNCHANGED staged
                   ELSE PackEnds

Build ==
  /\ packer = "library" /\ Content(repo, Library) # {"elf"}
  /\ UNCHANGED <<repo, package>>
  /\ \/ mode = "none" /\ PackEnds /\ UNCHANGED hostVars
     \/ mode = "wsl" /\ PackMoves("library", "wsl") /\ UNCHANGED hostVars
     \/ /\ mode \in {"auto", "remote"}
        /\ \/ ResolveKey /\ PackMoves("library", "mkdir")
           \/ ~ ssh /\ BuildFails /\ UNCHANGED hostVars
           \/ NoKey /\ PackEnds /\ UNCHANGED hostVars

(* build_c2_remote: what went wrong before there was a directory, and what *)
(* went wrong after.                                                       *)
BuildMkdir ==
  /\ packer = "mkdir"
  /\ \/ Hold(BuildDir, NoFiles) /\ PackMoves("mkdir", "push")
     \/ BuildFails /\ UNCHANGED hostVars
  /\ UNCHANGED <<repo, package>>

(* Mutant: the directory stays when the build fails. *)
BuildStepKeeps(from, to, files) ==
  /\ packer = from
  /\ \/ Hold(BuildDir, files) /\ PackMoves(from, to)
     \/ UNCHANGED hostVars /\ BuildFails
  /\ UNCHANGED <<repo, package>>

BuildStep(from, to, files) ==
  /\ packer = from
  /\ \/ Hold(BuildDir, files) /\ PackMoves(from, to)
     \/ Rmtree(BuildDir) /\ BuildFails
  /\ UNCHANGED <<repo, package>>

BuildTimeout ==
  /\ packer = "make"
  /\ Abandon(BuildDir, "timeout") /\ BuildFails
  /\ UNCHANGED <<repo, package>>

(* The library comes back through a login shell, whose profile may print   *)
(* before it.                                                              *)
Pull ==
  /\ packer = "pull"
  /\ \/ /\ \E content \in {"elf", "junk"} :
             repo' = {entry \in repo : entry[1] # Library} \cup {<<Library, content>>}
        /\ PackMoves("pull", "clean") /\ UNCHANGED hostVars
     \/ Rmtree(BuildDir) /\ BuildFails /\ UNCHANGED repo
  /\ UNCHANGED package

Clean ==
  /\ packer = "clean"
  /\ Rmtree(BuildDir)
  /\ IF Content(repo, Library) = {"elf"} THEN PackMoves("clean", "stage_c1") ELSE BuildFails
  /\ UNCHANGED <<repo, package>>

(* build_c2_wsl: make has nothing to do for a file that is there, and what *)
(* it leaves is not looked at.                                             *)
BuildWsl ==
  /\ packer = "wsl"
  /\ \/ /\ repo' = IF Has(repo, Library) THEN repo ELSE repo \cup {<<Library, "elf">>}
        /\ PackMoves("wsl", "stage_c1")
     \/ PackEnds /\ UNCHANGED repo
  /\ UNCHANGED <<hostVars, package>>
-----------------------------------------------------------------------------
Staged(moves) == {<<pair[1][2], pair[2][2]>> : pair \in
                    {p \in moves \X repo : p[2][1] = p[1][1]}}

(* The wrapper of the repository looks for the compiler one level up; one  *)
(* that does not is copied as it is.                                       *)
Rewritten(root) == IF root = "root_.." THEN "root_./src" ELSE root

(* stage_c1: the entry must be there; of the rest what there is.           *)
StageC1 ==
  /\ packer = "stage_c1"
  /\ IF ~ Has(repo, Wrapper) THEN PackEnds
     ELSE /\ packer' = "stage_c2"
          /\ staged' = {<<Wrapper, Rewritten(root)>> : root \in Content(repo, Wrapper)} \cup
               Staged({<<"C1/Makefile", "C1/compiler/src/Makefile">>,
                       <<"C1/src", "C1/compiler/src/src">>,
                       <<"C1/include", "C1/compiler/src/include">>,
                       <<"C1/tools", "C1/compiler/src/tools">>})
          /\ PackStays
  /\ UNCHANGED <<hostVars, repo, package>>

(* Mutant: any file of that name will do. *)
IsLibrary(contents) == contents # {}

(* is_elf *)
IsElf(contents) == contents = {"elf"}

StageC2 ==
  /\ packer = "stage_c2"
  /\ IF ~ IsElf(Content(repo, Library)) THEN PackEnds
     ELSE /\ packer' = "stage_c3"
          /\ staged' = staged \cup
               Staged({<<p, p>> : p \in {Library, "C2/agents/dma_agent.py",
                                         "C2/agents/kernel_agent.py"}})
          /\ PackStays
  /\ UNCHANGED <<hostVars, repo, package>>

(* Mutant: the name of the repository is kept. *)
ReadmeAsIs == "C3/README.md"

Readme == "C3/readme.md"

StageC3 ==
  /\ PackGoto("stage_c3", "unlink")
  /\ staged' = staged \cup
       Staged({<<p, p>> : p \in {"C3/requirements.txt", "C3/src/scheduler", "C3/src/runtime",
                                 "C3/src/tools"}}
              \cup {<<"C3/README.md", Readme>>})
  /\ PackStays
  /\ UNCHANGED <<hostVars, repo, package>>

(* write_zip: the previous archive goes first, the new one grows in place. *)
Unlink ==
  /\ PackMoves("unlink", "open")
  /\ package' = NoPackage
  /\ UNCHANGED <<hostVars, repo>>

OpenZip ==
  /\ PackMoves("open", "write")
  /\ package' = OpenPackage
  /\ UNCHANGED <<hostVars, repo>>

(* mode_for: directories, the entry, libraries and scripts; what a         *)
(* directory holds gets its mode one by one.                               *)
Executable(path) == path \notin {"C1/compiler/src/Makefile", Readme, "C3/requirements.txt"}
Archived(entries) == {<<entry[1], entry[2], Executable(entry[1])>> : entry \in entries}

WriteZip ==
  /\ packer = "write"
  /\ package' = [state |-> "packed", files |-> Archived(staged)]
  /\ PackEnds
  /\ UNCHANGED <<hostVars, repo>>

(* os.walk with the names sorted: the order of the entries.                *)
Order == <<Wrapper, "C1/compiler/src/Makefile", "C1/compiler/src/include",
           "C1/compiler/src/src", "C1/compiler/src/tools", Library,
           "C2/agents/dma_agent.py", "C2/agents/kernel_agent.py", Readme,
           "C3/requirements.txt", "C3/src/runtime", "C3/src/scheduler", "C3/src/tools">>
Prefix(i) == {entry \in staged : \E j \in 1 .. i : Order[j] = entry[1]}

(* An error or an interrupt while entries are written: leaving the "with"  *)
(* closes the archive, which can be read and ends in the middle of a tree. *)
WriteStops ==
  /\ packer = "write"
  /\ \E i \in Cuts :
       /\ package' = [state |-> "cut",
                      files |-> Archived(Prefix(i) \cup
                        {<<Order[i + 1], "cut">> : entry \in
                           {e \in staged : e[1] = Order[i + 1] /\ e[2] = "tree"}})]
       /\ PackEnds
  /\ UNCHANGED <<hostVars, repo>>

-----------------------------------------------------------------------------
(* The developer: kills the script, and removes the library.               *)
InterruptPack ==
  /\ packer # "off"
  /\ Abandon(BuildDir, "interrupt") /\ PackEnds
  /\ UNCHANGED <<repo, package>>

MakeClean ==
  /\ Has(repo, Library)
  /\ repo' = {entry \in repo : entry[1] # Library}
  /\ UNCHANGED <<hostVars, package, packVars>>

PackNext ==
  \/ \E pid \in Pids, m \in {"auto", "remote", "wsl", "none"} : Pack(pid, m)
  \/ LibraryThere \/ Build
  \/ BuildMkdir
  \/ BuildStep("push", "make", "sources" :> {}) \/ BuildStep("make", "pull", "library" :> {})
  \/ BuildTimeout \/ Pull \/ Clean \/ BuildWsl
  \/ StageC1 \/ StageC2 \/ StageC3 \/ Unlink \/ OpenZip \/ WriteZip \/ WriteStops
  \/ InterruptPack \/ MakeClean
=============================================================================
