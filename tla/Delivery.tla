------------------------------ MODULE Delivery ------------------------------
(***************************************************************************)
(* The delivery of a submission: scripts/pack_trackc.py writes the archive *)
(* and scripts/verify_trackc.py judges it, each in a process of its own.   *)
(***************************************************************************)
EXTENDS Verification

deliveryVars == <<hostVars, repo, package, packVars, verVars>>

DeliveryInit == HostInit /\ PackInit /\ VerifyInit

DeliveryNext == (PackNext /\ UNCHANGED verVars) \/ VerifyNext

DeliverySpec == DeliveryInit /\ [][DeliveryNext]_deliveryVars
-----------------------------------------------------------------------------
Complete == Sources \subseteq repo  (* nothing is missing *)

(* The archive the packer finished always holds the library as an ELF file *)
(* and an entry, and one packed from a complete repository has every hard  *)
(* check of layer A pass: the two scripts agree on the layout.             *)
(* (pack_trackc.py stage_c1, stage_c2, stage_c3; verify_trackc.py layer_a) *)
PackedArchivesVerify ==
  package.state = "packed" =>
    /\ Content(package.files, Library) = {"elf"} /\ Has(package.files, Wrapper)
    /\ Complete => FailedChecks(package.files) = {}

(* A verifier that ends in a pass read an archive with every hard check of *)
(* layer A; with --remote the tree it ran on the server, though it may be  *)
(* another one, builds and tests the compiler, has a library that loads,   *)
(* and runs the worker of C3, nothing of them cut short - whatever a       *)
(* packer wrote between the two readings, and whichever command broke.     *)
(* (verify_trackc.py layer_a, layer_b, main)                               *)
PassesMeanItWorks ==
  verExit = "pass" /\ verifier = "off" =>
    /\ FailedChecks(inspected) = {}
    /\ "remote" \in wants =>
         \A step \in {"selftest", "dlopen", "worker"} : Works(step, tested)

(* The steps a verifier takes while it has a directory, and the reasons    *)
(* for which a directory stays.                                            *)
AfterMkdir == {Steps[i] : i \in 3 .. Len(Steps)}
Causes(d) == {"interrupt", "timeout", "rm"} \cup (IF d[1] = "verify" THEN {"no_archive"} ELSE {})

(* A directory on the server belongs to a script that is still running, or *)
(* was left for one of four reasons: an interrupt, a command that ran into *)
(* its timeout, an rm that did not get through and, a verifier's only, an  *)
(* archive that was gone when it was to be uploaded, which raises as the   *)
(* timeout does and passes by the removal.  A command that fails leaves    *)
(* none: when a run of layer B reports nothing, or only commands that      *)
(* failed after the directory was made, its directory can be there for one *)
(* reason only, that the rm did not get through.                           *)
(* (pack_trackc.py build_c2_remote; verify_trackc.py layer_b, main)        *)
RemoteDirsReleased ==
  /\ \A d \in DOMAIN remote :
       \/ d \in DOMAIN leaked /\ leaked[d] \in Causes(d)
       \/ d = BuildDir /\ packer \in {"push", "make", "pull", "clean"}
       \/ d = VerifyDir /\ verifier \in AfterMkdir
  /\ /\ verifier = "off" /\ verExit \in {"pass", "fail"}
     /\ "remote" \in wants /\ failed \subseteq AfterMkdir
     /\ VerifyDir \in DOMAIN remote
     => VerifyDir \in DOMAIN leaked /\ leaked[VerifyDir] = "rm"
=============================================================================
