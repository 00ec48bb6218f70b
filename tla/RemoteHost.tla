----------------------------- MODULE RemoteHost -----------------------------
(***************************************************************************)
(* The shared server as the delivery scripts use it                        *)
(* (scripts/trackc_common.py, scripts/remote_exec.py): work directories    *)
(* named after the process that makes them, the key, and commands that     *)
(* succeed, fail, or run into their timeout, which raises.                 *)
(***************************************************************************)
EXTENDS Integers, FiniteSets, TLC

CONSTANTS
  Pids,    (* process numbers; the system uses them again                *)
  MaxRuns  (* bound: runs of each script                                 *)

ASSUME HostAssumption == MaxRuns \in Nat

VARIABLES
  remote,  (* the work directories that exist, each with what it holds   *)
  leaked,  (* history: those no script has any longer, with the cause:   *)
           (* an interrupt, a command that ran into its timeout, an rm   *)
           (* that did not get through, or no archive left to upload     *)
  ssh,     (* there is an ssh client                                     *)
  key      (* the private key: at hand, in ~/.ssh only, or nowhere       *)

hostVars == <<remote, leaked, ssh, key>>

HostInit ==
  /\ remote = [d \in {} |-> [n \in {} |-> {}]]
  /\ leaked = [d \in {} |-> ""]
  /\ ssh \in BOOLEAN
  /\ key \in {"here", "home", "nowhere"}

Without(f, d) == [e \in DOMAIN f \ {d} |-> f[e]]
LeftBehind(d, cause) ==
  [e \in DOMAIN leaked \cup {d} |-> IF e = d THEN cause ELSE leaked[e]]

(* mkdir -p, and what later commands leave in a directory, by name.        *)
Holding(d) == IF d \in DOMAIN remote THEN remote[d] ELSE [n \in {} |-> {}]

Hold(d, files) ==
  /\ remote' = [e \in DOMAIN remote \cup {d} |->
                  IF e = d THEN files @@ Holding(d) ELSE remote[e]]
  /\ leaked' = Without(leaked, d)
  /\ UNCHANGED <<ssh, key>>

(* rm -rf; nobody looks at its result.                                     *)
Rmtree(d) ==
  /\ \/ remote' = Without(remote, d) /\ leaked' = Without(leaked, d)
     \/ leaked' = LeftBehind(d, "rm") /\ UNCHANGED remote
  /\ UNCHANGED <<ssh, key>>

(* The script goes on, or away, without cleaning up; it may not have had   *)
(* the directory yet.                                                      *)
Abandon(d, cause) ==
  /\ leaked' = IF d \in DOMAIN remote \ DOMAIN leaked THEN LeftBehind(d, cause) ELSE leaked
  /\ UNCHANGED <<remote, ssh, key>>

(* _resolve_key: a key in ~/.ssh is copied; with none at all prepare_key   *)
(* ends the process, through every "except Exception".                     *)
ResolveKey ==
  /\ ssh /\ key # "nowhere"
  /\ key' = "here"
  /\ UNCHANGED <<remote, leaked, ssh>>

NoKey == ssh /\ key = "nowhere"
=============================================================================
