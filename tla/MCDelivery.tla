----------------------------- MODULE MCDelivery -----------------------------
(***************************************************************************)
(* Two instances in one: the scripts on a small server, or, while they are *)
(* off, the grader they may call on it, on submissions that are wrong in   *)
(* one or two places, or pass the basic requirements only.                 *)
(***************************************************************************)
EXTENDS Delivery, PublicGrade

MCTrees == {Sources} \cup {Sources \ {entry} : entry \in
             {<<Wrapper, "root_..">>, <<"C1/include", "tree">>, <<"C3/README.md", "commands">>}}
           \cup {(Sources \ {<<Wrapper, "root_..">>}) \cup {<<Wrapper, "root_elsewhere">>}}

MCDmaRequests ==
  [bytes : {1, 4096, 4097, 65536, 1048577, 3145728}, alignment : {16, 64},
   registered : BOOLEAN, concurrency : {1, 2, 4}]

(* The device measures what it runs, or the case is a hidden one.          *)
MCKernelRequests ==
  {r \in [sides : {{8}, {8, 12}, {5, 8}}, workspace : {0, 4096, 8192}, alignment : {8, 16},
           cycles : [KernelName -> 0 .. 2]] :
     LET measured == {id \in KernelName : r.cycles[id] > 0}
     IN measured = {} \/ measured = DeviceRuns(r)}

Lines(r) ==
  LET test == Tests[CHOOSE i \in 1 .. 16 : REQUIREMENTS[i] = r]
  IN {<<r, l>> : l \in {m \in DOMAIN test : test[m] \notin {"try", "finally"}}}

MCSubmissions ==
  {{}} \cup {{fault} : fault \in UNION {Lines(REQUIREMENTS[i]) : i \in 1 .. 16}}
  \cup {{f, g} : f \in Lines("R106"), g \in Lines("R102") \cup Lines("R304")}
  \cup {{<<REQUIREMENTS[i], 1>> : i \in {5, 6} \cup 8 .. 16}}

ScriptsOff ==
  /\ remote = [d \in {} |-> NoFiles] /\ leaked = [d \in {} |-> ""]
  /\ ssh = FALSE /\ key = "nowhere"
  /\ repo = {} /\ package = NoPackage
  /\ packer = "off" /\ packPid = 1 /\ mode = "none" /\ staged = {}
  /\ packRuns = MaxRuns
  /\ verifier = "off" /\ verPid = 1 /\ wants = {} /\ inspected = {} /\ tested = {}
  /\ failed = {} /\ verExit = "none" /\ verRuns = MaxRuns

GraderOff ==
  /\ faulty = {} /\ only = "all" /\ turn = 17 /\ line = 0 /\ mine = {} /\ left = {}
  /\ pending = {} /\ results = [i \in {REQUIREMENTS[j] : j \in 1 .. 16} |-> 0]
  /\ asked = {} /\ level = "Good"

MCInit == (DeliveryInit /\ (ssh \/ key = "nowhere") /\ GraderOff) \/ (ScriptsOff /\ GradeInit)
MCNext ==
  \/ DeliveryNext /\ UNCHANGED gradeVars
  \/ GradeNext /\ UNCHANGED deliveryVars
MCSpec == MCInit /\ [][MCNext]_<<deliveryVars, gradeVars>>
=============================================================================
