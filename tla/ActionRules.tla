---------------------------- MODULE ActionRules ----------------------------
(***************************************************************************)
(* The actions the agent may propose (kernel/src/ai_action.rs) and the     *)
(* checks they must pass (kernel/src/apply_action.rs).                     *)
(*                                                                         *)
(* An operator named X_Y after a comment that starts with "Fault:" is a    *)
(* deliberately wrong variant Y of X; no specification uses it.            *)
(***************************************************************************)
EXTENDS Integers

CONSTANTS
  U32          \* 2^32 in the code

Kinds == {"None", "SetQuantum", "SetAffinity", "MigrateTask", "TrimCache",
          "Reboot", "Halt"}

MinQuantum == 100
MaxQuantum == 50000
Quanta == MinQuantum .. MaxQuantum
DefaultQuantum == 1000
TrimLimit == 16 * 1024 * 1024

(* The cast "as u32".                                                      *)
AsU32(n) == n % U32

is_allowed(kind) == kind \in {"SetQuantum", "TrimCache"}

(* Fault: the parameter not cut to 32 bits before the range test.          *)
validate_params_NoCast(act) ==
  \/ act.kind = "SetQuantum" /\ act.param1 >= 100
  \/ act.kind = "TrimCache" /\ act.param1 \in 1 .. TrimLimit

validate_params(act) ==
  \/ act.kind = "SetQuantum" /\ AsU32(act.param1) \in Quanta
  \/ act.kind = "TrimCache" /\ act.param1 \in 1 .. TrimLimit
=============================================================================
