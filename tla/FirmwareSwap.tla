---------------------------- MODULE FirmwareSwap ----------------------------
(***************************************************************************)
(* What an upgrade promises for each module, without buses, threads, frames *)
(* or addresses.  A module has a body (the firmware area) and a seal (the   *)
(* info record that makes the boot loader accept the body).  A run wipes    *)
(* the body, then breaks the seal, then fills the body, and sets a new seal *)
(* only on a complete body: no seal stands while the body is filled, and    *)
(* one is set only over the whole image.  The seal of before stands while   *)
(* the body is wiped, and if a run stops there it stays on what is left of  *)
(* the body.  A run may stop anywhere and a new one begins.                 *)
(* The promise to a module lapses, until the next run, when it is in doubt: *)
(* it missed something the tool did not notice.                             *)
(***************************************************************************)
CONSTANT Modules

VARIABLES body, seal, doubt

vars == <<body, seal, doubt>>

\* A body is "old", "void", "new", "filling" (a proper, non-empty beginning of the image on
\* an empty area) or "other" (any mixture), a seal "old", "void", "new" or "bad".
Init ==
  /\ body = [m \in Modules |-> "old"]
  /\ seal = [m \in Modules |-> "old"]
  /\ doubt = [m \in Modules |-> FALSE]

Keep(m) == body'[m] = body[m] /\ seal'[m] = seal[m]

\* Wiping goes unit by unit, below whatever seal there is; what a run before this one left
\* half sent may still spoil a page of the body, or the seal, never renew it.
Wipe(m) == body'[m] \in {body[m], "other", "void"} /\ seal'[m] \in {seal[m], "bad"}

BreakSeal(m) == body[m] = "void" /\ body'[m] = "void" /\ seal'[m] = "void"

Fill(m) ==
  /\ seal[m] = "void" /\ body[m] \in {"void", "filling"}
  /\ seal'[m] = "void" /\ body'[m] \in {"filling", "new"}

SetSeal(m) ==
  /\ body[m] = "new" /\ seal[m] = "void"
  /\ body'[m] = "new" /\ seal'[m] = "new"

Lapse(m) == doubt'[m]

Work ==
  \A m \in Modules :
    \/ doubt'[m] = doubt[m] /\ (Wipe(m) \/ BreakSeal(m) \/ Fill(m) \/ SetSeal(m))
    \/ Lapse(m)

\* A new run starts with what is there.
NewRun == \A m \in Modules : Keep(m) /\ ~doubt'[m]

Next == Work \/ NewRun

Spec == Init /\ [][Next]_vars
=============================================================================
