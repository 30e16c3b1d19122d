------------------------------ MODULE Sandbox ------------------------------
(***************************************************************************)
(* Turns of an agent whose run_mode is "sandbox":                          *)
(* createSandboxExecutor() (packages/agensis-cli/src/executor.mjs) over    *)
(* the e2b provider (sandbox/e2b.mjs).  Each has a virtual machine of its  *)
(* own, which is paid for until it is killed.  The signal of the turn is   *)
(* handed on and read by nobody; there is no deadline.                     *)
(***************************************************************************)

CONSTANT Boxes    \* turns, each in a box of its own

VARIABLES
  doing,     \* of a turn: "idle", the call it awaits, "over"
  vm,        \* "none", "up", "gone"
  handle,    \* turns whose ensureEnv() returned
  unkilled   \* those whose destroy() failed

boxVars == <<doing, vm, handle, unkilled>>

BoxInit ==
  /\ doing = [b \in Boxes |-> "idle"]
  /\ vm = [b \in Boxes |-> "none"]
  /\ handle = {} /\ unkilled = {}

Goes(b, from, to) == doing[b] = from /\ doing' = [doing EXCEPT ![b] = to]

(* ensureEnv(): the provider's checks, the import of e2b and the creation  *)
(* of the machine, any of which may fail.                                  *)
EnsureEnv(b) ==
  /\ \/ Goes(b, "idle", "install") /\ vm' = [vm EXCEPT ![b] = "up"]
     \/ Goes(b, "idle", "over") /\ UNCHANGED vm
  /\ UNCHANGED <<handle, unkilled>>

(* ... and the installation of the coding CLI in it.  If that fails nobody *)
(* has a handle to the machine.                                            *)
Installed(b) ==
  /\ \/ Goes(b, "install", "clone") /\ handle' = handle \cup {b}
     \/ Goes(b, "install", "over") /\ UNCHANGED handle
  /\ UNCHANGED <<vm, unkilled>>

(* Mutant: only a run that went through is torn down.                      *)
PutRepoThrowing(b) ==
  /\ Goes(b, "clone", "exec") \/ Goes(b, "clone", "over")
  /\ UNCHANGED <<vm, handle, unkilled>>

PutRepo(b) ==
  /\ Goes(b, "clone", "exec") \/ Goes(b, "clone", "destroy")
  /\ UNCHANGED <<vm, handle, unkilled>>

(* exec() returns what it cannot do, and the diff is taken all the same.   *)
Exec(b) == Goes(b, "exec", "diff") /\ UNCHANGED <<vm, handle, unkilled>>

GetResult(b) == Goes(b, "diff", "destroy") /\ UNCHANGED <<vm, handle, unkilled>>

Destroy(b) ==
  /\ Goes(b, "destroy", "over")
  /\ \/ vm' = [vm EXCEPT ![b] = "gone"] /\ UNCHANGED unkilled
     \/ vm[b] = "up" /\ unkilled' = unkilled \cup {b} /\ UNCHANGED vm
  /\ UNCHANGED handle

(* The machine has a lifetime of its own.                                  *)
Expires(b) ==
  /\ vm[b] = "up"
  /\ vm' = [vm EXCEPT ![b] = "gone"]
  /\ UNCHANGED <<doing, handle, unkilled>>

BoxNext ==
  \E b \in Boxes :
    EnsureEnv(b) \/ Installed(b) \/ PutRepo(b) \/ Exec(b) \/ GetResult(b) \/ Destroy(b) \/ Expires(b)

-----------------------------------------------------------------------------
(* "ALWAYS destroys (even on throw)" (executor.mjs:68, 90-92): a machine   *)
(* that outlives its turn is one that could not be killed, or one whose    *)
(* ensureEnv() failed after it was created (sandbox/e2b.mjs:40-43).        *)
NoOrphanVM ==
  \A b \in Boxes : (doing[b] = "over" /\ vm[b] = "up") => (b \in unkilled \/ b \notin handle)
=============================================================================
