---------------------------- MODULE ControlPlane ----------------------------
(***************************************************************************)
(* What administrators may change while the process runs, and whom they    *)
(* tell:                                                                   *)
(*                                                                         *)
(*   infra/featureFlags.ts, infra/symbolControl.ts   stores in the process *)
(*   infra/bus.ts                                    events without a pause *)
(*   routes/admin.ts                                 set and clear         *)
(*                                                                         *)
(* A handler changes its store and emits in one go, and the listeners run  *)
(* inside the emit: every operator here is half an action, of which the    *)
(* listeners are the other half.                                           *)
(***************************************************************************)
EXTENDS Integers

CONSTANTS
    Symbols,
    Everyone,     \* "*"
    NoFlags,      \* no override
    Patches,      \* what administrators send
    MaxChanges    \* bound: changes they make

Modes == {"OPEN", "HALT", "CANCEL_ONLY"}

Flags == [enableSSE : BOOLEAN, publicAllowL3 : BOOLEAN, streamDefaultLevel : {2, 3}]

\* merge: what the patch names, and the rest of base.
Merged(base, patch) == [x \in DOMAIN base |-> IF x \in DOMAIN patch THEN patch[x] ELSE base[x]]

ASSUME ControlAssumption ==
    /\ Everyone \notin Symbols
    /\ NoFlags \notin Flags
    /\ \A p \in Patches, f \in Flags : Merged(f, p) \in Flags
    /\ MaxChanges \in Nat

VARIABLES
    control,   \* mode of a symbol, and the number of the change that set it
    defaults,  \* FeatureFlags
    override,  \* FeatureFlags of a symbol, or NoFlags
    changes    \* how much of MaxChanges is used

controlVars == <<control, defaults, override, changes>>

\* The defaults of an environment that sets nothing.
ControlInit ==
    /\ control = [s \in Symbols |-> [mode |-> "OPEN", nr |-> 0]]
    /\ defaults = [enableSSE |-> TRUE, publicAllowL3 |-> FALSE, streamDefaultLevel |-> 2]
    /\ override = [s \in Symbols |-> NoFlags]
    /\ changes = 0

\* featureFlags.get
FlagsOf(s) == IF override[s] = NoFlags THEN defaults ELSE override[s]

\* The same after the change of a step.
NewFlags(s) == IF override'[s] = NoFlags THEN defaults' ELSE override'[s]

Change == changes < MaxChanges /\ changes' = changes + 1

\* POST /symbols/:symbol; to clear it is to set it to OPEN.
SetMode(s, mode) ==
    /\ Change
    /\ control' = [control EXCEPT ![s] = [mode |-> mode, nr |-> changes']]
    /\ UNCHANGED <<defaults, override>>

\* POST /flags/defaults
SetDefaults(patch) ==
    /\ Change
    /\ defaults' = Merged(defaults, patch)
    /\ UNCHANGED <<control, override>>

\* POST /flags/:symbol: an override begins as a copy of the defaults, and keeps them.
SetFlags(s, patch) ==
    /\ Change
    /\ override' = [override EXCEPT ![s] = Merged(FlagsOf(s), patch)]
    /\ UNCHANGED <<control, defaults>>

\* POST /flags/:symbol/clear
ClearFlags(s) ==
    /\ Change
    /\ override' = [override EXCEPT ![s] = NoFlags]
    /\ UNCHANGED <<control, defaults>>
=============================================================================
