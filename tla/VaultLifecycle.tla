--------------------------- MODULE VaultLifecycle ----------------------------
(***************************************************************************)
(* What one vault address promises to those who watch it from outside the  *)
(* program: its life goes absent - open - (triggered) - absent, the clock  *)
(* of an open vault is restarted by its owner only, the vault is triggered *)
(* only when the owner has been silent for the whole threshold, and a      *)
(* triggered vault changes in no way but by being settled.                 *)
(*                                                                         *)
(* LegacyVault implements this specification; the off-chain services are   *)
(* modelled against it.                                                    *)
(***************************************************************************)
EXTENDS Integers

CONSTANTS
    MIN_INACTIVITY_THRESHOLD_SLOTS,
    MAX_INACTIVITY_THRESHOLD_SLOTS,
    MaxSlot,        \* bound on the clock
    MaxInits        \* bound on the number of times the address is initialised

VARIABLES
    slot,                       \* Clock::slot
    status,                     \* "absent", "open" or "triggered"
    last_check_in_slot,
    inactivity_threshold_slots,
    inits                       \* how often the address has been initialised

vault_vars == <<status, last_check_in_slot, inactivity_threshold_slots>>
chain_vars == <<slot, status, last_check_in_slot, inactivity_threshold_slots, inits>>

Thresholds == MIN_INACTIVITY_THRESHOLD_SLOTS..MAX_INACTIVITY_THRESHOLD_SLOTS

\* The condition under which trigger_inheritance succeeds.
Claimable ==
    /\ status = "open"
    /\ slot >= last_check_in_slot + inactivity_threshold_slots

Init ==
    /\ slot = 1
    /\ status = "absent"
    /\ last_check_in_slot = 0
    /\ inactivity_threshold_slots = 0
    /\ inits = 0

Tick ==
    /\ slot < MaxSlot
    /\ slot' = slot + 1
    /\ UNCHANGED <<vault_vars, inits>>

Initialize ==
    /\ status = "absent"
    /\ inits < MaxInits
    /\ status' = "open"
    /\ last_check_in_slot' = slot
    /\ inactivity_threshold_slots' \in Thresholds
    /\ inits' = inits + 1
    /\ UNCHANGED slot

CheckIn ==
    /\ status = "open"
    /\ slot > last_check_in_slot
    /\ last_check_in_slot' = slot
    /\ UNCHANGED <<slot, status, inactivity_threshold_slots, inits>>

ConfigureThreshold ==
    /\ status = "open"
    /\ inactivity_threshold_slots' \in Thresholds
    /\ UNCHANGED <<slot, status, last_check_in_slot, inits>>

Trigger ==
    /\ Claimable
    /\ status' = "triggered"
    /\ UNCHANGED <<slot, last_check_in_slot, inactivity_threshold_slots, inits>>

\* The owner closes an open vault or the council sweeps it; a triggered one is
\* settled.
Close ==
    /\ status # "absent"
    /\ status' = "absent"
    /\ last_check_in_slot' = 0
    /\ inactivity_threshold_slots' = 0
    /\ UNCHANGED <<slot, inits>>

Next == Tick \/ Initialize \/ CheckIn \/ ConfigureThreshold \/ Trigger \/ Close

Spec == Init /\ [][Next]_chain_vars
=============================================================================
