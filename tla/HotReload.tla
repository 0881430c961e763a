----------------------------- MODULE HotReload ------------------------------
(***************************************************************************)
(* What the flat-file UserDb promises about the map it answers from: it is *)
(* one that was in the file, and it never goes back to an older one.       *)
(***************************************************************************)
EXTENDS Naturals

VARIABLES saved,  \* how often the file was saved
          shown   \* the save the answers come from

HotReloadInit == saved \in Nat /\ shown = 0

Save   == saved' = saved + 1 /\ shown' = shown
Follow == shown' \in shown..saved /\ saved' = saved

HotReloadSpec == HotReloadInit /\ [][Save \/ Follow]_<<saved, shown>>
=============================================================================
