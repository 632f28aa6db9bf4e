------------------------------ MODULE MCCommands ------------------------------
(***************************************************************************)
(* What the commands of ura-agent keep on disk and may run at once: the    *)
(* spool that run and export share, the two identity files, and the        *)
(* configuration.  The parts share no variable: what an invariant says of  *)
(* one holds whatever the others do, so a behaviour exercises one part and *)
(* the others stand still.                                                 *)
(***************************************************************************)
EXTENDS SharedSpool, Identity, Settings

VARIABLE part   \* the part that this behaviour exercises

Good == [recipient |-> "age1"]
Tuned == [recipient |-> "age1", rest |-> 2]
ZeroInterval == [recipient |-> "age1", ticks |-> FALSE]
NoRecipient == [rest |-> 2]
OutOfRange == [recipient |-> "age1", ranged |-> FALSE]
Unparsable == [recipient |-> "malformed"]
MCFiles == {Good, Tuned, ZeroInterval, NoRecipient, OutOfRange, Unparsable}

Init ==
    /\ part \in {"shared", "identity", "settings"}
    /\ SharedInit /\ IdentityInit /\ SettingsInit
    /\ part # "settings" => file = Good

Next ==
    \/ part = "shared" /\ SharedNext /\ UNCHANGED <<part, identityVars, settingsVars>>
    \/ part = "identity" /\ IdentityNext /\ UNCHANGED <<part, sharedVars, settingsVars>>
    \/ part = "settings" /\ SettingsNext /\ UNCHANGED <<part, sharedVars, identityVars>>

Spec == Init /\ [][Next]_<<part, sharedVars, identityVars, settingsVars>>
=============================================================================
