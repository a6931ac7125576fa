------------------------------ MODULE MCExecution ------------------------------
(* Instances of Execution for TLC.  Two intents: an entry whose meta carries a *)
(* stop, and an exit risk approves as a reduction; or the entry alone.         *)
EXTENDS Execution, TLC

CONSTANTS entry, exit

MCIntent == {entry, exit}
MCSide == (entry :> BUY) @@ (exit :> SELL)
MCApproved == (entry :> 3) @@ (exit :> 1)

OnlyEntry == {entry}
EntrySide == entry :> BUY
EntryApproved == entry :> 3
=============================================================================
