--------------------------- MODULE MCToolDispatch ---------------------------
(* Small instances of ToolDispatch for TLC.                                *)
EXTENDS ToolDispatch
CONSTANTS s1, s2, fetch, send, post, helper, note, ghost

\* fetch reads the web, send only sends, post sends and reads the reply, helper is
\* a delegate, note needs a credential, ghost is a name nobody registered.
MCCaps ==
    [t \in Tool |->
        CASE t = fetch -> {"READ_PUBLIC"}
          [] t = send -> {"EXFILTRATION"}
          [] t = post -> {"EXFILTRATION", "READ_PUBLIC"}
          [] t = helper -> {"READ_PRIVATE"}
          [] t = note -> {"WRITE_PRIVATE"}
          [] OTHER -> {}]
MCRegistered == Tool \ {ghost}
MCOutputTrust == [t \in Tool |-> NoOverride]
MCDelegates == {helper} \cap Tool
MCAllowed == Capability
MCSubRunTaint == {{"UNTRUSTED"}}
=============================================================================
