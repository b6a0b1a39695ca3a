------------------------------ MODULE MCOutbox ------------------------------
(* Small outboxes for TLC. *)
EXTENDS Outbox, TLC

CONSTANTS directMsg, ownMsg, relayedMsg, emptyMsg,            \* messages
          selfRcpt, localRcpt, externalRcpt, unknownRcpt      \* recipients

MCDest == [r \in Rcpt |-> CASE r = selfRcpt -> "self" [] r = localRcpt -> "local"
                            [] r = externalRcpt -> "external"
                            [] r = unknownRcpt -> "unknown"]

\* A direct message to a mailbox of this server and to an external one, one to the
\* sender and an unknown address, a relayed one, and one whose recipients do not parse.
MCRcptOf == [m \in Message |->
               CASE m = directMsg -> Rcpt \cap {localRcpt, externalRcpt}
                 [] m = ownMsg -> Rcpt \cap {selfRcpt, unknownRcpt}
                 [] m = relayedMsg -> Rcpt \cap {localRcpt, externalRcpt}
                 [] m = emptyMsg -> {}]

Symmetry == Permutations(Sender)
=============================================================================
