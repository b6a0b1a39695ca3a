------------------------------ MODULE SendQueue ------------------------------
(***************************************************************************)
(* What the outbox promises to whoever queues a message, with no rows,     *)
(* attempts, back-off or stages of a task in sight: one sender at a time   *)
(* holds a message, what is sent or failed stays so, everybody a final     *)
(* message was for has it or is reported to its author, and Sent gets a    *)
(* copy of what was sent only.  The holder may vanish at any moment, with  *)
(* or without giving the message back.                                     *)
(***************************************************************************)
CONSTANTS Message, Sender,
          To,   \* [Message -> set of recipients]
          Own   \* [Message -> those who read the copy in Sent: the author]

VARIABLES status,   \* draft, pending, sending, sent or failed
          holders,  \* the senders at work on a message
          reached,  \* the recipients who have a copy
          told,     \* those reported to the author as failed
          silent,   \* messages a report of which could not be made
          filed     \* messages with a copy in Sent

vars == <<status, holders, reached, told, silent, filed>>

Init ==
    /\ status = [m \in Message |-> "draft"]
    /\ holders = [m \in Message |-> {}]
    /\ reached = [m \in Message |-> {}]
    /\ told = [m \in Message |-> {}]
    /\ silent = {} /\ filed = {}

Held(m, st) == status[m] = st /\ holders[m] # {}
Become(m, st) == status' = [status EXCEPT ![m] = st]
LetGo(m) == holders' = [holders EXCEPT ![m] = {}]

Enqueue(m) ==
    /\ status[m] = "draft"
    /\ Become(m, "pending")
    /\ UNCHANGED <<holders, reached, told, silent, filed>>

Take(m, a) ==
    /\ status[m] = "pending" /\ holders[m] = {}
    /\ \A n \in Message : a \notin holders[n]
    /\ Become(m, "sending")
    /\ holders' = [holders EXCEPT ![m] = {a}]
    /\ UNCHANGED <<reached, told, silent, filed>>

Reach(m, rs) ==
    /\ Held(m, "sending")
    /\ rs \subseteq To[m]
    /\ reached' = [reached EXCEPT ![m] = @ \cup rs]
    /\ UNCHANGED <<status, holders, told, silent, filed>>

\* The author hears of those who failed, even after the rest was sent.
Report(m, rs) ==
    /\ Held(m, "sending") \/ Held(m, "sent")
    /\ rs \subseteq To[m]
    /\ told' = [told EXCEPT ![m] = @ \cup rs]
    /\ UNCHANGED <<status, holders, reached, silent, filed>>

KeepSilent(m) ==
    /\ Held(m, "sending")
    /\ silent' = silent \cup {m}
    /\ UNCHANGED <<status, holders, reached, told, filed>>

GiveBack(m) ==
    /\ Held(m, "sending")
    /\ Become(m, "pending")
    /\ LetGo(m)
    /\ UNCHANGED <<reached, told, silent, filed>>

\* Nobody is left without an answer.
Answered(m, reported) ==
    m \in silent \/ To[m] \subseteq reached[m] \cup Own[m] \cup reported

Succeed(m) ==
    /\ Held(m, "sending")
    /\ To[m] \cap (reached[m] \cup Own[m]) # {}
    /\ Answered(m, told[m])
    /\ Become(m, "sent")
    /\ UNCHANGED <<holders, reached, told, silent, filed>>

Fail(m, rs) ==
    /\ Held(m, "sending")
    /\ rs \subseteq To[m]
    /\ Answered(m, told[m] \cup rs)
    /\ Become(m, "failed")
    /\ told' = [told EXCEPT ![m] = @ \cup rs]
    /\ LetGo(m)
    /\ UNCHANGED <<reached, silent, filed>>

\* A message held is left as it is: a message sent because its sender is done,
\* one in 'sending' because its status could not be written.
Leave(m) ==
    /\ Held(m, "sending") \/ Held(m, "sent")
    /\ LetGo(m)
    /\ UNCHANGED <<status, reached, told, silent, filed>>

File(m) ==
    /\ Held(m, "sent")
    /\ filed' = filed \cup {m}
    /\ LetGo(m)
    /\ UNCHANGED <<status, reached, told, silent>>

\* All senders are gone, and what was under way is free again.
Recover ==
    /\ status' = [m \in Message |-> IF status[m] = "sending" THEN "pending" ELSE status[m]]
    /\ holders' = [m \in Message |-> {}]
    /\ UNCHANGED <<reached, told, silent, filed>>

Next ==
    \/ \E m \in Message : \/ Enqueue(m) \/ KeepSilent(m) \/ GiveBack(m) \/ Succeed(m)
                          \/ Leave(m) \/ File(m)
                          \/ \E a \in Sender : Take(m, a)
                          \/ \E rs \in SUBSET To[m] : Reach(m, rs) \/ Report(m, rs) \/ Fail(m, rs)
    \/ Recover

Spec == Init /\ [][Next]_vars

-----------------------------------------------------------------------------
(* What that gives.                                                        *)

\* One sender at a time, on a message that is being sent or has just been.
OneHolder ==
    \A m \in Message : /\ \A a, b \in holders[m] : a = b
                       /\ holders[m] # {} => status[m] \in {"sending", "sent"}

\* A final message has an answer for everybody.
FinalIsAnswered ==
    \A m \in Message : status[m] \in {"sent", "failed"} => Answered(m, told[m])

\* Sent holds what was sent, to somebody.
FiledWasSent ==
    \A m \in filed : /\ m \in Message
                     /\ status[m] = "sent" /\ To[m] \cap (reached[m] \cup Own[m]) # {}

Promise == OneHolder /\ FinalIsAnswered /\ FiledWasSent

\* What is final stays so.
FinalKept == \A m \in Message : status[m] \in {"sent", "failed"} => status'[m] = status[m]

FinalIsFinal == [][FinalKept]_vars
=============================================================================
