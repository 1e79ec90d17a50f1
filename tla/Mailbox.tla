------------------------------- MODULE Mailbox -------------------------------
(***************************************************************************)
(* What a message queue promises: messages are taken in the order they     *)
(* were put.  The promise ends when a locked queue is unlocked: from then  *)
(* on (disturbed) nothing is promised.                                     *)
(***************************************************************************)
EXTENDS Sequences

CONSTANT Message

VARIABLES contents,     \* the messages put and not yet taken, oldest first
          disturbed     \* an unlock message has arrived

mailboxVars == <<contents, disturbed>>

Init ==
    /\ contents = <<>>
    /\ disturbed = FALSE

Put(m) ==
    /\ contents' = Append(contents, m)
    /\ UNCHANGED disturbed

Take ==
    /\ contents # <<>>
    /\ contents' = Tail(contents)
    /\ UNCHANGED disturbed

Unlock == disturbed' = TRUE

Next ==
    \/ ~disturbed /\ (Take \/ \E m \in Message : Put(m))
    \/ Unlock

Spec == Init /\ [][Next]_mailboxVars
=============================================================================
