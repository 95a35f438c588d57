-------------------------- MODULE ConversationLog --------------------------
(***************************************************************************)
(* What a memory.SnapshotStore promises, whatever keeps it: a conversation *)
(* that grows by whole messages, each once and at its end, and a snapshot  *)
(* that comes to stand for a longer and longer part of it without changing *)
(* what the conversation says.  The stores of memory/ implement it.        *)
(***************************************************************************)
EXTENDS Integers, SequencesExt

CONSTANT Messages

VARIABLES conversation, \* all the messages, those a snapshot stands for included
          covered       \* log position of the last message a snapshot stands for, or -1

vars == <<conversation, covered>>

Init == conversation = <<>> /\ covered = -1

Say ==
    /\ UNCHANGED covered /\ conversation' # conversation
    /\ LET before == conversation
           after == conversation'
       IN  \E m \in Messages \ ToSet(before) : after = Append(before, m)

Cover == covered' > covered /\ UNCHANGED conversation

Clear == covered' = -1 /\ conversation' = <<>>

Next == Say \/ Cover \/ Clear

Spec == Init /\ [][Next]_vars
=============================================================================
