--------------------------- MODULE MessageStream ----------------------------
(***************************************************************************)
(* What a transceiver promises: the messages that one end sends are        *)
(* handled at the other one in their order, each of them once, until the   *)
(* connection is lost or a message comes that cannot be decoded.           *)
(***************************************************************************)
EXTENDS Naturals, Sequences, SequencesExt

CONSTANT Messages       \* records with, at least, a field decodes

VARIABLES sent,         \* the messages given to send()
          handled,      \* those that receive() has returned, or refused as unknown
          open

vars == <<sent, handled, open>>

Init == sent = <<>> /\ handled = <<>> /\ open = TRUE

Send ==
  /\ sent' \in Seq(Messages) /\ IsPrefix(sent, sent')
  /\ UNCHANGED <<handled, open>>

Handle ==
  /\ open /\ Len(handled) < Len(sent)
  /\ LET m == sent[Len(handled) + 1]
     IN m.decodes /\ handled' = Append(handled, m)
  /\ UNCHANGED <<sent, open>>

Lose == open /\ open' = FALSE /\ UNCHANGED <<sent, handled>>

Next == Send \/ Handle \/ Lose

Spec == Init /\ [][Next]_vars /\ WF_vars(Handle)
=============================================================================
