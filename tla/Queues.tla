------------------------------- MODULE Queues -------------------------------
(***************************************************************************)
(* Queues of batches in which each batch has one place, as the Maps and    *)
(* the filtered arrays of the source keep them.                            *)
(***************************************************************************)
EXTENDS Naturals, Sequences, SequencesExt

\* What is left of a queue, in its order, without what is gone.
Without(queue, gone) ==
  LET kept[i \in 0 .. Len(queue)] ==
        IF i = 0 THEN <<>>
        ELSE IF queue[i] \in gone THEN kept[i - 1] ELSE Append(kept[i - 1], queue[i])
  IN  kept[Len(queue)]

\* Mutant: a batch that is added again is queued again.
WithDuplicates(queue, more) == queue \o more

\* A Map keeps the place of a key that is set again.
With(queue, more) == queue \o Without(more, ToSet(queue))

=============================================================================
