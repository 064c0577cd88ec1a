----------------------------- MODULE ByteStream -----------------------------
(***************************************************************************)
(* What one direction of a serial line promises: the bytes that were put   *)
(* in come out once each, in order.  Robot uses its lines toBoard and      *)
(* toHost as such streams.                                                 *)
(***************************************************************************)
EXTENDS Naturals, Sequences

CONSTANT Bytes

VARIABLES
  sent,  \* all bytes put in so far
  got    \* all bytes taken out so far

TypeOK == sent \in Seq(Bytes) /\ got \in Seq(Bytes)

Init == sent = <<>> /\ got = <<>>

\* More bytes go in behind the others.
Put ==
  /\ sent' \in Seq(Bytes)
  /\ Len(sent') >= Len(sent) /\ SubSeq(sent', 1, Len(sent)) = sent
  /\ UNCHANGED got

\* Any number of the bytes that are under way, in the order they were put in.
Take ==
  \E n \in Len(got) .. Len(sent) : got' = SubSeq(sent, 1, n) /\ UNCHANGED sent

Next == Put \/ Take

Spec == Init /\ [][Next]_<<sent, got>>
=============================================================================
