------------------------------ MODULE FlatArray ------------------------------
(***************************************************************************)
(* What a ByteArray promises, whatever blocks it keeps its bytes in: one   *)
(* array of bytes with a position.  An operation of kind op moves the      *)
(* position and touches nothing but the bytes it moved over.               *)
(*                                                                         *)
(*   content   the bytes up to the array's size                            *)
(*   position  where the next operation starts, from 0                     *)
(*   out       the bytes that the last operation handed out                *)
(*   op        the kind of the last operation                              *)
(*   dead      the process is over                                         *)
(***************************************************************************)
EXTENDS Integers, Sequences

VARIABLES content, position, out, op, dead

vars == <<content, position, out, op, dead>>

Larger(a, b) == IF a > b THEN a ELSE b

Init ==
    /\ content = <<>> /\ position = 0
    /\ out = <<>> /\ op = "new" /\ dead = FALSE

\* The bytes between the old and the new position are written; those before and
\* after keep their values, and the array grows by no more than was written.
Write ==
    /\ op' = "write" /\ out' = <<>>
    /\ position' >= position
    /\ Len(content') = Larger(Len(content), position')
    /\ \A i \in 1 .. Len(content) :
          i <= position \/ i > position' => content'[i] = content[i]

\* The bytes between the old and the new position are handed out, in order.
Read ==
    /\ op' = "read"
    /\ position' \in position .. Len(content)
    /\ out' = SubSeq(content, position + 1, position')
    /\ UNCHANGED content

\* Bytes from the position on are handed out; nothing moves.
Peek ==
    /\ op' = "peek"
    /\ Len(out') <= Len(content) - position
    /\ out' = SubSeq(content, position + 1, position + Len(out'))
    /\ UNCHANGED <<content, position>>

\* The position moves; beyond the end it takes the size with it.
Seek ==
    /\ op' = "seek" /\ out' = <<>>
    /\ Len(content') = Larger(Len(content), position')
    /\ \A i \in 1 .. Len(content) : content'[i] = content[i]

Clear ==
    /\ op' = "clear" /\ out' = <<>>
    /\ content' = <<>> /\ position' = 0

Next ==
    /\ ~dead
    /\ \/ (Write \/ Read \/ Peek \/ Seek \/ Clear) /\ UNCHANGED dead
       \/ dead'

Spec == Init /\ [][Next]_vars
=============================================================================
