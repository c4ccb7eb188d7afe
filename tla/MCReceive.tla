----------------------------- MODULE MCReceive ------------------------------
(* Instances of Receive for TLC. *)
EXTENDS Receive

Sh(h, b, d) == [hdr |-> h, body |-> b, declared |-> d]

\* A new buffer has 24 bytes, the least there is, and the ceiling of 44 rounds
\* up to 48.  Bodies that fit a new buffer exactly, by one byte not, up to the
\* ceiling, and beyond the words it rounds up to.
DeclaredShapes == {Sh(16, b, b) : b \in {8, 9, 28, 37}}

\* A chunked body, a length that does not parse, headers that do not fit a new
\* buffer, and headers beyond the slack.
AllShapes ==
    DeclaredShapes \cup
        {Sh(16, 30, NoLength), Sh(16, 20, Garbled), Sh(28, 0, NoLength), Sh(24, 20, 20)}
=============================================================================
