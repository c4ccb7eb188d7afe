----------------------------- MODULE MCBodyRead -----------------------------
(* Instances of BodyRead for TLC. *)
EXTENDS BodyRead

Part(i, t, d) == [inline |-> i, total |-> t, declared |-> d]

\* With a chunk of 2 and at most 4 reserved: complete, declared and within the
\* reserve, declared beyond it, and chunked.
MCBodies == {Part(2, 2, 2), Part(0, 1, 1), Part(1, 6, 6), Part(1, 5, NoLength)}
=============================================================================
