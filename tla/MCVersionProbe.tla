--------------------------- MODULE MCVersionProbe ---------------------------
(***************************************************************************)
(* Bounds for VersionProbe: a version line and two that are none, a pipe *)
(* that is full with one line, and enough lines to fill it, block on it    *)
(* and still write to the other stream.                                    *)
(***************************************************************************)
EXTENDS VersionProbe

Token(len, digit) == [len |-> len, printable |-> TRUE, digit |-> digit]

Line(marker, token) == [marker |-> marker, token |-> token]

\* The longest version, a token that is one too long, and a version without
\* the marker.
MCLines == {Line(TRUE, Token(128, TRUE)), Line(TRUE, Token(129, TRUE)),
            Line(FALSE, Token(6, TRUE))}

=============================================================================
