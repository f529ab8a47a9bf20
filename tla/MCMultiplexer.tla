---------------------------- MODULE MCMultiplexer ----------------------------
(* Two servers whose commands write a line before or after the ready      *)
(* marker, the marker late, twice, never or within a line, or a last line  *)
(* without its end.                                                        *)
EXTENDS Multiplexer

Line(k) == <<k, NL>>
Ready   == <<Marker, NL>>

Outputs == {<<>>,                                \* fails silently
            Line(1),                             \* fails with a message
            Ready \o Line(1) \o Line(2) \o <<3>>, \* more than a pipe, a part line at the end
            Line(1) \o Ready,                    \* a message before the marker
            <<1, Marker, NL>>,                   \* the marker within a line
            Ready \o Ready}                      \* the marker as a line of output

FewOutputs == {<<>>, Ready, Ready \o Line(1)}
=============================================================================
