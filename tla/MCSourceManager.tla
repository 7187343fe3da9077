--------------------------- MODULE MCSourceManager ---------------------------
(* Three sources for SourceManager, or two.                                *)
EXTENDS SourceManager

CONSTANTS s1, s2, s3

MCSources == {s1, s2, s3}
TwoSources == {s1, s2}
=============================================================================
