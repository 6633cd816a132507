------------------------------- MODULE MCLines -------------------------------
(* Small instances of ChangedLines: a file that is kept, one of each reason to  *)
(* be skipped next to a later reason, and one dependency.                     *)
EXTENDS ChangedLines

MCTraits ==
  { {"python"}, {"deleted", "manifest"}, {"manifest", "ignored"}, {"binary", "ignored"},
    {"too-large", "generated"} }

MCBeyond == {<<0, 0>>, <<1, 1>>}
=============================================================================
