----------------------------- MODULE MCBrowseCache -----------------------------
(* BrowseCache for TLC. *)
EXTENDS BrowseCache
FirstEvent == {1}
SecondEvent == {2}
Both == {1, 2}
================================================================================
