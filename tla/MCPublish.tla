------------------------------ MODULE MCPublish ------------------------------
(***************************************************************************)
(* The first commit has one hand-written Chrome profile of version 1, as   *)
(* chrome146 is, and curl.patch has one Safari of that version.            *)
(***************************************************************************)
EXTENDS Publish

Of(suffix, version) == [suffix |-> suffix, version |-> version]

FirstProfiles == {[target |-> Of("default", 1), bundle |-> Handmade]}
Written    == {Of("default", 2), Of("android", 2)}
WrittenOne == {Of("default", 2)}
Patched    == {Of("safari", 1)}
=============================================================================
