------------------------------ MODULE MCJSCJS ------------------------------
(***************************************************************************)
(* Programs for JSCJS: one whose bytecode has the boundary values of char, *)
(* one that throws, one that does not parse, and strings that are not      *)
(* bytecode (an odd length, a character that is no digit, a sign alone).   *)
(***************************************************************************)
EXTENDS JSCJS

MCSources == {"defines", "throws", "garbled"}
MCBytecode == [s \in MCSources |->
    CASE s = "defines" -> <<-128, -1, 0, 127>> [] s = "throws" -> <<15, 16, -16>> [] OTHER -> <<1>>]
MCBadStrings == {<<48>>, <<48, 71>>, <<45, 45>>, <<48, 49, 50>>}
=============================================================================
