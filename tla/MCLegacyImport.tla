--------------------------- MODULE MCLegacyImport ---------------------------
(***************************************************************************)
(* An instance of LegacyImport for TLC.                                    *)
(***************************************************************************)
EXTENDS LegacyImport, TLC

MCArtifacts == 0 .. SourceCount
MCContents == SourceContents \union {Notice}
MCChecksums == [source : Versions, input : Versions]
MCSymmetry == Permutations(Importers)
=============================================================================
