--------------------------- MODULE MCTransferEngine ---------------------------
(* Instances of TransferEngine for TLC: files that are refused, then let through, *)
(* then excluded by a rule on executables.                                       *)
EXTENDS TransferEngine

CONSTANTS i1, i2

OneItem == {i1}
TwoItems == {i1, i2}

\* Not scanned at first, then clean, then an executable.
Observed ==
    <<[verdict |-> "not_scanned", type |-> "PDFFileType"],
      [verdict |-> "benign", type |-> "PDFFileType"],
      [verdict |-> "benign", type |-> "PE32FileType"]>>

NoExecutables == [windows_executables |-> "exclude"]

ReviewUnknown == [unknown |-> "manual_review"]
=============================================================================
