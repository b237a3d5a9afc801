---- MODULE MCEditorHistory ----
(* Three texts, two values of the workflow fields, and three entries of undo: *)
(* the oldest entry is dropped, and entries may equal others.              *)
EXTENDS EditorHistory, TLC

CONSTANTS t1, t2, t3, f1, f2

MCSymmetry == Permutations(Texts) \cup Permutations(Fields)

====
