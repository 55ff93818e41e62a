------------------------------ MODULE NoteBook ------------------------------
(***************************************************************************)
(* What the agent queue promises: a list that grows at its end and shrinks *)
(* by one named note at a time, or is put away as a whole.                 *)
(***************************************************************************)
EXTENDS Sequences, SequencesExt

CONSTANT Note
VARIABLE notes

NoteBookInit == notes = <<>>
Add(n) == notes' = Append(notes, n)
Dismiss(n) == notes' = RemoveFirst(notes, n)
PutAway == notes' = <<>>
NoteBookNext == PutAway \/ \E n \in Note : Add(n) \/ Dismiss(n)
NoteBookSpec == NoteBookInit /\ [][NoteBookNext]_notes
=============================================================================
