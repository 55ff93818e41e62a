----------------------------- MODULE AgentNotes -----------------------------
(***************************************************************************)
(* The agent queue: hooks in any pane append notes to it, runs of          *)
(* fox-drawer jump to a note's pane and then dismiss the note, or clear    *)
(* the queue.  Appending and rewriting are serialized by flock on a file   *)
(* beside the queue; a jump reads the queue long before it rewrites it.    *)
(*                                                                         *)
(* A note is its line, and its key the line's hash: equal lines share one. *)
(* A queue that does not exist reads as an empty one.  A reader and the    *)
(* appending hook hold the lock for one access only.                       *)
(***************************************************************************)
EXTENDS Naturals, FiniteSets, Sequences, SequencesExt

CONSTANTS Note, Drawer, Nobody, AllNotes,
          MaxNotes, MaxVisits      \* bounds: notes waiting at once, visits of drawers

ASSUME NoteAssumption ==
    Nobody \notin Drawer /\ AllNotes \notin Note /\ MaxNotes \in Nat /\ MaxVisits \in Nat

VARIABLES
    queue,       \* foxml-agent-queue.jsonl
    holder,      \* the drawer that holds LOCK_EX on the queue's .lock
    drawer,      \* each drawer: pc, the key it was given, the lines that remain
    visits,
    added, shown, cleared   \* history, per note: appended, its pane selected, put away by a clear

notesVars == <<queue, holder, drawer, visits, added, shown, cleared>>
noteHistory == <<added, shown, cleared>>

Gone == [pc |-> "gone", key |-> AllNotes, rest |-> <<>>]
Times(n, s) == Cardinality({i \in 1..Len(s) : s[i] = n})

NotesTypeOK ==
    /\ queue \in Seq(Note) /\ Len(queue) <= MaxNotes
    /\ holder \in Drawer \cup {Nobody}
    /\ drawer \in [Drawer -> [pc : {"gone", "reading", "routing", "locking", "taking", "writing"},
                              key : Note \cup {AllNotes}, rest : Seq(Note)]]
    /\ \A d \in Drawer : drawer[d].pc \in {"reading", "routing"} => drawer[d].key \in Note
    /\ visits \in 0..MaxVisits
    /\ {added, shown, cleared} \subseteq [Note -> Nat]

NotesInit ==
    /\ queue = <<>> /\ holder = Nobody
    /\ drawer = [d \in Drawer |-> Gone]
    /\ visits = 0
    /\ added = [n \in Note |-> 0] /\ shown = added /\ cleared = added

-----------------------------------------------------------------------------
Onward(d, pc, rest) == drawer' = [drawer EXCEPT ![d].pc = pc, ![d].rest = rest]
Leave(d) == drawer' = [drawer EXCEPT ![d] = Gone]
Unlocked == holder = Nobody

(* agent_notify.sh, in one hold of the lock.                               *)
Notify(n) ==
    /\ Unlocked /\ Len(queue) < MaxNotes
    /\ queue' = Append(queue, n)
    /\ added' = [added EXCEPT ![n] = @ + 1]
    /\ UNCHANGED <<holder, drawer, visits, shown, cleared>>

(* The user picks a row of a page that may be old, or clears the queue.    *)
Visit(d, key) ==
    /\ drawer[d].pc = "gone" /\ visits < MaxVisits
    /\ visits' = visits + 1
    /\ drawer' = [drawer EXCEPT ![d] = [Gone EXCEPT !.key = key,
                                        !.pc = IF key = AllNotes THEN "locking" ELSE "reading"]]
    /\ UNCHANGED <<queue, holder, noteHistory>>

(* jump_agent looks its note up, under LOCK_SH.                            *)
LookUp(d) ==
    /\ drawer[d].pc = "reading" /\ Unlocked
    /\ IF Contains(queue, drawer[d].key) THEN Onward(d, "routing", <<>>) ELSE Leave(d)
    /\ UNCHANGED <<queue, holder, visits, noteHistory>>

Route(d) ==
    /\ drawer[d].pc = "routing"
    /\ Onward(d, "locking", <<>>)
    /\ shown' = [shown EXCEPT ![drawer[d].key] = @ + 1]
    /\ UNCHANGED <<queue, holder, visits, added, cleared>>

(* No such tmux session, window, pane or client: the note stays.           *)
RouteFails(d) ==
    /\ drawer[d].pc = "routing" /\ Leave(d)
    /\ UNCHANGED <<queue, holder, visits, noteHistory>>

-----------------------------------------------------------------------------
(* dismiss_agent: lock, keep every line but the first one with the key,    *)
(* and put a file with these lines in the queue's place.                   *)
LockQueue(d) ==
    /\ drawer[d].pc = "locking" /\ Unlocked
    /\ holder' = d
    /\ Onward(d, "taking", <<>>)
    /\ UNCHANGED <<queue, visits, noteHistory>>

(* Fault: every line with the key goes, not only the first.                *)
KeptOthers(key) == IF key = AllNotes THEN <<>> ELSE Remove(queue, key)

(* Fault: the lines go back in the order the page shows them.              *)
KeptReversed(key) == IF key = AllNotes THEN <<>> ELSE Reverse(RemoveFirst(queue, key))

Kept(key) == IF key = AllNotes THEN <<>> ELSE RemoveFirst(queue, key)

TakeLines(d) ==
    /\ drawer[d].pc = "taking"
    /\ Onward(d, "writing", Kept(drawer[d].key))
    /\ UNCHANGED <<queue, holder, visits, noteHistory>>

Release(d) == holder' = IF holder = d THEN Nobody ELSE holder

Replace(d) ==
    /\ drawer[d].pc = "writing"
    /\ queue' = drawer[d].rest
    /\ cleared' = IF drawer[d].key = AllNotes THEN [n \in Note |-> cleared[n] + Times(n, queue)] ELSE cleared
    /\ Release(d) /\ Leave(d)
    /\ UNCHANGED <<visits, added, shown>>

(* A full disk, or a kill at any point: only the temporary file is lost,   *)
(* and the kernel drops the lock.                                          *)
DrawerDies(d) ==
    /\ drawer[d].pc # "gone"
    /\ Release(d) /\ Leave(d)
    /\ UNCHANGED <<queue, visits, noteHistory>>

NotesNext ==
    \/ \E n \in Note : Notify(n)
    \/ \E d \in Drawer :
         \/ \E key \in Note \cup {AllNotes} : Visit(d, key)
         \/ LookUp(d) \/ Route(d) \/ RouteFails(d)
         \/ LockQueue(d) \/ TakeLines(d) \/ Replace(d) \/ DrawerDies(d)

NotesSpec == NotesInit /\ [][NotesNext]_notesVars

-----------------------------------------------------------------------------
(* The queue is a note book: readers of a stale page, hooks and kills      *)
(* never make it lose or repeat a line another process wrote.              *)
Book == INSTANCE NoteBook WITH notes <- queue
QueueIsANoteBook == Book!NoteBookSpec

(* A note leaves the queue only after its pane was shown to the user, or   *)
(* because the user put every note away; each showing takes one note.      *)
NotesAreSeenFirst ==
    \A n \in Note : added[n] <= Times(n, queue) + cleared[n] + shown[n]

(* The inductive invariant: who works on the queue holds its lock, and     *)
(* the lines it kept are still what the queue would lose.                  *)
NotesLockOK ==
    \A d \in Drawer :
        /\ drawer[d].pc \in {"taking", "writing"} <=> holder = d
        /\ drawer[d].pc = "writing" => drawer[d].rest = Kept(drawer[d].key)
=============================================================================
