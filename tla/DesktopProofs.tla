---------------------------- MODULE DesktopProofs ---------------------------
(***************************************************************************)
(* Theorems about the files that programs of the session share: the        *)
(* drawer's agent queue, its bookmark ribbons and the picker's request,    *)
(* and findex's index.                                                     *)
(***************************************************************************)
EXTENDS AgentNotes, Bookmarks, Picker, Findex, FiniteSetTheorems, SequenceTheorems, WellFoundedInduction, TLAPS

-----------------------------------------------------------------------------
(* Sequences.                                                              *)
(* A non-empty set of naturals has a least member.                         *)
LEMMA Smallest == ASSUME NEW T \in SUBSET Nat, T # {} PROVE \E x \in T : \A y \in T : x <= y
<1> DEFINE Less == OpToRel(<, Nat)
<1>1. \A x, y \in Nat : <<y, x>> \in Less <=> y < x
  BY DEF OpToRel
<1>2. \E x \in T : \A y \in T : ~(<<y, x>> \in Less)
  BY NatLessThanWellFounded, WFMin, Zenon
<1> HIDE DEF Less
<1>3. PICK x \in T : \A y \in T : ~(<<y, x>> \in Less)
  BY <1>2, Zenon
<1>4. ASSUME NEW y \in T PROVE x <= y
  <2>1. x \in Nat /\ y \in Nat
    OBVIOUS
  <2>2. ~(<<y, x>> \in Less)
    BY <1>3, Zenon
  <2>3. ~(y < x)
    BY <1>1, <2>1, <2>2, Zenon
  <2> QED
    BY <2>1, <2>3
<1> QED
  BY <1>4

(* What RemoveFirst removes is the first place of its member.              *)
LEMMA FirstPlace ==
  ASSUME NEW P, NEW s \in Seq(P), NEW m, Contains(s, m)
  PROVE  \E j \in 1..Len(s) : s[j] = m /\ RemoveFirst(s, m) = RemoveAt(s, j)
<1> DEFINE I == {i \in 1..Len(s) : s[i] = m}
<1>1. I \in SUBSET Nat /\ I # {}
  BY LenProperties DEF Contains
<1>2. \E x \in I : \A y \in I : x <= y
  BY <1>1, Smallest
<1>3. Min(I) \in I
  BY <1>2 DEF Min
<1>4. RemoveFirst(s, m) = RemoveAt(s, Min(I))
  BY <1>1 DEF RemoveFirst, SelectInSeq, Contains
<1> QED
  BY <1>3, <1>4

(* A sequence without its j-th member.                                     *)
LEMMA Without ==
  ASSUME NEW P, NEW s \in Seq(P), NEW j \in 1..Len(s)
  PROVE  /\ RemoveAt(s, j) \in Seq(P) /\ Len(RemoveAt(s, j)) = Len(s) - 1
         /\ \A i \in 1..(Len(s) - 1) : RemoveAt(s, j)[i] = IF i < j THEN s[i] ELSE s[i + 1]
<1> DEFINE a == SubSeq(s, 1, j - 1)
           b == SubSeq(s, j + 1, Len(s))
<1>1. Len(s) \in Nat /\ j \in Nat /\ 1 <= j /\ j <= Len(s)
  BY LenProperties
<1>2. \A i \in 1..Len(s) : s[i] \in P
  BY ElementOfSeq
<1>3. a \in Seq(P) /\ Len(a) = j - 1 /\ \A i \in 1..(j - 1) : a[i] = s[i]
  BY <1>1, <1>2, SubSeqProperties
<1>4. b \in Seq(P) /\ Len(b) = Len(s) - j /\ \A i \in 1..(Len(s) - j) : b[i] = s[j + i]
  BY <1>1, <1>2, SubSeqProperties
<1>5. RemoveAt(s, j) = a \o b
  BY DEF RemoveAt
<1> HIDE DEF a, b
<1>6. a \o b \in Seq(P) /\ Len(a \o b) = Len(a) + Len(b)
      /\ \A i \in 1..(Len(a) + Len(b)) : (a \o b)[i] = IF i <= Len(a) THEN a[i] ELSE b[i - Len(a)]
  BY <1>3, <1>4, ConcatProperties
<1> QED
  BY <1>1, <1>3, <1>4, <1>5, <1>6

-----------------------------------------------------------------------------
(* Agent notes.                                                            *)
NotesShape ==
    /\ DOMAIN drawer = Drawer
    /\ \A d \in Drawer : /\ DOMAIN drawer[d] = {"pc", "key", "rest"}
                          /\ drawer[d].key \in Note \cup {AllNotes}
NotesInv == NotesShape /\ NotesLockOK

(* The shape and the lock discipline hold initially and in every step.     *)
LEMMA NotesInvInductive == NotesSpec => []NotesInv
<1>1. NotesInit => NotesInv
  BY NoteAssumption DEF NotesInit, NotesInv, NotesShape, NotesLockOK, Gone
<1>2. NotesInv /\ [NotesNext]_notesVars => NotesInv'
  <2> SUFFICES ASSUME NotesInv, [NotesNext]_notesVars PROVE NotesInv'
    OBVIOUS
  <2> USE NoteAssumption DEF NotesInv, NotesShape, NotesLockOK, Unlocked, Kept
  <2>1. ASSUME NEW n \in Note, Notify(n) PROVE NotesInv'
    BY <2>1 DEF Notify
  <2>2. ASSUME NEW d \in Drawer, NEW key \in Note \cup {AllNotes}, Visit(d, key) PROVE NotesInv'
    BY <2>2 DEF Visit, Gone, noteHistory
  <2>3. ASSUME NEW d \in Drawer, LookUp(d) PROVE NotesInv'
    BY <2>3 DEF LookUp, Onward, Leave, Gone, noteHistory
  <2>4. ASSUME NEW d \in Drawer, Route(d) PROVE NotesInv'
    BY <2>4 DEF Route, Onward
  <2>5. ASSUME NEW d \in Drawer, RouteFails(d) PROVE NotesInv'
    BY <2>5 DEF RouteFails, Leave, Gone, noteHistory
  <2>6. ASSUME NEW d \in Drawer, LockQueue(d) PROVE NotesInv'
    BY <2>6 DEF LockQueue, Onward, noteHistory
  <2>7. ASSUME NEW d \in Drawer, TakeLines(d) PROVE NotesInv'
    BY <2>7 DEF TakeLines, Onward, noteHistory
  <2>8. ASSUME NEW d \in Drawer, Replace(d) PROVE NotesInv'
    BY <2>8 DEF Replace, Release, Leave, Gone
  <2>9. ASSUME NEW d \in Drawer, DrawerDies(d) PROVE NotesInv'
    BY <2>9 DEF DrawerDies, Release, Leave, Gone, noteHistory
  <2>10. ASSUME UNCHANGED notesVars PROVE NotesInv'
    BY <2>10 DEF notesVars
  <2> QED
    BY <2>1, <2>2, <2>3, <2>4, <2>5, <2>6, <2>7, <2>8, <2>9, <2>10 DEF NotesNext
<1> QED
  BY <1>1, <1>2, PTL DEF NotesSpec

(* Who works on the queue holds its lock, and what it kept is never stale. *)
THEOREM NotesLockHolds == NotesSpec => []NotesLockOK
<1>1. NotesInv => NotesLockOK
  BY DEF NotesInv
<1> QED
  BY <1>1, NotesInvInductive, PTL

(* The queue refines the note book, for any number of drawers and notes.   *)
THEOREM QueueRefinesNoteBook == NotesSpec => QueueIsANoteBook
<1>1. NotesInit => Book!NoteBookInit
  BY DEF NotesInit, Book!NoteBookInit
<1>2. NotesInv /\ [NotesNext]_notesVars => [Book!NoteBookNext]_queue
  <2> SUFFICES ASSUME NotesInv, [NotesNext]_notesVars, queue' # queue PROVE Book!NoteBookNext
    BY DEF NotesInv
  <2>1. ASSUME NEW n \in Note, Notify(n) PROVE Book!NoteBookNext
    BY <2>1 DEF Notify, Book!NoteBookNext, Book!Add
  <2>2. ASSUME NEW d \in Drawer, Replace(d) PROVE Book!NoteBookNext
    <3>1. queue' = Kept(drawer[d].key) /\ drawer[d].key \in Note \cup {AllNotes}
      BY <2>2 DEF Replace, NotesInv, NotesShape, NotesLockOK
    <3>2. CASE drawer[d].key = AllNotes
      BY <3>1, <3>2 DEF Kept, Book!NoteBookNext, Book!PutAway
    <3>3. CASE drawer[d].key \in Note
      <4>1. queue' = RemoveFirst(queue, drawer[d].key)
        BY <3>1, <3>3, NoteAssumption DEF Kept
      <4> QED
        BY <3>3, <4>1 DEF Book!NoteBookNext, Book!Dismiss, RemoveFirst, RemoveAt, SelectInSeq, Min,
                         Book!RemoveFirst, Book!RemoveAt, Book!SelectInSeq, Book!Min
    <3> QED
      BY <3>1, <3>2, <3>3
  <2> QED
    BY <2>1, <2>2 DEF NotesNext, notesVars, noteHistory, Visit, LookUp, Route, RouteFails, LockQueue, TakeLines, DrawerDies
<1> QED
  BY <1>1, <1>2, NotesInvInductive, PTL DEF NotesSpec, QueueIsANoteBook, Book!NoteBookSpec

(* The places of n in s, and how many they are.                            *)
Places(n, s) == {i \in 1..Len(s) : s[i] = n}

LEMMA TimesIsCount ==
  ASSUME NEW s \in Seq(Note), NEW n
  PROVE  IsFiniteSet(Places(n, s)) /\ Times(n, s) = Cardinality(Places(n, s)) /\ Times(n, s) \in Nat
<1>1. Len(s) \in Nat /\ 0 \in Int /\ 1 \in Int
  BY LenProperties
<1>2. IsFiniteSet(1..Len(s))
  BY <1>1, FS_Interval
<1>3. IsFiniteSet(Places(n, s))
  BY <1>2, FS_Subset DEF Places
<1> QED
  BY <1>3, FS_CardinalityType DEF Times, Places

(* Nothing is in an empty queue.                                           *)
LEMMA TimesEmpty == \A n : Times(n, <<>>) = 0
<1> SUFFICES ASSUME NEW n PROVE Times(n, <<>>) = 0
  OBVIOUS
<1>1. {i \in 1..Len(<<>>) : <<>>[i] = n} = {}
  OBVIOUS
<1> QED
  BY <1>1, FS_EmptySet DEF Times

(* An appended note is there once more, the others as often as before.     *)
LEMMA TimesAppend ==
  ASSUME NEW s \in Seq(Note), NEW m \in Note, NEW n
  PROVE  Times(n, Append(s, m)) = Times(n, s) + (IF m = n THEN 1 ELSE 0)
<1> DEFINE t == Append(s, m)
<1>1. t \in Seq(Note) /\ Len(s) \in Nat /\ Len(t) = Len(s) + 1 /\ t[Len(s) + 1] = m
      /\ \A i \in 1..Len(s) : t[i] = s[i]
  BY LenProperties, AppendProperties
<1>2. IsFiniteSet(Places(n, s)) /\ Times(n, s) = Cardinality(Places(n, s)) /\ Times(n, s) \in Nat
      /\ Times(n, t) = Cardinality(Places(n, t))
  BY <1>1, TimesIsCount
<1> HIDE DEF t
<1>3. CASE m = n
  <2>1. Places(n, t) = Places(n, s) \cup {Len(s) + 1} /\ Len(s) + 1 \notin Places(n, s)
    BY <1>1, <1>3 DEF Places
  <2> QED
    BY <1>2, <1>3, <2>1, FS_AddElement DEF t
<1>4. CASE m # n
  <2>1. Places(n, t) = Places(n, s)
    BY <1>1, <1>4 DEF Places
  <2> QED
    BY <1>2, <1>4, <2>1 DEF t
<1> QED
  BY <1>3, <1>4

(* A removal takes one place of the note it is about, and of no other.     *)
LEMMA TimesRemove ==
  ASSUME NEW s \in Seq(Note), NEW m, NEW n
  PROVE  /\ RemoveFirst(s, m) \in Seq(Note) /\ Len(RemoveFirst(s, m)) <= Len(s)
         /\ Times(n, s) <= Times(n, RemoveFirst(s, m)) + (IF m = n THEN 1 ELSE 0)
<1>1. CASE ~Contains(s, m)
  <2>1. RemoveFirst(s, m) = s
    BY <1>1 DEF RemoveFirst, Contains
  <2> QED
    BY <2>1, TimesIsCount, LenProperties
<1>2. CASE Contains(s, m)
  <2>1. PICK j \in 1..Len(s) : s[j] = m /\ RemoveFirst(s, m) = RemoveAt(s, j)
    BY <1>2, FirstPlace
  <2> DEFINE t == RemoveAt(s, j)
             S == Places(n, s) \ {j}
             f == [i \in S |-> IF i < j THEN i ELSE i - 1]
  <2>2. t \in Seq(Note) /\ Len(t) = Len(s) - 1 /\ Len(s) \in Nat
        /\ \A i \in 1..(Len(s) - 1) : t[i] = IF i < j THEN s[i] ELSE s[i + 1]
    BY Without, LenProperties
  <2> HIDE DEF t
  <2>3. /\ IsFiniteSet(Places(n, s)) /\ Times(n, s) = Cardinality(Places(n, s)) /\ Times(n, s) \in Nat
        /\ IsFiniteSet(Places(n, t)) /\ Times(n, t) = Cardinality(Places(n, t)) /\ Times(n, t) \in Nat
    BY <2>2, TimesIsCount
  <2>4. ASSUME NEW i \in S PROVE f[i] \in Places(n, t)
    <3>1. i \in 1..Len(s) /\ s[i] = n /\ i # j /\ j \in 1..Len(s)
      BY <2>4 DEF Places
    <3>2. f[i] \in 1..(Len(s) - 1)
      BY <2>2, <3>1
    <3>3. t[f[i]] = s[i]
      BY <2>2, <3>1, <3>2
    <3> QED
      BY <2>2, <3>1, <3>2, <3>3 DEF Places
  <2>5. ASSUME NEW i \in S, NEW k \in S, f[i] = f[k] PROVE i = k
    <3>1. i \in Nat /\ k \in Nat /\ j \in Nat /\ i # j /\ k # j
      BY <2>2 DEF Places
    <3> QED
      BY <2>5, <3>1
  <2>6. f \in Injection(S, Places(n, t))
    BY <2>4, <2>5 DEF Injection, IsInjective
  <2>7. Cardinality(S) <= Cardinality(Places(n, t))
    BY <2>3, <2>6, FS_Injection
  <2>8. Cardinality(S) = IF j \in Places(n, s) THEN Cardinality(Places(n, s)) - 1 ELSE Cardinality(Places(n, s))
    BY <2>3, FS_RemoveElement
  <2>9. j \in Places(n, s) => m = n
    BY <2>1 DEF Places
  <2> HIDE DEF S, f
  <2>10. Times(n, s) <= Times(n, t) + (IF m = n THEN 1 ELSE 0)
    BY <2>3, <2>7, <2>8, <2>9
  <2> QED
    BY <2>1, <2>2, <2>10 DEF t
<1> QED
  BY <1>1, <1>2

(* What a drawer keeps is a queue that is no longer than the one it read.  *)
LEMMA KeptIsAQueue ==
  ASSUME NotesTypeOK, NEW key \in Note \cup {AllNotes}
  PROVE  Kept(key) \in Seq(Note) /\ Len(Kept(key)) <= MaxNotes
<1>1. Len(queue) \in Nat /\ Len(queue) <= MaxNotes /\ queue \in Seq(Note) /\ MaxNotes \in Nat
  BY NoteAssumption, LenProperties DEF NotesTypeOK
<1>2. Len(RemoveFirst(queue, key)) \in Nat /\ RemoveFirst(queue, key) \in Seq(Note)
      /\ Len(RemoveFirst(queue, key)) <= Len(queue)
  BY <1>1, TimesRemove, LenProperties
<1> QED
  BY <1>1, <1>2 DEF Kept

(* A drawer's record, as the type invariant has it.                        *)
Visitor == [pc : {"gone", "reading", "routing", "locking", "taking", "writing"},
            key : Note \cup {AllNotes}, rest : Seq(Note)]

LEMMA NotesTypesInductive == NotesInv /\ NotesTypeOK /\ [NotesNext]_notesVars => NotesTypeOK'
<1> SUFFICES ASSUME NotesInv, NotesTypeOK, [NotesNext]_notesVars PROVE NotesTypeOK'
  OBVIOUS
<1>0. drawer \in [Drawer -> Visitor] /\ <<>> \in Seq(Note)
  BY DEF NotesTypeOK, Visitor
<1> USE NoteAssumption
<1>1. ASSUME NEW n \in Note, Notify(n) PROVE NotesTypeOK'
  <2>1. queue' \in Seq(Note) /\ Len(queue') <= MaxNotes
    <3>1. Len(queue) \in Nat /\ Len(queue) < MaxNotes /\ queue' = Append(queue, n)
      BY <1>1, LenProperties DEF Notify, NotesTypeOK
    <3>2. queue' \in Seq(Note) /\ Len(queue') = Len(queue) + 1
      BY <3>1, AppendProperties DEF NotesTypeOK
    <3> QED
      BY <3>1, <3>2
  <2> QED
    BY <1>1, <2>1 DEF Notify, NotesTypeOK
<1>2. ASSUME NEW d \in Drawer, NEW key \in Note \cup {AllNotes}, Visit(d, key) PROVE NotesTypeOK'
  <2> DEFINE v == [Gone EXCEPT !.key = key, !.pc = IF key = AllNotes THEN "locking" ELSE "reading"]
  <2>1. v \in Visitor /\ (v.pc \in {"reading", "routing"} => v.key \in Note)
    BY <1>0 DEF Gone, Visitor
  <2>2. drawer' = [drawer EXCEPT ![d] = v]
    BY <1>2 DEF Visit
  <2> HIDE DEF v
  <2>3. drawer' \in [Drawer -> Visitor]
    BY <1>0, <2>1, <2>2
  <2>4. \A e \in Drawer : drawer'[e].pc \in {"reading", "routing"} => drawer'[e].key \in Note
    BY <1>0, <2>1, <2>2 DEF NotesTypeOK
  <2> QED
    BY <1>2, <2>3, <2>4 DEF Visit, NotesTypeOK, noteHistory, Visitor
<1>3. ASSUME NEW d \in Drawer, NEW pc \in {"routing", "locking", "taking", "writing"}, NEW rest \in Seq(Note),
             Onward(d, pc, rest), pc = "routing" => drawer[d].key \in Note
      PROVE  /\ drawer' \in [Drawer -> Visitor]
             /\ \A e \in Drawer : drawer'[e].pc \in {"reading", "routing"} => drawer'[e].key \in Note
  <2> DEFINE v == [drawer[d] EXCEPT !.pc = pc, !.rest = rest]
  <2>1. v \in Visitor /\ (v.pc \in {"reading", "routing"} => v.key \in Note)
    BY <1>0, <1>3 DEF Visitor
  <2>2. drawer' = [drawer EXCEPT ![d] = v]
    BY <1>0, <1>3 DEF Onward
  <2> HIDE DEF v
  <2> QED
    BY <1>0, <2>1, <2>2 DEF NotesTypeOK
<1>4. ASSUME NEW d \in Drawer, Leave(d)
      PROVE  /\ drawer' \in [Drawer -> Visitor]
             /\ \A e \in Drawer : drawer'[e].pc \in {"reading", "routing"} => drawer'[e].key \in Note
  <2>1. Gone \in Visitor /\ Gone.pc = "gone"
    BY <1>0 DEF Gone, Visitor
  <2> QED
    BY <1>0, <1>4, <2>1 DEF Leave, NotesTypeOK
<1>5. ASSUME NEW d \in Drawer, LookUp(d) PROVE NotesTypeOK'
  <2>1. drawer[d].key \in Note
    BY <1>5 DEF LookUp, NotesTypeOK
  <2>2. Onward(d, "routing", <<>>) \/ Leave(d)
    BY <1>5 DEF LookUp
  <2> QED
    BY <1>0, <1>3, <1>4, <1>5, <2>1, <2>2 DEF LookUp, NotesTypeOK, noteHistory, Visitor
<1>6. ASSUME NEW d \in Drawer, Route(d) PROVE NotesTypeOK'
  <2>1. drawer[d].key \in Note /\ Onward(d, "locking", <<>>)
    BY <1>6 DEF Route, NotesTypeOK
  <2>2. shown' \in [Note -> Nat]
    BY <1>6, <2>1 DEF Route, NotesTypeOK
  <2> QED
    BY <1>0, <1>3, <1>6, <2>1, <2>2 DEF Route, NotesTypeOK, Visitor
<1>7. ASSUME NEW d \in Drawer, RouteFails(d) PROVE NotesTypeOK'
  BY <1>4, <1>7 DEF RouteFails, NotesTypeOK, noteHistory, Visitor
<1>8. ASSUME NEW d \in Drawer, LockQueue(d) PROVE NotesTypeOK'
  BY <1>0, <1>3, <1>8 DEF LockQueue, NotesTypeOK, noteHistory, Visitor
<1>9. ASSUME NEW d \in Drawer, TakeLines(d) PROVE NotesTypeOK'
  <2>1. Kept(drawer[d].key) \in Seq(Note)
    BY <1>0, KeptIsAQueue DEF Visitor
  <2> QED
    BY <1>0, <1>3, <1>9, <2>1 DEF TakeLines, NotesTypeOK, noteHistory, Visitor
<1>10. ASSUME NEW d \in Drawer, Replace(d) PROVE NotesTypeOK'
  <2>1. queue' = Kept(drawer[d].key) /\ drawer[d].key \in Note \cup {AllNotes}
    BY <1>10 DEF Replace, NotesInv, NotesShape, NotesLockOK
  <2>2. queue' \in Seq(Note) /\ Len(queue') <= MaxNotes
    BY <2>1, KeptIsAQueue
  <2>3. \A n \in Note : cleared[n] + Times(n, queue) \in Nat
    BY TimesIsCount DEF NotesTypeOK
  <2>4. cleared' \in [Note -> Nat]
    BY <1>10, <2>3 DEF Replace, NotesTypeOK
  <2>5. holder' \in Drawer \cup {Nobody}
    BY <1>10 DEF Replace, Release, NotesTypeOK
  <2> QED
    BY <1>4, <1>10, <2>2, <2>4, <2>5 DEF Replace, NotesTypeOK, Visitor
<1>11. ASSUME NEW d \in Drawer, DrawerDies(d) PROVE NotesTypeOK'
  BY <1>4, <1>11 DEF DrawerDies, Release, NotesTypeOK, noteHistory, Visitor
<1>12. ASSUME UNCHANGED notesVars PROVE NotesTypeOK'
  BY <1>12 DEF notesVars, NotesTypeOK
<1> QED
  BY <1>1, <1>2, <1>5, <1>6, <1>7, <1>8, <1>9, <1>10, <1>11, <1>12 DEF NotesNext

(* The queue, its lock and its drawers keep their types, the queue its     *)
(* bound, and only a picked note is looked up and routed to.               *)
THEOREM NotesTypes == NotesSpec => []NotesTypeOK
<1>1. NotesInit => NotesTypeOK
  <2> SUFFICES ASSUME NotesInit PROVE NotesTypeOK
    OBVIOUS
  <2>1. <<>> \in Seq(Note) /\ Len(<<>>) = 0
    OBVIOUS
  <2>2. Gone \in Visitor /\ Gone.pc = "gone"
    BY <2>1 DEF Gone, Visitor
  <2>3. drawer \in [Drawer -> Visitor] /\ \A d \in Drawer : drawer[d].pc = "gone"
    BY <2>2 DEF NotesInit
  <2> QED
    BY NoteAssumption, <2>1, <2>3 DEF NotesInit, NotesTypeOK, Visitor
<1> QED
  BY <1>1, NotesTypesInductive, NotesInvInductive, PTL DEF NotesSpec

(* The drawers that have shown note n and have yet to dismiss it.          *)
Owing(n) == {d \in Drawer : drawer[d].pc \in {"locking", "taking", "writing"} /\ drawer[d].key = n}

(* Each of them will take one note away, which its showing pays for.       *)
NotesPaid ==
    /\ IsFiniteSet({d \in Drawer : drawer[d].pc # "gone"})
    /\ \A n \in Note : added[n] + Cardinality(Owing(n)) <= Times(n, queue) + cleared[n] + shown[n]

LEMMA OwingIsFinite ==
  ASSUME NotesPaid, NEW n \in Note
  PROVE  IsFiniteSet(Owing(n)) /\ Cardinality(Owing(n)) \in Nat
<1>1. Owing(n) \in SUBSET {d \in Drawer : drawer[d].pc # "gone"}
  BY DEF Owing
<1> QED
  BY <1>1, FS_Subset, FS_CardinalityType DEF NotesPaid

(* The part of a step that moves one drawer: its debts do not grow, unless *)
(* it has just shown its note.                                             *)
LEMMA OneDrawerMoves ==
  ASSUME NotesInv, NotesPaid, NEW d \in Drawer, NEW v, drawer' = [drawer EXCEPT ![d] = v]
  PROVE  /\ IsFiniteSet({e \in Drawer : drawer'[e].pc # "gone"})
         /\ \A n \in Note : Owing(n)' \subseteq Owing(n) \cup {d}
         /\ \A n \in Note : v.pc \notin {"locking", "taking", "writing"} \/ v.key # n => Owing(n)' = Owing(n) \ {d}
<1>1. DOMAIN drawer = Drawer
  BY DEF NotesInv, NotesShape
<1>2. \A e \in Drawer : drawer'[e] = IF e = d THEN v ELSE drawer[e]
  BY <1>1
<1> DEFINE S == {e \in Drawer : drawer[e].pc # "gone"}
           T == {e \in Drawer : drawer'[e].pc # "gone"}
<1>3. IsFiniteSet(S \cup {d}) /\ T \in SUBSET (S \cup {d})
  <2>1. T \subseteq S \cup {d}
    BY <1>2
  <2> QED
    BY <2>1, FS_AddElement DEF NotesPaid
<1>4. IsFiniteSet(T)
  BY <1>3, FS_Subset
<1>5. \A n \in Note : Owing(n)' \subseteq Owing(n) \cup {d}
  BY <1>2 DEF Owing
<1>6. \A n \in Note : v.pc \notin {"locking", "taking", "writing"} \/ v.key # n => Owing(n)' = Owing(n) \ {d}
  BY <1>2 DEF Owing
<1> QED
  BY <1>4, <1>5, <1>6

(* A step that leaves the queue and the history alone, and shows nothing   *)
(* that is not already owed, keeps the account.                            *)
LEMMA QuietSteps ==
  ASSUME NotesInv, NotesTypeOK, NotesPaid, NEW d \in Drawer, NEW v, drawer' = [drawer EXCEPT ![d] = v],
         UNCHANGED <<queue, noteHistory>>,
         \A n \in Note : v.pc \in {"locking", "taking", "writing"} /\ v.key = n => d \in Owing(n)
  PROVE  NotesPaid'
<1>1. ASSUME NEW n \in Note PROVE Owing(n)' \in SUBSET Owing(n)
  <2>1. Owing(n)' \subseteq Owing(n) \cup {d}
    BY OneDrawerMoves
  <2>2. v.pc \notin {"locking", "taking", "writing"} \/ v.key # n => Owing(n)' = Owing(n) \ {d}
    BY OneDrawerMoves
  <2>3. CASE d \in Owing(n)
    BY <2>1, <2>3
  <2>4. CASE d \notin Owing(n)
    BY <2>2, <2>4
  <2> QED
    BY <2>3, <2>4
<1>2. ASSUME NEW n \in Note PROVE Cardinality(Owing(n)') <= Cardinality(Owing(n)) /\ Cardinality(Owing(n)') \in Nat
  BY <1>1, OwingIsFinite, FS_Subset, FS_CardinalityType
<1>3. ASSUME NEW n \in Note PROVE added'[n] + Cardinality(Owing(n)') <= Times(n, queue') + cleared'[n] + shown'[n]
  <2>1. added[n] \in Nat /\ cleared[n] \in Nat /\ shown[n] \in Nat /\ Times(n, queue) \in Nat
        /\ Cardinality(Owing(n)) \in Nat
    BY TimesIsCount, OwingIsFinite DEF NotesTypeOK
  <2>2. added[n] + Cardinality(Owing(n)) <= Times(n, queue) + cleared[n] + shown[n]
    BY DEF NotesPaid
  <2> QED
    BY <1>2, <2>1, <2>2 DEF noteHistory
<1>4. IsFiniteSet({e \in Drawer : drawer'[e].pc # "gone"})
  BY OneDrawerMoves
<1> QED
  BY <1>3, <1>4 DEF NotesPaid

LEMMA NotesPaidInductive == NotesInv /\ NotesTypeOK /\ NotesPaid /\ [NotesNext]_notesVars => NotesPaid'
<1> SUFFICES ASSUME NotesInv, NotesTypeOK, NotesPaid, [NotesNext]_notesVars PROVE NotesPaid'
  OBVIOUS
<1> USE NoteAssumption
<1>0. ASSUME NEW n \in Note
      PROVE  /\ added[n] \in Nat /\ cleared[n] \in Nat /\ shown[n] \in Nat /\ Times(n, queue) \in Nat
             /\ IsFiniteSet(Owing(n)) /\ Cardinality(Owing(n)) \in Nat
             /\ added[n] + Cardinality(Owing(n)) <= Times(n, queue) + cleared[n] + shown[n]
  BY TimesIsCount, OwingIsFinite DEF NotesTypeOK, NotesPaid
<1>1. ASSUME NEW m \in Note, Notify(m) PROVE NotesPaid'
  <2>1. ASSUME NEW n \in Note PROVE added'[n] + Cardinality(Owing(n)) <= Times(n, queue') + cleared[n] + shown[n]
    <3>1. Times(n, queue') = Times(n, queue) + (IF m = n THEN 1 ELSE 0)
      BY <1>1, TimesAppend DEF Notify, NotesTypeOK
    <3>2. added'[n] = added[n] + (IF m = n THEN 1 ELSE 0)
      <4>1. added \in [Note -> Nat] /\ added' = [added EXCEPT ![m] = added[m] + 1]
        BY <1>1 DEF Notify, NotesTypeOK
      <4> QED
        BY <1>0, <4>1
    <3> QED
      BY <1>0, <3>1, <3>2
  <2> QED
    BY <1>1, <2>1 DEF Notify, NotesPaid, Owing
<1>2. ASSUME NEW d \in Drawer, NEW key \in Note \cup {AllNotes}, Visit(d, key) PROVE NotesPaid'
  <2> DEFINE v == [Gone EXCEPT !.key = key, !.pc = IF key = AllNotes THEN "locking" ELSE "reading"]
  <2>1. drawer' = [drawer EXCEPT ![d] = v] /\ UNCHANGED <<queue, noteHistory>>
    BY <1>2 DEF Visit
  <2>2. v.pc \in {"locking", "taking", "writing"} => v.key = AllNotes
    BY DEF Gone
  <2> HIDE DEF v
  <2> QED
    BY <2>1, <2>2, QuietSteps
<1>3. ASSUME NEW d \in Drawer, Leave(d), UNCHANGED <<queue, noteHistory>> PROVE NotesPaid'
  <2>1. drawer' = [drawer EXCEPT ![d] = Gone] /\ Gone.pc = "gone"
    BY <1>3 DEF Leave, Gone
  <2> QED
    BY <1>3, <2>1, QuietSteps
<1>4. ASSUME NEW d \in Drawer, NEW pc, NEW rest, Onward(d, pc, rest), UNCHANGED <<queue, noteHistory>>,
             pc \in {"routing"} \/ drawer[d].pc \in {"locking", "taking"}
      PROVE  NotesPaid'
  <2> DEFINE v == [drawer[d] EXCEPT !.pc = pc, !.rest = rest]
  <2>1. DOMAIN drawer = Drawer /\ DOMAIN drawer[d] = {"pc", "key", "rest"}
    BY DEF NotesInv, NotesShape
  <2>2. drawer' = [drawer EXCEPT ![d] = v]
    BY <1>4, <2>1 DEF Onward
  <2>3. drawer[d] \in Visitor
    BY DEF NotesTypeOK, Visitor
  <2>4. v.pc = pc /\ v.key = drawer[d].key
    BY <2>3 DEF Visitor
  <2> HIDE DEF v
  <2>5. \A n \in Note : v.pc \in {"locking", "taking", "writing"} /\ v.key = n => d \in Owing(n)
    BY <1>4, <2>4 DEF Owing
  <2> QED
    BY <1>4, <2>2, <2>5, QuietSteps
<1>5. ASSUME NEW d \in Drawer, LookUp(d) PROVE NotesPaid'
  BY <1>3, <1>4, <1>5 DEF LookUp
<1>6. ASSUME NEW d \in Drawer, Route(d) PROVE NotesPaid'
  <2> DEFINE v == [drawer[d] EXCEPT !.pc = "locking", !.rest = <<>>]
             m == drawer[d].key
  <2>1. drawer \in [Drawer -> Visitor] /\ drawer[d] \in Visitor /\ m \in Note /\ d \notin Owing(m)
    BY <1>6 DEF Route, NotesTypeOK, Visitor, Owing
  <2>2. drawer' = [drawer EXCEPT ![d] = v]
    BY <1>6, <2>1 DEF Route, Onward
  <2>3. v.pc = "locking" /\ v.key = m
    BY <2>1 DEF Visitor
  <2>4. \A n \in Note : shown'[n] = shown[n] + (IF n = m THEN 1 ELSE 0)
    <3>1. shown \in [Note -> Nat] /\ shown' = [shown EXCEPT ![m] = shown[m] + 1]
      BY <1>6 DEF Route, NotesTypeOK
    <3> QED
      BY <1>0, <2>1, <3>1
  <2> HIDE DEF v, m
  <2>5. ASSUME NEW n \in Note PROVE Cardinality(Owing(n)') <= Cardinality(Owing(n)) + (IF n = m THEN 1 ELSE 0)
                                    /\ Cardinality(Owing(n)') \in Nat
    <3>1. CASE n = m
      <4>1. IsFiniteSet(Owing(n) \cup {d}) /\ Cardinality(Owing(n) \cup {d}) <= Cardinality(Owing(n)) + 1
        <5>1. IsFiniteSet(Owing(n)) /\ Cardinality(Owing(n)) \in Nat
          BY <1>0
        <5>2. IsFiniteSet(Owing(n) \cup {d})
              /\ Cardinality(Owing(n) \cup {d}) = IF d \in Owing(n) THEN Cardinality(Owing(n)) ELSE Cardinality(Owing(n)) + 1
          BY <5>1, FS_AddElement
        <5> QED
          BY <5>1, <5>2
      <4>2. Owing(n)' \in SUBSET (Owing(n) \cup {d})
        BY <2>2, OneDrawerMoves
      <4>3. IsFiniteSet(Owing(n)') /\ Cardinality(Owing(n)') <= Cardinality(Owing(n) \cup {d})
        BY <4>1, <4>2, FS_Subset
      <4>4. Cardinality(Owing(n)') \in Nat /\ Cardinality(Owing(n) \cup {d}) \in Nat
        BY <4>1, <4>3, FS_CardinalityType
      <4> QED
        BY <1>0, <3>1, <4>1, <4>3, <4>4
    <3>2. CASE n # m
      <4>1. Owing(n)' \in SUBSET Owing(n)
        <5>1. Owing(n)' = Owing(n) \ {d}
          BY <2>2, <2>3, <3>2, OneDrawerMoves
        <5> QED
          BY <5>1
      <4> QED
        BY <1>0, <3>2, <4>1, FS_Subset, FS_CardinalityType
    <3> QED
      BY <3>1, <3>2
  <2>6. ASSUME NEW n \in Note PROVE added[n] + Cardinality(Owing(n)') <= Times(n, queue) + cleared[n] + shown'[n]
    BY <1>0, <2>4, <2>5
  <2>7. IsFiniteSet({e \in Drawer : drawer'[e].pc # "gone"})
    BY <2>2, OneDrawerMoves
  <2> QED
    BY <1>6, <2>6, <2>7 DEF Route, NotesPaid
<1>7. ASSUME NEW d \in Drawer, RouteFails(d) PROVE NotesPaid'
  BY <1>3, <1>7 DEF RouteFails
<1>8. ASSUME NEW d \in Drawer, LockQueue(d) PROVE NotesPaid'
  BY <1>4, <1>8 DEF LockQueue, noteHistory
<1>9. ASSUME NEW d \in Drawer, TakeLines(d) PROVE NotesPaid'
  BY <1>4, <1>9 DEF TakeLines, noteHistory
<1>10. ASSUME NEW d \in Drawer, Replace(d) PROVE NotesPaid'
  <2> DEFINE m == drawer[d].key
  <2>1. m \in Note \cup {AllNotes} /\ drawer[d].pc = "writing" /\ queue' = Kept(m) /\ queue \in Seq(Note)
    BY <1>10 DEF Replace, NotesInv, NotesShape, NotesLockOK, NotesTypeOK
  <2>2. drawer' = [drawer EXCEPT ![d] = Gone] /\ Gone.pc = "gone"
    BY <1>10 DEF Replace, Leave, Gone
  <2>3. ASSUME NEW n \in Note
        PROVE  Cardinality(Owing(n)') = (IF n = m THEN Cardinality(Owing(n)) - 1 ELSE Cardinality(Owing(n)))
    <3>1. Owing(n)' = Owing(n) \ {d}
      BY <2>2, OneDrawerMoves
    <3>2. d \in Owing(n) <=> n = m
      BY <2>1 DEF Owing
    <3> QED
      BY <1>0, <3>1, <3>2, FS_RemoveElement
  <2>4. UNCHANGED <<added, shown>>
        /\ cleared' = IF m = AllNotes THEN [n \in Note |-> cleared[n] + Times(n, queue)] ELSE cleared
    BY <1>10 DEF Replace
  <2> HIDE DEF m
  <2>5. ASSUME NEW n \in Note PROVE added'[n] + Cardinality(Owing(n)') <= Times(n, queue') + cleared'[n] + shown'[n]
    <3>1. CASE m = AllNotes
      <4>1. queue' = <<>> /\ Times(n, queue') = 0 /\ n # m
        BY <2>1, <3>1, TimesEmpty DEF Kept
      <4>2. cleared'[n] = cleared[n] + Times(n, queue)
        BY <2>4, <3>1
      <4> QED
        BY <1>0, <2>3, <2>4, <4>1, <4>2
    <3>2. CASE m # AllNotes
      <4>1. queue' = RemoveFirst(queue, m)
        BY <2>1, <3>2 DEF Kept
      <4>2. Times(n, queue) <= Times(n, queue') + (IF m = n THEN 1 ELSE 0) /\ Times(n, queue') \in Nat
        BY <2>1, <4>1, TimesRemove, TimesIsCount
      <4>3. UNCHANGED cleared
        BY <2>4, <3>2
      <4>4. (IF n = m THEN Cardinality(Owing(n)) - 1 ELSE Cardinality(Owing(n))) \in Int
        BY <1>0
      <4> QED
        BY <1>0, <2>3, <2>4, <4>2, <4>3, <4>4
    <3> QED
      BY <3>1, <3>2
  <2>6. IsFiniteSet({e \in Drawer : drawer'[e].pc # "gone"})
    BY <2>2, OneDrawerMoves
  <2> QED
    BY <2>5, <2>6 DEF NotesPaid
<1>11. ASSUME NEW d \in Drawer, DrawerDies(d) PROVE NotesPaid'
  BY <1>3, <1>11 DEF DrawerDies
<1>12. ASSUME UNCHANGED notesVars PROVE NotesPaid'
  BY <1>12 DEF notesVars, NotesPaid, Owing
<1> QED
  BY <1>1, <1>2, <1>5, <1>6, <1>7, <1>8, <1>9, <1>10, <1>11, <1>12 DEF NotesNext

(* No note leaves the queue unseen: each appended note is still in it, was *)
(* put away by a clear, or had its pane shown, however the drawers race.   *)
THEOREM NotesSeenFirst == NotesSpec => []NotesAreSeenFirst
<1>1. NotesInit => NotesPaid
  <2> SUFFICES ASSUME NotesInit PROVE NotesPaid
    OBVIOUS
  <2>1. \A d \in Drawer : drawer[d].pc = "gone"
    BY DEF NotesInit, Gone
  <2>2. {d \in Drawer : drawer[d].pc # "gone"} = {} /\ \A n \in Note : Owing(n) = {}
    BY <2>1 DEF Owing
  <2>3. \A n \in Note : Times(n, queue) = 0 /\ added[n] = 0 /\ shown[n] = 0 /\ cleared[n] = 0
    BY TimesEmpty DEF NotesInit
  <2> QED
    <3>1. IsFiniteSet({}) /\ Cardinality({}) = 0
      BY FS_EmptySet
    <3>2. \A n \in Note : Cardinality(Owing(n)) = 0
      BY <2>2, <3>1
    <3>3. IsFiniteSet({d \in Drawer : drawer[d].pc # "gone"})
      BY <2>2, <3>1
    <3> QED
      BY <2>3, <3>2, <3>3 DEF NotesPaid
<1>2. NotesTypeOK /\ NotesPaid => NotesAreSeenFirst
  <2> SUFFICES ASSUME NotesTypeOK, NotesPaid, NEW n \in Note
               PROVE  added[n] <= Times(n, queue) + cleared[n] + shown[n]
    BY DEF NotesAreSeenFirst
  <2>1. added[n] \in Nat /\ cleared[n] \in Nat /\ shown[n] \in Nat /\ Times(n, queue) \in Nat
        /\ Cardinality(Owing(n)) \in Nat
    BY TimesIsCount, OwingIsFinite DEF NotesTypeOK
  <2>2. added[n] + Cardinality(Owing(n)) <= Times(n, queue) + cleared[n] + shown[n]
    BY DEF NotesPaid
  <2> QED
    BY <2>1, <2>2
<1> QED
  BY <1>1, <1>2, NotesPaidInductive, NotesTypes, NotesInvInductive, PTL DEF NotesSpec

-----------------------------------------------------------------------------
(* Bookmarks.                                                              *)
MarksInv ==
    /\ DOMAIN hand = Hand
    /\ \A h \in Hand :
        /\ DOMAIN hand[h] = {"pc", "path", "list"}
        /\ hand[h].pc \in {"reading", "backup", "saving"} <=> latch = h
        /\ hand[h].pc \in {"backup", "saving"} =>
              ribbons # Broken /\ hand[h].list = Toggled(Ribbons, hand[h].path)
        /\ hand[h].pc = "saving" => ribbons \in {NoFile, backup}

(* The writer in its critical section is alone, works from the list that   *)
(* is still stored, and has put that list in .bak before it saves.         *)
LEMMA MarksInvInductive == MarksSpec => []MarksInv
<1>1. MarksInit => MarksInv
  BY RibbonAssumption DEF MarksInit, MarksInv, Resting
<1>2. MarksInv /\ [MarksNext]_markVars => MarksInv'
  <2> SUFFICES ASSUME MarksInv, [MarksNext]_markVars PROVE MarksInv'
    OBVIOUS
  <2> USE RibbonAssumption DEF MarksInv, Ribbons
  <2>1. ASSUME NEW path \in Path, Vanish(path) PROVE MarksInv'
    BY <2>1 DEF Vanish
  <2>2. ASSUME NEW h \in Hand, NEW path \in Path, StartToggle(h, path) PROVE MarksInv'
    BY <2>2 DEF StartToggle, Resting
  <2>3. ASSUME NEW h \in Hand, LockRibbons(h) PROVE MarksInv'
    BY <2>3 DEF LockRibbons, Moves
  <2>4. ASSUME NEW h \in Hand, ReadRibbons(h) PROVE MarksInv'
    BY <2>4 DEF ReadRibbons, Rests, Refused, Resting
  <2>5. ASSUME NEW h \in Hand, KeepBackup(h) PROVE MarksInv'
    BY <2>5 DEF KeepBackup, Moves
  <2>6. ASSUME NEW h \in Hand, SaveRibbons(h) PROVE MarksInv'
    BY <2>6 DEF SaveRibbons, Rests, Resting
  <2>7. ASSUME NEW h \in Hand, HandFails(h) PROVE MarksInv'
    BY <2>7 DEF HandFails, Rests, Resting
  <2>8. ASSUME UNCHANGED markVars PROVE MarksInv'
    BY <2>8 DEF markVars
  <2> QED
    BY <2>1, <2>2, <2>3, <2>4, <2>5, <2>6, <2>7, <2>8 DEF MarksNext
<1> QED
  BY <1>1, <1>2, PTL DEF MarksSpec

(* A step that changes the stored list is a SaveRibbons of its latch's     *)
(* holder.                                                                 *)
LEMMA OnlySavesChange ==
  ASSUME MarksInv, [MarksNext]_markVars, ribbons' # ribbons
  PROVE  \E h \in Hand : SaveRibbons(h)
BY DEF MarksNext, markVars, Vanish, StartToggle, LockRibbons, ReadRibbons, KeepBackup, HandFails

(* No run loses another's ribbon, and unreadable storage is left alone.    *)
THEOREM RibbonsMoveOneAtATime == MarksSpec => OneRibbonAtATime
<1>1. MarksInv /\ [MarksNext]_markVars
        => [ribbons # Broken /\ \E h \in Hand : ribbons' = Toggled(Ribbons, hand[h].path)]_ribbons
  BY OnlySavesChange DEF SaveRibbons, MarksInv
<1> QED
  BY <1>1, MarksInvInductive, PTL DEF MarksSpec, OneRibbonAtATime

(* The list a save replaces is in .bak when it is replaced.                *)
THEOREM BackupsComeFirst == MarksSpec => BackupIsThePast
<1>1. MarksInv /\ [MarksNext]_markVars => [ribbons # NoFile => backup = ribbons]_ribbons
  BY OnlySavesChange DEF SaveRibbons, MarksInv
<1> QED
  BY <1>1, MarksInvInductive, PTL DEF MarksSpec, BackupIsThePast

(* A toggled list of distinct ribbons is again one, and has room.          *)
LEMMA ToggledFits ==
  ASSUME NEW s \in Seq(Path), NEW path \in Path, IsInjective(s), Len(s) <= MaxRibbons,
         Contains(s, path) \/ ~(Len(s) >= MaxRibbons)
  PROVE  /\ Toggled(s, path) \in Seq(Path) /\ IsInjective(Toggled(s, path))
         /\ Len(Toggled(s, path)) <= MaxRibbons
<1>1. Len(s) \in Nat /\ MaxRibbons \in Nat /\ DOMAIN s = 1..Len(s)
  BY RibbonAssumption, LenProperties
<1>2. CASE Contains(s, path)
  <2>1. PICK j \in 1..Len(s) : s[j] = path /\ RemoveFirst(s, path) = RemoveAt(s, j)
    BY <1>2, FirstPlace
  <2> DEFINE t == RemoveAt(s, j)
  <2>2. t \in Seq(Path) /\ Len(t) = Len(s) - 1
        /\ \A i \in 1..(Len(s) - 1) : t[i] = IF i < j THEN s[i] ELSE s[i + 1]
    BY Without
  <2>3. Toggled(s, path) = t
    BY <1>2, <2>1 DEF Toggled
  <2> HIDE DEF t
  <2>4. DOMAIN t = 1..(Len(s) - 1)
    BY <2>2, LenProperties
  <2>5. ASSUME NEW a \in DOMAIN t, NEW b \in DOMAIN t, t[a] = t[b] PROVE a = b
    <3> DEFINE u == IF a < j THEN a ELSE a + 1
               v == IF b < j THEN b ELSE b + 1
    <3>1. a \in Nat /\ b \in Nat /\ j \in Nat /\ u \in 1..Len(s) /\ v \in 1..Len(s)
      BY <1>1, <2>4
    <3>2. s[u] = s[v]
      BY <2>2, <2>4, <2>5
    <3>3. u = v
      BY <1>1, <3>1, <3>2 DEF IsInjective
    <3> QED
      BY <3>1, <3>3
  <2>6. IsInjective(t)
    BY <2>5 DEF IsInjective
  <2> QED
    BY <1>1, <2>2, <2>3, <2>6
<1>3. CASE ~Contains(s, path)
  <2> DEFINE t == Append(s, path)
  <2>1. t \in Seq(Path) /\ Len(t) = Len(s) + 1 /\ t[Len(s) + 1] = path /\ \A i \in 1..Len(s) : t[i] = s[i]
    BY AppendProperties
  <2>2. Toggled(s, path) = t
    BY <1>3 DEF Toggled
  <2> HIDE DEF t
  <2>3. DOMAIN t = 1..(Len(s) + 1)
    BY <2>1, LenProperties
  <2>4. ASSUME NEW a \in DOMAIN t, NEW b \in DOMAIN t, t[a] = t[b] PROVE a = b
    <3>1. CASE a \in 1..Len(s) /\ b \in 1..Len(s)
      BY <1>1, <2>1, <2>4, <3>1 DEF IsInjective
    <3>2. CASE a = Len(s) + 1 \/ b = Len(s) + 1
      BY <1>1, <1>3, <2>1, <2>3, <2>4, <3>2 DEF Contains
    <3> QED
      BY <1>1, <2>3, <3>1, <3>2
  <2>5. IsInjective(t)
    BY <2>4 DEF IsInjective
  <2> QED
    BY <1>1, <1>3, <2>1, <2>2, <2>5
<1> QED
  BY <1>2, <1>3

(* The writer has a path, and the list it is about to save fits.           *)
MarksFit ==
    /\ MarksTypeOK
    /\ \A h \in Hand :
        /\ hand[h].pc # "rest" => hand[h].path \in Path
        /\ hand[h].pc \in {"backup", "saving"} =>
              IsInjective(hand[h].list) /\ Len(hand[h].list) <= MaxRibbons

Marker == [pc : {"rest", "locking", "reading", "backup", "saving"}, path : Path \cup {NoFile}, list : Lists]
Fits(w) ==
    /\ w \in Marker
    /\ w.pc # "rest" => w.path \in Path
    /\ w.pc \in {"backup", "saving"} => IsInjective(w.list) /\ Len(w.list) <= MaxRibbons

LEMMA RibbonsAreAList == MarksFit => Ribbons \in Seq(Path) /\ IsInjective(Ribbons) /\ Len(Ribbons) <= MaxRibbons
<1>1. <<>> \in Seq(Path) /\ IsInjective(<<>>) /\ Len(<<>>) = 0 /\ 0 <= MaxRibbons
  BY RibbonAssumption DEF IsInjective
<1> QED
  BY <1>1 DEF MarksFit, MarksTypeOK, Ribbons, Lists

LEMMA HandsFit == MarksFit => hand \in [Hand -> Marker] /\ \A h \in Hand : Fits(hand[h])
BY DEF MarksFit, MarksTypeOK, Marker, Fits

(* A step that gives one run a fitting record, and leaves what is stored.  *)
LEMMA OneHandMoves ==
  ASSUME MarksFit, NEW h \in Hand, NEW w, Fits(w), hand' = [hand EXCEPT ![h] = w],
         latch' \in Hand \cup {NoHand}, UNCHANGED ribbons, backup' \in Lists \cup {NoFile},
         roots' \subseteq Path, toggles' \in 0..MaxToggles
  PROVE  MarksFit'
<1>1. hand' \in [Hand -> Marker] /\ \A k \in Hand : Fits(hand'[k])
  BY HandsFit DEF Fits
<1> QED
  BY <1>1 DEF MarksFit, MarksTypeOK, Marker, Fits, Lists

LEMMA MarksFitInductive == MarksInv /\ MarksFit /\ [MarksNext]_markVars => MarksFit'
<1> SUFFICES ASSUME MarksInv, MarksFit, [MarksNext]_markVars PROVE MarksFit'
  OBVIOUS
<1> USE RibbonAssumption
<1>0. /\ Fits(Resting) /\ \A h \in Hand : hand[h] \in Marker /\ Fits(hand[h])
      /\ roots \subseteq Path /\ toggles \in 0..MaxToggles /\ backup \in Lists \cup {NoFile}
      /\ latch \in Hand \cup {NoHand} /\ hand \in [Hand -> Marker]
  <2>1. <<>> \in Seq(Path)
    OBVIOUS
  <2>2. Fits(Resting)
    BY <2>1 DEF Fits, Resting, Marker, Lists
  <2> QED
    BY <2>2, HandsFit DEF MarksFit, MarksTypeOK
<1>1. ASSUME NEW path \in Path, Vanish(path) PROVE MarksFit'
  BY <1>1 DEF Vanish, MarksFit, MarksTypeOK
<1>2. ASSUME NEW h \in Hand, NEW path \in Path, StartToggle(h, path) PROVE MarksFit'
  <2> DEFINE w == [Resting EXCEPT !.pc = "locking", !.path = path]
  <2>1. Fits(w)
    BY <1>0 DEF Fits, Resting, Marker
  <2>2. hand' = [hand EXCEPT ![h] = w] /\ toggles' \in 0..MaxToggles
    BY <1>0, <1>2 DEF StartToggle
  <2> HIDE DEF w
  <2> QED
    BY <1>0, <1>2, <2>1, <2>2, OneHandMoves DEF StartToggle
<1>3. ASSUME NEW h \in Hand, Rests(h), UNCHANGED <<roots, ribbons, backup, toggles>> PROVE MarksFit'
  BY <1>0, <1>3, OneHandMoves DEF Rests
<1>4. ASSUME NEW h \in Hand, NEW pc \in {"reading", "saving"}, Moves(h, pc), hand[h].pc # "rest",
             pc = "saving" => hand[h].pc = "backup"
      PROVE  \E w : Fits(w) /\ hand' = [hand EXCEPT ![h] = w]
  <2> DEFINE w == [hand[h] EXCEPT !.pc = pc]
  <2>1. hand' = [hand EXCEPT ![h] = w]
    BY <1>0, <1>4 DEF Moves
  <2>2. Fits(w)
    BY <1>0, <1>4 DEF Fits, Marker
  <2> QED
    BY <2>1, <2>2
<1>5. ASSUME NEW h \in Hand, LockRibbons(h) PROVE MarksFit'
  <2>1. PICK w : Fits(w) /\ hand' = [hand EXCEPT ![h] = w]
    BY <1>4, <1>5 DEF LockRibbons
  <2> QED
    BY <1>0, <1>5, <2>1, OneHandMoves DEF LockRibbons
<1>6. ASSUME NEW h \in Hand, ReadRibbons(h) PROVE MarksFit'
  <2>1. CASE Refused(hand[h].path)
    BY <1>3, <1>6, <2>1 DEF ReadRibbons
  <2>2. CASE ~Refused(hand[h].path)
    <3> DEFINE list == Toggled(Ribbons, hand[h].path)
               w == [hand[h] EXCEPT !.pc = "backup", !.list = list]
    <3>1. hand[h].path \in Path
      BY <1>0, <1>6 DEF ReadRibbons, Fits
    <3>2. list \in Seq(Path) /\ IsInjective(list) /\ Len(list) <= MaxRibbons
      BY <2>2, <3>1, RibbonsAreAList, ToggledFits DEF Refused
    <3>3. hand' = [hand EXCEPT ![h].pc = "backup", ![h].list = list] /\ UNCHANGED latch
      BY <1>6, <2>2 DEF ReadRibbons
    <3> HIDE DEF list
    <3>4. hand' = [hand EXCEPT ![h] = w]
      BY <1>0, <3>3
    <3>5. Fits(w)
      BY <1>0, <3>1, <3>2 DEF Fits, Marker, Lists
    <3> HIDE DEF w
    <3> QED
      BY <1>0, <1>6, <3>3, <3>4, <3>5, OneHandMoves DEF ReadRibbons
  <2> QED
    BY <2>1, <2>2
<1>7. ASSUME NEW h \in Hand, KeepBackup(h) PROVE MarksFit'
  <2>1. PICK w : Fits(w) /\ hand' = [hand EXCEPT ![h] = w]
    BY <1>4, <1>7 DEF KeepBackup
  <2>2. backup' \in Lists \cup {NoFile}
    BY <1>0, <1>7 DEF KeepBackup, MarksInv, MarksFit, MarksTypeOK
  <2> QED
    BY <1>0, <1>7, <2>1, <2>2, OneHandMoves DEF KeepBackup
<1>8. ASSUME NEW h \in Hand, SaveRibbons(h) PROVE MarksFit'
  <2>1. ribbons' = hand[h].list /\ hand[h].list \in Lists
        /\ IsInjective(hand[h].list) /\ Len(hand[h].list) <= MaxRibbons
    BY <1>0, <1>8 DEF SaveRibbons, Fits, Marker
  <2>2. hand' = [hand EXCEPT ![h] = Resting] /\ latch' \in Hand \cup {NoHand}
    BY <1>0, <1>8 DEF SaveRibbons, Rests
  <2>3. hand' \in [Hand -> Marker] /\ \A k \in Hand : Fits(hand'[k])
    BY <1>0, <2>2 DEF Fits
  <2> QED
    BY <1>0, <1>8, <2>1, <2>2, <2>3 DEF SaveRibbons, MarksFit, MarksTypeOK, Marker, Fits, Lists
<1>9. ASSUME NEW h \in Hand, HandFails(h) PROVE MarksFit'
  BY <1>3, <1>9 DEF HandFails
<1>10. ASSUME UNCHANGED markVars PROVE MarksFit'
  BY <1>10 DEF markVars, MarksFit, MarksTypeOK
<1> QED
  BY <1>1, <1>2, <1>5, <1>6, <1>7, <1>8, <1>9, <1>10 DEF MarksNext

(* The stored ribbons stay distinct and never exceed the sixteen, however  *)
(* many runs toggle at once and wherever they are killed.                  *)
THEOREM MarksTypes == MarksSpec => []MarksTypeOK
<1>1. MarksInit => MarksFit
  <2> SUFFICES ASSUME MarksInit PROVE MarksFit
    OBVIOUS
  <2>1. Resting \in Marker /\ Resting.pc = "rest" /\ 0 \in 0..MaxToggles
    BY RibbonAssumption DEF Resting, Marker, Lists
  <2> QED
    BY <2>1 DEF MarksInit, MarksFit, MarksTypeOK, Marker
<1>2. MarksFit => MarksTypeOK
  BY DEF MarksFit
<1> QED
  BY <1>1, <1>2, MarksFitInductive, MarksInvInductive, PTL DEF MarksSpec

-----------------------------------------------------------------------------
(* The picker.                                                             *)
PickInv == PickTypeOK /\ AnswerWakes /\ NobodyIsForgotten
ScreenTypeOK ==
    /\ reply \in [Pick -> {"none", "empty", "cancel", "chosen"}]
    /\ onscreen \in Pick \cup {NoPick} /\ up \in BOOLEAN /\ crashes \in 0..MaxCrashes
    /\ lost \subseteq Pick
    /\ onscreen # NoPick => up

(* All three hold initially and are kept by every step.                    *)
LEMMA PickInvInductive == PickSpec => []PickInv
<1>1. PickInit => PickInv
  <2> SUFFICES ASSUME PickInit PROVE PickInv
    OBVIOUS
  <2>1. pick \in [Pick -> Process]
    BY DEF PickInit, Process
  <2>2. ScreenTypeOK
    <3>1. 0 \in 0..MaxCrashes
      BY PickAssumption
    <3> QED
      BY <3>1 DEF PickInit, ScreenTypeOK
  <2> QED
    BY <2>1, <2>2 DEF PickInit, PickInv, PickTypeOK, ScreenTypeOK, AnswerWakes, NobodyIsForgotten, Asleep
<1>2. PickInv /\ [PickNext]_pickVars => PickInv'
  <2> SUFFICES ASSUME PickInv, [PickNext]_pickVars PROVE PickInv'
    OBVIOUS
  <2> USE PickAssumption DEF PickInv, PickTypeOK, ScreenTypeOK, screenVars, PickAt, PickTo
  <2>1. ASSUME NEW p \in Pick, MakeDirectory(p) PROVE PickInv'
    <3>1. pick' \in [Pick -> Process]
      BY <2>1 DEF MakeDirectory, Process, Asleep, PickOver
    <3>2. ScreenTypeOK'
      BY <2>1 DEF MakeDirectory
    <3>3. AnswerWakes'
      BY <2>1 DEF MakeDirectory, Process, Asleep, AnswerWakes, PickOver
    <3>4. NobodyIsForgotten'
      BY <2>1 DEF MakeDirectory, Process, Asleep, NobodyIsForgotten, PickOver
    <3> QED
      BY <3>1, <3>2, <3>3, <3>4
  <2>2. ASSUME NEW p \in Pick, WriteRequest(p) PROVE PickInv'
    <3>1. pick' \in [Pick -> Process]
      BY <2>2 DEF WriteRequest, Process, Asleep, PickOver
    <3>2. ScreenTypeOK'
      BY <2>2 DEF WriteRequest
    <3>3. AnswerWakes'
      BY <2>2 DEF WriteRequest, Process, Asleep, AnswerWakes, PickOver
    <3>4. NobodyIsForgotten'
      BY <2>2 DEF WriteRequest, Process, Asleep, NobodyIsForgotten, PickOver
    <3> QED
      BY <3>1, <3>2, <3>3, <3>4
  <2>3. ASSUME NEW p \in Pick, AddWatch(p) PROVE PickInv'
    <3>1. pick' \in [Pick -> Process]
      BY <2>3 DEF AddWatch, Process, Asleep, PickOver
    <3>2. ScreenTypeOK'
      BY <2>3 DEF AddWatch
    <3>3. AnswerWakes'
      BY <2>3 DEF AddWatch, Process, Asleep, AnswerWakes, PickOver
    <3>4. NobodyIsForgotten'
      BY <2>3 DEF AddWatch, Process, Asleep, NobodyIsForgotten, PickOver
    <3> QED
      BY <3>1, <3>2, <3>3, <3>4
  <2>4. ASSUME NEW p \in Pick, PickFails(p) PROVE PickInv'
    <3>1. pick' \in [Pick -> Process]
      <4>1. pick[p] \in Process
        OBVIOUS
      <4>2. [pick[p] EXCEPT !.pc = "done", !.exit = "failed"] \in Process
        BY <2>4, <4>1 DEF PickFails, Exit, Process, Asleep, PickOver
      <4>3. pick' = [pick EXCEPT ![p] = [pick[p] EXCEPT !.pc = "done", !.exit = "failed"]]
        BY <2>4 DEF PickFails, Exit
      <4> QED
        BY <4>2, <4>3
    <3>2. ScreenTypeOK'
      BY <2>4 DEF PickFails, Exit
    <3>3. AnswerWakes'
      BY <2>4 DEF PickFails, Exit, Process, Asleep, AnswerWakes, PickOver
    <3>4. NobodyIsForgotten'
      BY <2>4 DEF PickFails, Exit, Process, Asleep, NobodyIsForgotten, PickOver
    <3> QED
      BY <3>1, <3>2, <3>3, <3>4
  <2>5. ASSUME NEW p \in Pick, StartDrawer(p) PROVE PickInv'
    <3>1. pick' \in [Pick -> Process]
      BY <2>5 DEF StartDrawer, Process, Asleep, PickOver
    <3>2. ScreenTypeOK'
      BY <2>5 DEF StartDrawer
    <3>3. AnswerWakes'
      BY <2>5 DEF StartDrawer, Process, Asleep, AnswerWakes, PickOver
    <3>4. NobodyIsForgotten'
      BY <2>5 DEF StartDrawer, Process, Asleep, NobodyIsForgotten, PickOver
    <3> QED
      BY <3>1, <3>2, <3>3, <3>4
  <2>6. ASSUME NEW p \in Pick, CallDrawer(p) PROVE PickInv'
    <3>1. pick' \in [Pick -> Process]
      BY <2>6 DEF CallDrawer, Exit, Woken, Reply, Answered, Process, Asleep, PickOver
    <3>2. ScreenTypeOK'
      BY <2>6 DEF CallDrawer, Exit, Woken, Reply, Answered
    <3>3. AnswerWakes'
      BY <2>6 DEF CallDrawer, Exit, Woken, Reply, Answered, Process, Asleep, AnswerWakes, PickOver
    <3>4. NobodyIsForgotten'
      BY <2>6 DEF CallDrawer, Exit, Woken, Reply, Answered, Process, Asleep, NobodyIsForgotten, PickOver
    <3> QED
      BY <3>1, <3>2, <3>3, <3>4
  <2>7. ASSUME NEW p \in Pick, CheckStop(p) PROVE PickInv'
    <3>1. pick' \in [Pick -> Process]
      BY <2>7 DEF CheckStop, Process, Asleep, PickOver
    <3>2. ScreenTypeOK'
      BY <2>7 DEF CheckStop
    <3>3. AnswerWakes'
      BY <2>7 DEF CheckStop, Process, Asleep, AnswerWakes, PickOver
    <3>4. NobodyIsForgotten'
      BY <2>7 DEF CheckStop, Process, Asleep, NobodyIsForgotten, PickOver
    <3> QED
      BY <3>1, <3>2, <3>3, <3>4
  <2>8. ASSUME NEW p \in Pick, ReadReply(p) PROVE PickInv'
    <3>1. pick' \in [Pick -> Process]
      BY <2>8 DEF ReadReply, Exit, Process, Asleep, PickOver
    <3>2. ScreenTypeOK'
      BY <2>8 DEF ReadReply, Exit
    <3>3. AnswerWakes'
      BY <2>8 DEF ReadReply, Exit, Process, Asleep, AnswerWakes, PickOver
    <3>4. NobodyIsForgotten'
      BY <2>8 DEF ReadReply, Exit, Process, Asleep, NobodyIsForgotten, PickOver
    <3> QED
      BY <3>1, <3>2, <3>3, <3>4
  <2>9. ASSUME NEW p \in Pick, Poll(p) PROVE PickInv'
    <3>1. pick' \in [Pick -> Process]
      BY <2>9 DEF Poll, Process, Asleep, PickOver
    <3>2. ScreenTypeOK'
      BY <2>9 DEF Poll
    <3>3. AnswerWakes'
      BY <2>9 DEF Poll, Process, Asleep, AnswerWakes, PickOver
    <3>4. NobodyIsForgotten'
      BY <2>9 DEF Poll, Process, Asleep, NobodyIsForgotten, PickOver
    <3> QED
      BY <3>1, <3>2, <3>3, <3>4
  <2>10. ASSUME NEW p \in Pick, Drain(p) PROVE PickInv'
    <3>1. pick' \in [Pick -> Process]
      <4>1. pick[p] \in Process
        OBVIOUS
      <4>2. [pick[p] EXCEPT !.pc = "loop", !.event = FALSE] \in Process
        BY <2>10, <4>1 DEF Drain, Process, Asleep, PickOver
      <4>3. pick' = [pick EXCEPT ![p] = [pick[p] EXCEPT !.pc = "loop", !.event = FALSE]]
        BY <2>10 DEF Drain
      <4> QED
        BY <4>2, <4>3
    <3>2. ScreenTypeOK'
      BY <2>10 DEF Drain
    <3>3. AnswerWakes'
      BY <2>10 DEF Drain, Process, Asleep, AnswerWakes, PickOver
    <3>4. NobodyIsForgotten'
      BY <2>10 DEF Drain, Process, Asleep, NobodyIsForgotten, PickOver
    <3> QED
      BY <3>1, <3>2, <3>3, <3>4
  <2>11. ASSUME NEW p \in Pick, CancelPicker(p) PROVE PickInv'
    <3>1. pick' \in [Pick -> Process]
      <4>1. pick[p] \in Process
        OBVIOUS
      <4>2. [pick[p] EXCEPT !.pc = "done", !.exit = "cancelled"] \in Process
        BY <2>11, <4>1 DEF CancelPicker, Exit, Process, Asleep, PickOver
      <4>3. pick' = [pick EXCEPT ![p] = [pick[p] EXCEPT !.pc = "done", !.exit = "cancelled"]]
        BY <2>11 DEF CancelPicker, Exit
      <4> QED
        BY <4>2, <4>3
    <3>2. ScreenTypeOK'
      BY <2>11 DEF CancelPicker, Exit
    <3>3. AnswerWakes'
      BY <2>11 DEF CancelPicker, Exit, Process, Asleep, AnswerWakes, PickOver
    <3>4. NobodyIsForgotten'
      BY <2>11 DEF CancelPicker, Exit, Process, Asleep, NobodyIsForgotten, PickOver
    <3> QED
      BY <3>1, <3>2, <3>3, <3>4
  <2>12. ASSUME NEW p \in Pick, StopSignal(p) PROVE PickInv'
    <3>1. pick' \in [Pick -> Process]
      <4>1. pick[p] \in Process
        OBVIOUS
      <4>2. [pick[p] EXCEPT !.stop = TRUE, !.pc = CASE @ \in {"new", "made"} -> "killed" [] @ = "poll" -> "drain" [] OTHER -> @] \in Process
        BY <2>12, <4>1 DEF StopSignal, Process, Asleep, PickOver
      <4>3. pick' = [pick EXCEPT ![p] = [pick[p] EXCEPT !.stop = TRUE, !.pc = CASE @ \in {"new", "made"} -> "killed" [] @ = "poll" -> "drain" [] OTHER -> @]]
        BY <2>12 DEF StopSignal
      <4> QED
        BY <4>2, <4>3
    <3>2. ScreenTypeOK'
      BY <2>12 DEF StopSignal
    <3>3. AnswerWakes'
      BY <2>12 DEF StopSignal, Process, Asleep, AnswerWakes, PickOver
    <3>4. NobodyIsForgotten'
      BY <2>12 DEF StopSignal, Process, Asleep, NobodyIsForgotten, PickOver
    <3> QED
      BY <3>1, <3>2, <3>3, <3>4
  <2>13. ASSUME NEW p \in Pick, KillPick(p) PROVE PickInv'
    <3>1. pick' \in [Pick -> Process]
      BY <2>13 DEF KillPick, Process, Asleep, PickOver
    <3>2. ScreenTypeOK'
      BY <2>13 DEF KillPick
    <3>3. AnswerWakes'
      BY <2>13 DEF KillPick, Process, Asleep, AnswerWakes, PickOver
    <3>4. NobodyIsForgotten'
      BY <2>13 DEF KillPick, Process, Asleep, NobodyIsForgotten, PickOver
    <3> QED
      BY <3>1, <3>2, <3>3, <3>4
  <2>14. ASSUME NEW p \in Pick, Deadline(p) PROVE PickInv'
    <3>1. pick' \in [Pick -> Process]
      BY <2>14 DEF Deadline, Process, Asleep, PickOver
    <3>2. ScreenTypeOK'
      BY <2>14 DEF Deadline
    <3>3. AnswerWakes'
      BY <2>14 DEF Deadline, Process, Asleep, AnswerWakes, PickOver
    <3>4. NobodyIsForgotten'
      BY <2>14 DEF Deadline, Process, Asleep, NobodyIsForgotten, PickOver
    <3> QED
      BY <3>1, <3>2, <3>3, <3>4
  <2>15. ASSUME NEW answer \in {"chosen", "cancel"}, UserAnswers(answer) PROVE PickInv'
    <3>1. pick' \in [Pick -> Process]
      <4>1. pick' = Woken(onscreen) /\ onscreen \in Pick
        BY <2>15 DEF UserAnswers
      <4>2. pick[onscreen] \in Process
        BY <4>1
      <4>3. \A e \in BOOLEAN : [pick[onscreen] EXCEPT !.event = e] \in Process
        BY <4>2 DEF Process
      <4>4. pick' = pick \/ \E e \in BOOLEAN : pick' = [pick EXCEPT ![onscreen] = [pick[onscreen] EXCEPT !.event = e]]
        BY <4>1, <4>2 DEF Woken, Process
      <4> QED
        BY <4>1, <4>3, <4>4
    <3>2. ScreenTypeOK'
      BY <2>15 DEF UserAnswers, Woken, Reply, Answered
    <3>3. AnswerWakes'
      BY <2>15 DEF UserAnswers, Woken, Reply, Answered, Process, Asleep, AnswerWakes, PickOver
    <3>4. NobodyIsForgotten'
      BY <2>15 DEF UserAnswers, Woken, Reply, Answered, Process, Asleep, NobodyIsForgotten, PickOver
    <3> QED
      BY <3>1, <3>2, <3>3, <3>4
  <2>16. ASSUME DrawerCrashes PROVE PickInv'
    <3>1. pick' \in [Pick -> Process]
      BY <2>16 DEF DrawerCrashes, Process, Asleep, PickOver
    <3>2. ScreenTypeOK'
      <4>1. crashes + 1 \in 0..MaxCrashes
        BY <2>16 DEF DrawerCrashes
      <4>2. onscreen # NoPick => lost \cup {onscreen} \subseteq Pick
        OBVIOUS
      <4> QED
        BY <2>16, <4>1, <4>2 DEF DrawerCrashes
    <3>3. AnswerWakes'
      BY <2>16 DEF DrawerCrashes, Process, Asleep, AnswerWakes, PickOver
    <3>4. NobodyIsForgotten'
      BY <2>16 DEF DrawerCrashes, Process, Asleep, NobodyIsForgotten, PickOver
    <3> QED
      BY <3>1, <3>2, <3>3, <3>4
  <2>17. ASSUME UNCHANGED pickVars PROVE PickInv'
    BY <2>17 DEF pickVars, AnswerWakes, NobodyIsForgotten
  <2> QED
    BY <2>1, <2>2, <2>3, <2>4, <2>5, <2>6, <2>7, <2>8, <2>9, <2>10, <2>11, <2>12, <2>13, <2>14, <2>15, <2>16, <2>17
    DEF PickNext, PickStep
<1> QED
  BY <1>1, <1>2, PTL DEF PickSpec

(* The picker's variables keep their types.                                *)
THEOREM PickTypes == PickSpec => []PickTypeOK
<1>1. PickInv => PickTypeOK
  BY DEF PickInv
<1> QED
  BY <1>1, PickInvInductive, PTL

(* An answer always wakes the process that asked.                          *)
THEOREM AnswersWake == PickSpec => []AnswerWakes
<1>1. PickInv => AnswerWakes
  BY DEF PickInv
<1> QED
  BY <1>1, PickInvInductive, PTL

(* No request is left hanging by another one.                              *)
THEOREM NoPickIsForgotten == PickSpec => []NobodyIsForgotten
<1>1. PickInv => NobodyIsForgotten
  BY DEF PickInv
<1> QED
  BY <1>1, PickInvInductive, PTL

-----------------------------------------------------------------------------
(* findex: the chunks of a file.  Chunk k starts k steps into the file.    *)
Stride(cut) == IF cut.overlap < cut.size THEN cut.size - cut.overlap ELSE cut.size
First(cut, k) == 1 + k * Stride(cut)
Full(cut, k) == First(cut, k) + cut.size - 1        \* the last line of a full chunk
Named(cut, k) == IF cut.overlap < cut.size THEN First(cut, k) ELSE 1
FullChunk(cut, k) == [id |-> k, from |-> Named(cut, k), first |-> First(cut, k), last |-> Full(cut, k)]

(* After line i, k chunks are full and the buffer is not.                  *)
Filled(cut, i, k) == k \in Nat /\ (k > 0 => Full(cut, k - 1) <= i) /\ i < Full(cut, k)
Count(cut, i) == CHOOSE k \in Nat : Filled(cut, i, k)
Buffered(cut, i) ==
    [lo |-> First(cut, Count(cut, i)), from |-> Named(cut, Count(cut, i)),
     out |-> {FullChunk(cut, k) : k \in 0..(Count(cut, i) - 1)}]

LEMMA CutShape ==
  ASSUME NEW cut \in Cut
  PROVE  /\ cut.size \in Nat /\ cut.size >= 1 /\ cut.overlap \in Nat
         /\ Stride(cut) \in Nat /\ 1 <= Stride(cut) /\ Stride(cut) <= cut.size
<1>1. cut.size \in Nat \ {0} /\ cut.overlap \in Nat
  BY FindexAssumption
<1> QED
  BY <1>1 DEF Stride

(* Starts and ends of chunks grow by a step.                               *)
LEMMA ChunkPlaces ==
  ASSUME NEW cut \in Cut, NEW k \in Nat
  PROVE  /\ First(cut, k) \in Nat /\ First(cut, k) >= 1 + k /\ First(cut, 0) = 1
         /\ First(cut, k + 1) = First(cut, k) + Stride(cut)
         /\ Full(cut, k) \in Nat /\ Full(cut, k) = First(cut, k) + cut.size - 1 /\ Full(cut, 0) = cut.size
         /\ Full(cut, k + 1) = Full(cut, k) + Stride(cut)
<1> DEFINE s == Stride(cut)
<1>1. s \in Nat /\ 1 <= s /\ cut.size \in Nat /\ cut.size >= 1
  BY CutShape
<1> HIDE DEF s
<1>2. k * s \in Nat /\ k * s >= k /\ 0 * s = 0 /\ (k + 1) * s = k * s + s
  BY <1>1
<1>3. First(cut, k) = 1 + k * s /\ First(cut, 0) = 1 /\ First(cut, k + 1) = First(cut, k) + s
  BY <1>1, <1>2 DEF First, s
<1> QED
  BY <1>1, <1>2, <1>3 DEF Full, s

LEMMA ChunksGrow ==
  ASSUME NEW cut \in Cut, NEW j \in Nat, NEW k \in Nat, j <= k
  PROVE  First(cut, j) <= First(cut, k) /\ Full(cut, j) <= Full(cut, k)
<1> DEFINE s == Stride(cut)
<1>1. s \in Nat /\ cut.size \in Nat
  BY CutShape
<1> HIDE DEF s
<1>2. j * s <= k * s /\ j * s \in Nat /\ k * s \in Nat
  BY <1>1
<1> QED
  BY <1>1, <1>2 DEF First, Full, s

(* Exactly one number of chunks is full after a line.                      *)
LEMMA OneCount == ASSUME NEW cut \in Cut, NEW i \in Nat, NEW k \in Nat, NEW j \in Nat, Filled(cut, i, k), Filled(cut, i, j)
                  PROVE  k = j
<1>1. ASSUME NEW a \in Nat, NEW b \in Nat, a < b, Filled(cut, i, a), Filled(cut, i, b) PROVE FALSE
  <2>1. b - 1 \in Nat /\ a <= b - 1 /\ b > 0
    BY <1>1
  <2>2. Full(cut, a) <= Full(cut, b - 1) /\ Full(cut, a) \in Nat /\ Full(cut, b - 1) \in Nat
    BY <2>1, ChunksGrow, ChunkPlaces
  <2>3. i < Full(cut, a) /\ Full(cut, b - 1) <= i
    BY <1>1, <2>1 DEF Filled
  <2> QED
    BY <2>2, <2>3
<1> QED
  BY <1>1

LEMMA SomeCount == ASSUME NEW cut \in Cut, NEW i \in Nat PROVE Count(cut, i) \in Nat /\ Filled(cut, i, Count(cut, i))
<1> DEFINE T == {k \in Nat : i < Full(cut, k)}
<1>1. i \in T
  BY ChunkPlaces, CutShape
<1>2. PICK k \in T : \A y \in T : k <= y
  BY <1>1, Smallest
<1>3. k > 0 => Full(cut, k - 1) <= i
  <2> SUFFICES ASSUME k > 0 PROVE Full(cut, k - 1) <= i
    OBVIOUS
  <2>1. k \in Nat /\ k - 1 \in Nat /\ ~(k <= k - 1)
    OBVIOUS
  <2>2. k - 1 \notin T
    BY <1>2, <2>1
  <2>3. Full(cut, k - 1) \in Nat
    BY <2>1, ChunkPlaces
  <2> QED
    BY <2>1, <2>2, <2>3
<1>4. Filled(cut, i, k)
  BY <1>2, <1>3 DEF Filled
<1>5. \E x \in Nat : Filled(cut, i, x)
  BY <1>2, <1>4
<1> QED
  BY <1>5 DEF Count

LEMMA CountIs == ASSUME NEW cut \in Cut, NEW i \in Nat, NEW k \in Nat, Filled(cut, i, k) PROVE Count(cut, i) = k
BY SomeCount, OneCount

(* Their numbers tell the full chunks apart.                               *)
LEMMA HowManyChunks ==
  ASSUME NEW cut \in Cut, NEW n \in Nat
  PROVE  Cardinality({FullChunk(cut, k) : k \in 0..(n - 1)}) = n
<1> DEFINE S == 0..(n - 1)
           T == {FullChunk(cut, k) : k \in S}
           f == [k \in S |-> FullChunk(cut, k)]
<1>1. f \in Bijection(S, T)
  BY DEF Bijection, Injection, Surjection, FullChunk, IsInjective
<1>2. IsFiniteSet(S) /\ Cardinality(S) = n
  BY FS_Interval
<1>3. ExistsBijection(S, T)
  BY <1>1 DEF ExistsBijection
<1> HIDE DEF T, f
<1>4. Cardinality(T) = Cardinality(S)
  BY <1>2, <1>3, FS_Bijection
<1> QED
  BY <1>2, <1>4 DEF T

(* One line more, in the words of the code and in closed form.             *)
NextBuffer(cut, b, i) == IF i - b.lo + 1 >= cut.size THEN Flush(b, i, cut) ELSE b

LEMMA BufferStep ==
  ASSUME NEW cut \in Cut, NEW i \in Nat, i > 0
  PROVE  Buffered(cut, i) = NextBuffer(cut, Buffered(cut, i - 1), i)
<1> DEFINE k == Count(cut, i - 1)
           b == Buffered(cut, i - 1)
<1>0. i - 1 \in Nat
  OBVIOUS
<1>1. k \in Nat /\ Filled(cut, i - 1, k)
  BY <1>0, SomeCount
<1> HIDE DEF k
<1>2. b = [lo |-> First(cut, k), from |-> Named(cut, k), out |-> {FullChunk(cut, j) : j \in 0..(k - 1)}]
  BY DEF Buffered, k
<1> HIDE DEF b
<1>3. /\ First(cut, k) \in Nat /\ First(cut, k + 1) = First(cut, k) + Stride(cut)
      /\ Full(cut, k) \in Nat /\ Full(cut, k) = First(cut, k) + cut.size - 1
      /\ Full(cut, k + 1) = Full(cut, k) + Stride(cut)
  BY <1>1, ChunkPlaces
<1>4. /\ cut.size \in Nat /\ cut.size >= 1 /\ cut.overlap \in Nat
      /\ Stride(cut) \in Nat /\ 1 <= Stride(cut)
  BY CutShape
<1>5. i - 1 < Full(cut, k) /\ (k > 0 => Full(cut, k - 1) <= i - 1)
  BY <1>1 DEF Filled
<1>6. CASE i < Full(cut, k)
  <2>1. Filled(cut, i, k)
    <3>1. CASE k = 0
      BY <1>1, <1>6, <3>1 DEF Filled
    <3>2. CASE k > 0
      <4>1. Full(cut, k - 1) \in Nat
        BY <1>1, <3>2, ChunkPlaces
      <4> QED
        BY <1>1, <1>5, <1>6, <3>2, <4>1 DEF Filled
    <3> QED
      BY <1>1, <3>1, <3>2
  <2>2. Count(cut, i) = k
    BY <1>1, <2>1, CountIs
  <2>3. Buffered(cut, i) = b
    BY <1>2, <2>2 DEF Buffered
  <2>4. ~(i - b.lo + 1 >= cut.size)
    BY <1>2, <1>3, <1>4, <1>6
  <2> QED
    BY <2>3, <2>4 DEF NextBuffer, b
<1>7. CASE ~(i < Full(cut, k))
  <2>1. i = Full(cut, k)
    BY <1>3, <1>5, <1>7
  <2>2. Filled(cut, i, k + 1)
    <3>1. k + 1 > 0 /\ (k + 1) - 1 = k /\ k + 1 \in Nat
      BY <1>1
    <3>2. i < Full(cut, k + 1)
      BY <1>3, <1>4, <2>1
    <3>3. Full(cut, (k + 1) - 1) = Full(cut, k)
      BY <3>1
    <3>4. Full(cut, (k + 1) - 1) <= i
      BY <1>3, <2>1, <3>3
    <3> QED
      BY <3>1, <3>2, <3>4 DEF Filled
  <2>3. Count(cut, i) = k + 1
    BY <1>1, <2>2, CountIs
  <2>4. (k + 1) - 1 = k /\ 0..k = 0..(k - 1) \cup {k} /\ k + 1 \in Nat
    BY <1>1
  <2>5. {FullChunk(cut, j) : j \in 0..k} = {FullChunk(cut, j) : j \in 0..(k - 1)} \cup {FullChunk(cut, k)}
    BY <2>4
  <2>6. Buffered(cut, i) = [lo |-> First(cut, k + 1), from |-> Named(cut, k + 1),
                            out |-> {FullChunk(cut, j) : j \in 0..k}]
    <3>1. 0..((k + 1) - 1) = 0..k
      BY <2>4
    <3>2. Buffered(cut, i) = [lo |-> First(cut, k + 1), from |-> Named(cut, k + 1),
                              out |-> {FullChunk(cut, j) : j \in 0..((k + 1) - 1)}]
      BY <2>3 DEF Buffered
    <3> QED
      BY <3>1, <3>2
  <2>7. Cardinality(b.out) = k
    BY <1>1, <1>2, HowManyChunks
  <2>8. Chunk(b, i) = FullChunk(cut, k)
    BY <1>2, <2>1, <2>7 DEF Chunk, FullChunk
  <2>9. i - b.lo + 1 = cut.size
    BY <1>2, <1>3, <1>4, <2>1
  <2>10. Flush(b, i, cut) = [lo |-> First(cut, k + 1), from |-> Named(cut, k + 1),
                             out |-> b.out \cup {FullChunk(cut, k)}]
    <3>1. CASE cut.overlap < cut.size
      <4>1. i - cut.overlap + 1 = First(cut, k + 1)
        BY <1>3, <1>4, <2>1, <3>1 DEF Stride
      <4> QED
        BY <1>4, <2>8, <2>9, <3>1, <4>1 DEF Flush, Named
    <3>2. CASE ~(cut.overlap < cut.size)
      <4>1. i + 1 = First(cut, k + 1)
        BY <1>3, <1>4, <2>1, <3>2 DEF Stride
      <4>2. ~(i - b.lo + 1 > cut.overlap)
        BY <1>4, <2>9, <3>2
      <4> QED
        BY <1>2, <2>8, <3>2, <4>1, <4>2 DEF Flush, Named
    <3> QED
      BY <3>1, <3>2
  <2>11. i - b.lo + 1 >= cut.size
    BY <1>4, <2>9
  <2> QED
    <3>1. Buffered(cut, i - 1) = b
      BY DEF b
    <3>2. b.out = {FullChunk(cut, j) : j \in 0..(k - 1)}
      BY <1>2
    <3>3. NextBuffer(cut, b, i) = Flush(b, i, cut)
      BY <2>11 DEF NextBuffer
    <3>4. Buffered(cut, i) = Flush(b, i, cut)
      BY <2>5, <2>6, <2>10, <3>2
    <3> QED
      BY <3>1, <3>3, <3>4
<1> QED
  BY <1>6, <1>7

(* The recursion of chunk_file has the closed form as its one solution.    *)
Buffers(cut) == [i \in 0..MaxLines |-> Buffered(cut, i)]
IsRecursion(cut, f) ==
    f = [i \in 0..MaxLines |->
           IF i = 0 THEN [lo |-> 1, from |-> 1, out |-> {}]
           ELSE IF i - f[i - 1].lo + 1 >= cut.size THEN Flush(f[i - 1], i, cut) ELSE f[i - 1]]

LEMMA EmptyBuffer == ASSUME NEW cut \in Cut PROVE Buffered(cut, 0) = [lo |-> 1, from |-> 1, out |-> {}]
<1>1. cut.size \in Nat /\ cut.size >= 1 /\ Full(cut, 0) = cut.size /\ First(cut, 0) = 1
  BY CutShape, ChunkPlaces
<1>2. Filled(cut, 0, 0)
  BY <1>1 DEF Filled
<1>3. Count(cut, 0) = 0
  BY <1>2, CountIs
<1>4. 0..(0 - 1) = {}
  OBVIOUS
<1> QED
  BY <1>1, <1>3, <1>4 DEF Buffered, Named

LEMMA RecursionHolds == ASSUME NEW cut \in Cut PROVE IsRecursion(cut, Buffers(cut))
<1> DEFINE g == Buffers(cut)
<1>1. ASSUME NEW i \in 0..MaxLines
      PROVE  g[i] = IF i = 0 THEN [lo |-> 1, from |-> 1, out |-> {}]
                    ELSE IF i - g[i - 1].lo + 1 >= cut.size THEN Flush(g[i - 1], i, cut) ELSE g[i - 1]
  <2>1. CASE i = 0
    BY <2>1, EmptyBuffer DEF Buffers
  <2>2. CASE i # 0
    <3>1. i \in Nat /\ i > 0 /\ i - 1 \in 0..MaxLines
      BY <2>2, FindexAssumption
    <3>2. g[i - 1] = Buffered(cut, i - 1) /\ g[i] = Buffered(cut, i)
      BY <3>1 DEF Buffers
    <3> QED
      BY <2>2, <3>1, <3>2, BufferStep DEF NextBuffer
  <2> QED
    BY <2>1, <2>2
<1>2. g = [i \in 0..MaxLines |-> g[i]]
  BY DEF Buffers
<1> HIDE DEF g
<1>3. g = [i \in 0..MaxLines |-> IF i = 0 THEN [lo |-> 1, from |-> 1, out |-> {}]
                    ELSE IF i - g[i - 1].lo + 1 >= cut.size THEN Flush(g[i - 1], i, cut) ELSE g[i - 1]]
  BY <1>1, <1>2
<1> QED
  BY <1>3 DEF IsRecursion, g

LEMMA RecursionIsUnique ==
  ASSUME NEW cut \in Cut, NEW f, IsRecursion(cut, f), NEW n \in 0..MaxLines
  PROVE  f[n] = Buffered(cut, n)
<1> DEFINE T == {i \in 0..MaxLines : f[i] # Buffered(cut, i)}
<1>1. SUFFICES ASSUME T # {} PROVE FALSE
  OBVIOUS
<1>2. T \in SUBSET Nat
  BY FindexAssumption
<1>3. PICK i \in T : \A y \in T : i <= y
  BY <1>1, <1>2, Smallest
<1>4. i \in 0..MaxLines /\ i \in Nat /\ f[i] # Buffered(cut, i)
  BY FindexAssumption
<1>5. f[i] = IF i = 0 THEN [lo |-> 1, from |-> 1, out |-> {}]
             ELSE IF i - f[i - 1].lo + 1 >= cut.size THEN Flush(f[i - 1], i, cut) ELSE f[i - 1]
  BY <1>4 DEF IsRecursion
<1>6. CASE i = 0
  BY <1>4, <1>5, <1>6, EmptyBuffer
<1>7. CASE i # 0
  <2>1. i - 1 \in 0..MaxLines /\ ~(i <= i - 1) /\ i > 0
    BY <1>4, <1>7, FindexAssumption
  <2>2. f[i - 1] = Buffered(cut, i - 1)
    BY <1>3, <2>1
  <2>3. f[i] = NextBuffer(cut, Buffered(cut, i - 1), i)
    BY <1>5, <1>7, <2>2 DEF NextBuffer
  <2> QED
    BY <1>4, <2>1, <2>3, BufferStep
<1> QED
  BY <1>6, <1>7

LEMMA AfterLineIs == ASSUME NEW cut \in Cut, NEW n \in 0..MaxLines PROVE AfterLine(cut)[n] = Buffered(cut, n)
<1>1. AfterLine(cut) = CHOOSE f : IsRecursion(cut, f)
  BY DEF AfterLine, IsRecursion
<1>2. IsRecursion(cut, AfterLine(cut))
  BY <1>1, RecursionHolds
<1> QED
  BY <1>2, RecursionIsUnique

(* What chunk_file returns: the full chunks and what is left over.         *)
LEMMA ChunkFileIs ==
  ASSUME NEW cut \in Cut, NEW n \in 0..MaxLines, NEW k \in Nat, Filled(cut, n, k)
  PROVE  ChunkFile(n, cut) =
           {FullChunk(cut, j) : j \in 0..(k - 1)} \cup
           (IF First(cut, k) > n THEN {}
            ELSE {[id |-> k, from |-> Named(cut, k), first |-> First(cut, k), last |-> n]})
<1>1. n \in Nat
  BY FindexAssumption
<1>2. Count(cut, n) = k
  BY <1>1, CountIs
<1> DEFINE b == AfterLine(cut)[n]
<1>3. b = [lo |-> First(cut, k), from |-> Named(cut, k), out |-> {FullChunk(cut, j) : j \in 0..(k - 1)}]
  BY <1>2, AfterLineIs DEF Buffered
<1>4. Cardinality({FullChunk(cut, j) : j \in 0..(k - 1)}) = k
  BY HowManyChunks
<1>5. ChunkFile(n, cut) = IF b.lo > n THEN b.out ELSE b.out \cup {Chunk(b, n)}
  BY DEF ChunkFile
<1> HIDE DEF b
<1>6. Chunk(b, n) = [id |-> k, from |-> Named(cut, k), first |-> First(cut, k), last |-> n]
  BY <1>3, <1>4 DEF Chunk
<1> QED
  BY <1>3, <1>5, <1>6

LEMMA ChunkTypes ==
  ASSUME NEW cut \in Cut, NEW n \in 0..MaxLines, NEW c \in ChunkFile(n, cut)
  PROVE  c.id \in Nat /\ c.from \in Nat /\ c.first \in Nat /\ c.last \in Nat
<1>1. n \in Nat
  BY FindexAssumption
<1>2. PICK k \in Nat : Filled(cut, n, k)
  BY <1>1, SomeCount
<1>3. ASSUME NEW j \in Nat PROVE First(cut, j) \in Nat /\ Named(cut, j) \in Nat /\ Full(cut, j) \in Nat
  BY ChunkPlaces DEF Named
<1>4. CASE c \in {FullChunk(cut, j) : j \in 0..(k - 1)}
  <2>1. PICK j \in 0..(k - 1) : c = FullChunk(cut, j)
    BY <1>4
  <2>2. j \in Nat
    OBVIOUS
  <2> QED
    BY <1>3, <2>1, <2>2 DEF FullChunk
<1>5. CASE c = [id |-> k, from |-> Named(cut, k), first |-> First(cut, k), last |-> n]
  BY <1>1, <1>3, <1>5
<1> QED
  BY <1>2, <1>4, <1>5, ChunkFileIs

(* With an overlap below the size, chunk_file cuts as the reference says,  *)
(* and names every chunk after its first line.                             *)
LEMMA ChunkFileIsExact ==
  ASSUME NEW cut \in Cut, cut.overlap < cut.size, NEW n \in 0..MaxLines
  PROVE  ChunkFile(n, cut) = Chunks(n, cut)
<1>1. n \in Nat
  BY FindexAssumption
<1>2. PICK k \in Nat : Filled(cut, n, k)
  BY <1>1, SomeCount
<1> DEFINE Part(j) == [id |-> j, from |-> First(cut, j), first |-> First(cut, j),
                       last |-> IF Full(cut, j) <= n THEN Full(cut, j) ELSE n]
           D == {j \in 0..n : First(cut, j) <= n /\ (j > 0 => Full(cut, j - 1) <= n)}
           E == 0..(k - 1) \cup (IF First(cut, k) > n THEN {} ELSE {k})
<1>3. Chunks(n, cut) = {Part(j) : j \in D}
  <2>1. Stride(cut) = cut.size - cut.overlap
    BY DEF Stride
  <2> QED
    BY <2>1 DEF Chunks, First, Full
<1>4. ASSUME NEW j \in Nat
      PROVE  /\ First(cut, j) \in Nat /\ First(cut, j) >= 1 + j
             /\ Full(cut, j) \in Nat /\ First(cut, j) <= Full(cut, j)
  BY ChunkPlaces, CutShape
<1>5. ASSUME NEW j \in Nat, j < k PROVE Full(cut, j) <= n
  <2>1. k - 1 \in Nat /\ j <= k - 1 /\ k > 0
    BY <1>5
  <2>2. Full(cut, j) <= Full(cut, k - 1) /\ Full(cut, k - 1) <= n
    BY <1>2, <2>1, ChunksGrow DEF Filled
  <2>3. Full(cut, j) \in Nat /\ Full(cut, k - 1) \in Nat
    BY <1>4, <2>1
  <2> QED
    BY <1>1, <2>2, <2>3
<1>6. ~(Full(cut, k) <= n)
  BY <1>1, <1>2, <1>4 DEF Filled
<1>7. D = E
  <2>1. ASSUME NEW j \in Nat, j < k PROVE j \in D
    <3>1. First(cut, j) <= n /\ j \in 0..n
      BY <1>1, <1>4, <1>5, <2>1
    <3>2. j > 0 => Full(cut, j - 1) <= n
      <4> SUFFICES ASSUME j > 0 PROVE Full(cut, j - 1) <= n
        OBVIOUS
      <4>1. j - 1 \in Nat /\ j - 1 < k
        BY <2>1
      <4> QED
        BY <1>5, <4>1
    <3> QED
      BY <3>1, <3>2
  <2>2. First(cut, k) <= n => k \in D
    <3> SUFFICES ASSUME First(cut, k) <= n PROVE k \in D
      OBVIOUS
    <3>1. k \in 0..n
      BY <1>1, <1>4
    <3>2. k > 0 => Full(cut, k - 1) <= n
      <4> SUFFICES ASSUME k > 0 PROVE Full(cut, k - 1) <= n
        OBVIOUS
      <4>1. k - 1 \in Nat /\ k - 1 < k
        OBVIOUS
      <4> QED
        BY <1>5, <4>1
    <3> QED
      BY <3>1, <3>2
  <2>3. ASSUME NEW j \in D, ~(j < k) PROVE j = k /\ First(cut, k) <= n
    <3>1. j \in Nat
      BY <1>1
    <3>2. ASSUME j > k PROVE FALSE
      <4>1. j - 1 \in Nat /\ k <= j - 1 /\ j > 0
        BY <3>1, <3>2
      <4>2. Full(cut, k) <= Full(cut, j - 1) /\ Full(cut, j - 1) <= n
        BY <4>1, ChunksGrow
      <4>3. Full(cut, k) \in Nat /\ Full(cut, j - 1) \in Nat
        BY <1>4, <4>1
      <4> QED
        BY <1>1, <1>6, <4>2, <4>3
    <3>3. j = k
      BY <2>3, <3>1, <3>2
    <3> QED
      BY <3>3
  <2>4. ASSUME NEW j \in D PROVE j \in E
    <3>1. j \in Nat /\ First(cut, k) \in Nat
      BY <1>1, <1>4
    <3> QED
      BY <1>1, <2>3, <2>4, <3>1
  <2>5. ASSUME NEW j \in E PROVE j \in D
    <3>1. First(cut, k) \in Nat
      BY <1>4
    <3> QED
      BY <1>1, <2>1, <2>2, <2>5, <3>1
  <2> QED
    BY <2>4, <2>5
<1>8. \A j \in 0..(k - 1) : Part(j) = FullChunk(cut, j)
  BY <1>5 DEF FullChunk, Named
<1>9. Part(k) = [id |-> k, from |-> Named(cut, k), first |-> First(cut, k), last |-> n]
  BY <1>6 DEF Named
<1>10. ChunkFile(n, cut) =
           {FullChunk(cut, j) : j \in 0..(k - 1)} \cup
           (IF First(cut, k) > n THEN {}
            ELSE {[id |-> k, from |-> Named(cut, k), first |-> First(cut, k), last |-> n]})
  BY <1>2, ChunkFileIs
<1> HIDE DEF D, Part
<1>11. ChunkFile(n, cut) = {Part(j) : j \in E}
  BY <1>8, <1>9, <1>10
<1> QED
  BY <1>3, <1>7, <1>11

LEMMA ChunkIsNamed ==
  ASSUME NEW cut \in Cut, cut.overlap < cut.size, NEW n, NEW c \in Chunks(n, cut)
  PROVE  c.from = c.first
BY DEF Chunks

(* The state of findex, with every field of a run in its range.            *)
Search == [pc : {"walk", "write"}, embedder : Embedder, cut : Cut, pending : SUBSET Doc, cache : SUBSET Row,
           doc : Doc \cup {NoDoc}, mtime : Stamp, tasks : SUBSET Row, rows : SUBSET Row, calm : BOOLEAN]
File == [version : Stamp, lines : 0..MaxLines, mtime : Stamp]
FindShape ==
    /\ docs \in [Doc -> File] /\ writes \in Stamp /\ finds \in 0..MaxFinds /\ blurred \subseteq Doc
    /\ index \in [whole : BOOLEAN, rows : SUBSET Row] /\ (~index.whole => index.rows = {})
    /\ find \in [Finder -> Search \cup {NoFind}]

OneModel(rows, e) == \A r \in rows : r.embedder = e
FindModels ==
    /\ \A r, s \in index.rows : r.embedder = s.embedder
    /\ \A p \in Finder : find[p] # NoFind =>
          OneModel(find[p].cache \cup find[p].tasks \cup find[p].rows, find[p].embedder)

FindTyped == FindShape /\ FindModels

LEMMA NoFindIsNone ==
  /\ NoFind.pc = "none" /\ NoFind.rows = {} /\ NoFind.calm = FALSE
  /\ \A s \in Search : s.pc # "none" /\ s # NoFind
<1>1. \A s \in Search : s.pc \in {"walk", "write"}
  BY DEF Search
<1>2. NoFind.pc = "none" /\ NoFind.rows = {} /\ NoFind.calm = FALSE
  BY DEF NoFind
<1> QED
  BY <1>1, <1>2

LEMMA FindStart == FindexInit => FindTyped
<1> SUFFICES ASSUME FindexInit PROVE FindTyped
  OBVIOUS
<1>1. 0 \in Stamp /\ 0 \in 0..MaxFinds /\ MaxLines \in 0..MaxLines
  BY FindexAssumption DEF Stamp
<1>2. index = Unreadable /\ index.rows = {} /\ index.whole = FALSE
  BY DEF FindexInit, Unreadable
<1> QED
  BY <1>1, <1>2 DEF FindexInit, FindTyped, FindShape, FindModels, File, Unreadable

(* A run's step that leaves the files and the index alone.                 *)
LEMMA SearchMoves ==
  ASSUME FindTyped, NEW p \in Finder, NEW s \in Search, find' = [find EXCEPT ![p] = s],
         OneModel(s.cache \cup s.tasks \cup s.rows, s.embedder),
         UNCHANGED <<docs, writes, blurred>>, finds' \in 0..MaxFinds,
         index' = index \/ index' = Unreadable
  PROVE  FindTyped'
<1>1. find' \in [Finder -> Search \cup {NoFind}] /\ \A q \in Finder : find'[q] = IF q = p THEN s ELSE find[q]
  BY DEF FindTyped, FindShape
<1>2. /\ index' \in [whole : BOOLEAN, rows : SUBSET Row] /\ (~index'.whole => index'.rows = {})
      /\ \A r, t \in index'.rows : r.embedder = t.embedder
  <2>1. Unreadable \in [whole : BOOLEAN, rows : SUBSET Row] /\ Unreadable.rows = {}
    BY DEF Unreadable
  <2>2. CASE index' = index
    BY <2>2 DEF FindTyped, FindShape, FindModels
  <2>3. CASE index' = Unreadable
    BY <2>1, <2>3
  <2> QED
    BY <2>2, <2>3
<1> QED
  BY <1>1, <1>2 DEF FindTyped, FindShape, FindModels

(* What a run reads of a file are rows of its embedder.                    *)
ReadRows(p) ==
    LET d == find[p].doc IN
    {[doc |-> d, id |-> c.id, from |-> c.from, last |-> c.last, mtime |-> find[p].mtime,
      embedder |-> find[p].embedder, text |-> <<docs[d].version, c.first, c.last>>] :
         c \in ChunkFile(docs[d].lines, find[p].cut)}

LEMMA ReadRowsAreRows ==
  ASSUME FindTyped, NEW p \in Finder, find[p] \in Search, find[p].doc # NoDoc
  PROVE  /\ ReadRows(p) \subseteq Row
         /\ \A r \in ReadRows(p) : r.doc = find[p].doc /\ r.mtime = find[p].mtime /\ r.embedder = find[p].embedder
<1> DEFINE d == find[p].doc
<1>1. d \in Doc /\ find[p].cut \in Cut /\ find[p].mtime \in Stamp /\ find[p].embedder \in Embedder
  BY DEF Search
<1>2. docs[d] \in File
  BY <1>1 DEF FindTyped, FindShape
<1>3. docs[d].version \in Stamp /\ docs[d].lines \in 0..MaxLines
  BY <1>2 DEF File
<1>4. ASSUME NEW r \in ReadRows(p)
      PROVE  r \in Row /\ r.doc = d /\ r.mtime = find[p].mtime /\ r.embedder = find[p].embedder
  <2>1. PICK c \in ChunkFile(docs[d].lines, find[p].cut) :
           r = [doc |-> d, id |-> c.id, from |-> c.from, last |-> c.last, mtime |-> find[p].mtime,
                embedder |-> find[p].embedder, text |-> <<docs[d].version, c.first, c.last>>]
    BY DEF ReadRows
  <2>2. c.id \in Nat /\ c.from \in Nat /\ c.first \in Nat /\ c.last \in Nat
    BY <1>1, <1>3, ChunkTypes
  <2> QED
    BY <1>1, <1>3, <2>1, <2>2 DEF Row
<1> QED
  BY <1>4

LEMMA SearchWalks ==
  ASSUME FindTyped, NEW p \in Finder, find[p].pc # "none"
  PROVE  find[p] \in Search /\ OneModel(find[p].cache \cup find[p].tasks \cup find[p].rows, find[p].embedder)
<1>1. find[p] \in Search \cup {NoFind}
  BY DEF FindTyped, FindShape
<1>2. find[p] \in Search
  BY <1>1, NoFindIsNone
<1> QED
  BY <1>2, NoFindIsNone DEF FindTyped, FindModels

LEMMA FindTypedInductive == FindTyped /\ [FindexNext]_findexVars => FindTyped'
<1> SUFFICES ASSUME FindTyped, [FindexNext]_findexVars PROVE FindTyped'
  OBVIOUS
<1> USE FindexAssumption
<1>0. finds \in 0..MaxFinds /\ writes \in Stamp
  BY DEF FindTyped, FindShape
<1>1. ASSUME NEW d \in Doc, NEW n \in 0..MaxLines, Write(d, n) PROVE FindTyped'
  <2>1. PICK same \in BOOLEAN :
           /\ docs' = [docs EXCEPT ![d] = [version |-> writes + 1, lines |-> n,
                                           mtime |-> IF same THEN docs[d].mtime ELSE writes + 1]]
           /\ blurred' = IF same THEN blurred \cup {d} ELSE blurred \ {d}
    BY <1>1 DEF Write
  <2>2. writes + 1 \in Stamp /\ writes' \in Stamp
    BY <1>0, <1>1 DEF Write, Stamp
  <2>3. docs \in [Doc -> File] /\ docs[d].mtime \in Stamp
    BY DEF FindTyped, FindShape, File
  <2>4. docs' \in [Doc -> File]
    BY <2>1, <2>2, <2>3 DEF File
  <2>5. find' = [p \in Finder |-> [find[p] EXCEPT !.calm = FALSE]] /\ UNCHANGED <<index, finds>>
    BY <1>1 DEF Write
  <2>6. ASSUME NEW p \in Finder, find[p] \in Search
        PROVE  /\ find'[p] \in Search /\ find'[p].cache = find[p].cache /\ find'[p].tasks = find[p].tasks
               /\ find'[p].rows = find[p].rows /\ find'[p].embedder = find[p].embedder
    BY <2>5, <2>6 DEF Search
  <2>7. ASSUME NEW p \in Finder, find[p] = NoFind PROVE find'[p] = NoFind
    <3>1. NoFind = [NoFind EXCEPT !.calm = FALSE]
      <4>1. NoFind.calm = FALSE /\ DOMAIN NoFind = {"pc", "cache", "pending", "doc", "mtime", "tasks", "rows", "calm"}
        BY DEF NoFind
      <4>2. NoFind = [i \in DOMAIN NoFind |-> NoFind[i]]
        BY DEF NoFind
      <4> HIDE DEF NoFind
      <4> QED
        BY <4>1, <4>2
    <3>2. find'[p] = [NoFind EXCEPT !.calm = FALSE]
      BY <2>5, <2>7
    <3> QED
      BY <3>1, <3>2
  <2>8. find' \in [Finder -> Search \cup {NoFind}]
    BY <2>5, <2>6, <2>7 DEF FindTyped, FindShape
  <2>9. \A p \in Finder : find'[p] # NoFind => find[p] \in Search /\ find[p] # NoFind
    BY <2>7, NoFindIsNone DEF FindTyped, FindShape
  <2>10. FindModels'
    BY <2>5, <2>6, <2>9 DEF FindTyped, FindModels
  <2>11. blurred' \subseteq Doc
    BY <2>1 DEF FindTyped, FindShape
  <2> QED
    BY <2>2, <2>4, <2>5, <2>8, <2>10, <2>11 DEF FindTyped, FindShape
<1>2. ASSUME NEW p \in Finder, NEW e \in Embedder, NEW cut \in Cut, StartFind(p, e, cut) PROVE FindTyped'
  <2> DEFINE s == [pc |-> "walk", embedder |-> e, cut |-> cut, pending |-> Doc,
                   cache |-> {r \in index.rows : r.embedder = e}, doc |-> NoDoc, mtime |-> 0,
                   tasks |-> {}, rows |-> {}, calm |-> TRUE]
  <2>1. 0 \in Stamp /\ index.rows \subseteq Row
    BY DEF Stamp, FindTyped, FindShape
  <2>2. s \in Search /\ OneModel(s.cache \cup s.tasks \cup s.rows, s.embedder)
    BY <2>1 DEF Search, OneModel
  <2>3. find' = [find EXCEPT ![p] = s] /\ UNCHANGED <<docs, writes, blurred, index>>
    BY <1>2 DEF StartFind
  <2>4. finds' \in 0..MaxFinds
    <3>1. finds < MaxFinds /\ finds' = finds + 1
      BY <1>2 DEF StartFind
    <3> QED
      BY <1>0, <3>1
  <2> HIDE DEF s
  <2> QED
    BY <2>2, <2>3, <2>4, SearchMoves
<1>3. ASSUME NEW p \in Finder, NEW d \in Doc, VisitDoc(p, d) PROVE FindTyped'
  <2> DEFINE s == IF docs[d].lines = 0 THEN [find[p] EXCEPT !.pending = @ \ {d}]
                  ELSE [find[p] EXCEPT !.pending = @ \ {d}, !.mtime = docs[d].mtime, !.doc = d]
  <2>1. find[p] \in Search /\ OneModel(find[p].cache \cup find[p].tasks \cup find[p].rows, find[p].embedder)
    BY <1>3, SearchWalks DEF VisitDoc, Doing
  <2>2. docs[d].mtime \in Stamp
    BY DEF FindTyped, FindShape, File
  <2>3. s \in Search /\ s.cache = find[p].cache /\ s.tasks = find[p].tasks /\ s.rows = find[p].rows
        /\ s.embedder = find[p].embedder
    BY <2>1, <2>2 DEF Search
  <2>4. find' = [find EXCEPT ![p] = s] /\ UNCHANGED <<docs, writes, blurred, index, finds>>
    <3>1. find \in [Finder -> Search \cup {NoFind}]
      BY DEF FindTyped, FindShape
    <3> QED
      <4>1. CASE docs[d].lines = 0
        BY <1>3, <3>1, <4>1 DEF VisitDoc
      <4>2. CASE docs[d].lines # 0
        BY <1>3, <3>1, <4>2 DEF VisitDoc
      <4> QED
        BY <4>1, <4>2
  <2> HIDE DEF s
  <2> QED
    BY <1>0, <2>1, <2>3, <2>4, SearchMoves
<1>4. ASSUME NEW p \in Finder, ReadDoc(p) PROVE FindTyped'
  <2> DEFINE s == [find[p] EXCEPT !.doc = NoDoc, !.mtime = 0, !.tasks = @ \cup ReadRows(p)]
  <2>1. find[p] \in Search /\ OneModel(find[p].cache \cup find[p].tasks \cup find[p].rows, find[p].embedder)
        /\ find[p].doc # NoDoc /\ find \in [Finder -> Search \cup {NoFind}]
    BY <1>4, SearchWalks DEF ReadDoc, Doing, FindTyped, FindShape
  <2>2. ReadRows(p) \subseteq Row /\ OneModel(ReadRows(p), find[p].embedder)
    BY <2>1, ReadRowsAreRows DEF OneModel
  <2>3. find' = [find EXCEPT ![p].doc = NoDoc, ![p].mtime = 0, ![p].tasks = @ \cup ReadRows(p)]
        /\ UNCHANGED <<docs, writes, blurred, index, finds>>
    BY <1>4 DEF ReadDoc, ReadRows
  <2>4. 0 \in Stamp
    BY DEF Stamp
  <2>5. s \in Search /\ s.cache = find[p].cache /\ s.tasks = find[p].tasks \cup ReadRows(p) /\ s.rows = find[p].rows
        /\ s.embedder = find[p].embedder
    BY <2>1, <2>2, <2>4 DEF Search
  <2>6. find' = [find EXCEPT ![p] = s]
    BY <2>1, <2>3
  <2>7. OneModel(s.cache \cup s.tasks \cup s.rows, s.embedder)
    BY <2>1, <2>2, <2>5 DEF OneModel
  <2> HIDE DEF s
  <2> QED
    BY <1>0, <2>3, <2>5, <2>6, <2>7, SearchMoves
<1>5. ASSUME NEW p \in Finder, NEW t \in find[p].tasks, Embed(p, t) PROVE FindTyped'
  <2>1. find[p] \in Search /\ OneModel(find[p].cache \cup find[p].tasks \cup find[p].rows, find[p].embedder)
        /\ find \in [Finder -> Search \cup {NoFind}]
    BY <1>5, SearchWalks DEF Embed, Walked, Doing, FindTyped, FindShape
  <2>2. t \in Row /\ Hits(p, t) \subseteq Row /\ Hits(p, t) \subseteq find[p].cache
    BY <2>1 DEF Search, Hits
  <2>3. UNCHANGED <<docs, writes, blurred, index, finds>>
    BY <1>5 DEF Embed
  <2>4. ASSUME NEW r \in Hits(p, t) \cup {t},
               find' = [find EXCEPT ![p].tasks = @ \ {t}, ![p].rows = @ \cup {r}] PROVE FindTyped'
    <3> DEFINE s == [find[p] EXCEPT !.tasks = @ \ {t}, !.rows = @ \cup {r}]
    <3>1. s \in Search /\ s.cache = find[p].cache /\ s.tasks = find[p].tasks \ {t} /\ s.rows = find[p].rows \cup {r}
          /\ s.embedder = find[p].embedder
      BY <2>1, <2>2 DEF Search
    <3>2. find' = [find EXCEPT ![p] = s]
      BY <2>1, <2>4
    <3>3. OneModel(s.cache \cup s.tasks \cup s.rows, s.embedder)
      BY <2>1, <2>2, <3>1 DEF OneModel
    <3> HIDE DEF s
    <3> QED
      BY <1>0, <2>3, <3>1, <3>2, <3>3, SearchMoves
  <2>5. ASSUME find' = [find EXCEPT ![p].tasks = @ \ {t}, ![p].calm = FALSE] PROVE FindTyped'
    <3> DEFINE s == [find[p] EXCEPT !.tasks = @ \ {t}, !.calm = FALSE]
    <3>1. s \in Search /\ s.cache = find[p].cache /\ s.tasks = find[p].tasks \ {t} /\ s.rows = find[p].rows
          /\ s.embedder = find[p].embedder
      BY <2>1 DEF Search
    <3>2. find' = [find EXCEPT ![p] = s]
      BY <2>1, <2>5
    <3>3. OneModel(s.cache \cup s.tasks \cup s.rows, s.embedder)
      BY <2>1, <3>1 DEF OneModel
    <3> HIDE DEF s
    <3> QED
      BY <1>0, <2>3, <3>1, <3>2, <3>3, SearchMoves
  <2> QED
    BY <1>5, <2>4, <2>5 DEF Embed
<1>6. ASSUME NEW p \in Finder, OpenIndex(p) PROVE FindTyped'
  <2> DEFINE s == [find[p] EXCEPT !.pc = "write"]
  <2>1. find[p] \in Search /\ OneModel(find[p].cache \cup find[p].tasks \cup find[p].rows, find[p].embedder)
        /\ find \in [Finder -> Search \cup {NoFind}]
    BY <1>6, SearchWalks DEF OpenIndex, Walked, Doing, FindTyped, FindShape
  <2>2. s \in Search /\ s.cache = find[p].cache /\ s.tasks = find[p].tasks /\ s.rows = find[p].rows
        /\ s.embedder = find[p].embedder
    BY <2>1 DEF Search
  <2>3. find' = [find EXCEPT ![p] = s] /\ index' = Unreadable /\ UNCHANGED <<docs, writes, blurred, finds>>
    BY <1>6, <2>1 DEF OpenIndex
  <2> HIDE DEF s
  <2> QED
    BY <1>0, <2>1, <2>2, <2>3, SearchMoves
<1>7. ASSUME NEW p \in Finder, find' = [find EXCEPT ![p] = NoFind], UNCHANGED <<docs, writes, finds, blurred>>,
             index' \in [whole : BOOLEAN, rows : SUBSET Row], ~index'.whole => index'.rows = {},
             \A r, s \in index'.rows : r.embedder = s.embedder
      PROVE  FindTyped'
  <2>1. find' \in [Finder -> Search \cup {NoFind}] /\ \A q \in Finder : find'[q] = IF q = p THEN NoFind ELSE find[q]
    BY <1>7 DEF FindTyped, FindShape
  <2> QED
    BY <1>7, <2>1 DEF FindTyped, FindShape, FindModels
<1>8. /\ Unreadable \in [whole : BOOLEAN, rows : SUBSET Row] /\ Unreadable.rows = {}
      /\ index \in [whole : BOOLEAN, rows : SUBSET Row] /\ (~index.whole => index.rows = {})
      /\ \A r, s \in index.rows : r.embedder = s.embedder
  BY DEF Unreadable, FindTyped, FindShape, FindModels
<1>9. ASSUME NEW p \in Finder, WriteIndex(p) PROVE FindTyped'
  <2>1. find[p] \in Search /\ OneModel(find[p].cache \cup find[p].tasks \cup find[p].rows, find[p].embedder)
    BY <1>9, SearchWalks DEF WriteIndex, Doing
  <2>2. CASE index' = [whole |-> TRUE, rows |-> find[p].rows]
    <3>1. index'.whole = TRUE /\ index'.rows = find[p].rows /\ find[p].rows \subseteq Row
      BY <2>1, <2>2 DEF Search
    <3>2. \A r, s \in index'.rows : r.embedder = s.embedder
      BY <2>1, <3>1 DEF OneModel
    <3> QED
      BY <1>7, <1>9, <2>2, <3>1, <3>2 DEF WriteIndex
  <2>3. CASE index' = Unreadable
    BY <1>7, <1>8, <1>9, <2>3 DEF WriteIndex
  <2> QED
    BY <1>9, <2>2, <2>3 DEF WriteIndex
<1>10. ASSUME NEW p \in Finder, KillFind(p) PROVE FindTyped'
  <2>1. index' = index \/ index' = Unreadable
    BY <1>10 DEF KillFind
  <2> QED
    BY <1>7, <1>8, <1>10, <2>1 DEF KillFind
<1>11. ASSUME UNCHANGED findexVars PROVE FindTyped'
  BY <1>11 DEF findexVars, FindTyped, FindShape, FindModels
<1> QED
  BY <1>1, <1>2, <1>3, <1>4, <1>5, <1>6, <1>9, <1>10, <1>11 DEF FindexNext

(* The index is readable or empty, holds well formed rows, and never mixes *)
(* the vectors of two models, whatever sizes and overlaps are asked for.   *)
THEOREM FindexTypes == FindexSpec => []FindexTypeOK
<1>1. FindTyped => FindexTypeOK
  <2> SUFFICES ASSUME FindTyped PROVE FindexTypeOK
    OBVIOUS
  <2>1. \A d \in Doc : docs[d].version \in Stamp /\ docs[d].mtime \in Stamp /\ docs[d].lines \in 0..MaxLines
    BY DEF FindTyped, FindShape, File
  <2>2. ASSUME NEW p \in Finder PROVE find[p].pc \in {"none", "walk", "write"} /\ find[p].rows \subseteq Row
    <3>1. find[p] \in Search \/ find[p] = NoFind
      BY DEF FindTyped, FindShape
    <3>2. CASE find[p] \in Search
      BY <3>2 DEF Search
    <3> QED
      BY <3>1, <3>2, NoFindIsNone
  <2> QED
    BY <2>1, <2>2 DEF FindTyped, FindShape, FindModels, FindexTypeOK
<1> QED
  BY <1>1, FindStart, FindTypedInductive, PTL DEF FindexSpec

(* A row of a file that is as old as the file now has the vector of its    *)
(* lines, wherever it is kept, unless the file was rewritten in a second.  *)
Faithful(r) ==
    r.doc \notin blurred /\ r.mtime = docs[r.doc].mtime => r.text = <<docs[r.doc].version, r.from, r.last>>
RowSettled(r) == Faithful(r) /\ r.mtime <= writes
RowsOfRun(p) == find[p].cache \cup find[p].tasks \cup find[p].rows
FindAges ==
    /\ \A d \in Doc : docs[d].mtime <= writes
    /\ \A r \in index.rows : RowSettled(r)
    /\ \A p \in Finder : find[p].pc # "none" => find[p].mtime <= writes /\ \A r \in RowsOfRun(p) : RowSettled(r)

(* What a run that nothing has disturbed holds: of every file it has dealt *)
(* with the rows it should have, and of the others none.                   *)
Dealt(p) == Doc \ (find[p].pending \cup {find[p].doc})
Complete(p) ==
    \A d \in Doc \ blurred :
        {r \in find[p].tasks \cup find[p].rows : r.doc = d}
          = IF d \in Dealt(p) THEN RowsOf(d, find[p].embedder, find[p].cut) ELSE {}
Undisturbed(p) ==
    find[p].calm =>
        /\ find[p].doc # NoDoc => find[p].mtime = docs[find[p].doc].mtime /\ find[p].doc \notin find[p].pending
        /\ find[p].pc = "write" => find[p].pending = {} /\ find[p].doc = NoDoc /\ find[p].tasks = {}
        /\ Complete(p)

FindInv == FindTyped /\ FindAges /\ \A p \in Finder : Undisturbed(p)

(* A write disturbs every run, and makes no row wrong.                     *)
LEMMA WriteKeeps == ASSUME FindInv, NEW d \in Doc, NEW n \in 0..MaxLines, Write(d, n) PROVE FindAges' /\ \A p \in Finder : Undisturbed(p)'
<1>1. PICK same \in BOOLEAN :
         /\ docs' = [docs EXCEPT ![d] = [version |-> writes + 1, lines |-> n,
                                         mtime |-> IF same THEN docs[d].mtime ELSE writes + 1]]
         /\ blurred' = IF same THEN blurred \cup {d} ELSE blurred \ {d}
  BY DEF Write
<1>2. docs \in [Doc -> File] /\ writes \in Nat /\ writes' = writes + 1 /\ \A e \in Doc : docs[e].mtime \in Nat
  BY DEF FindInv, FindTyped, FindShape, Stamp, Write, File
<1>3. \A e \in Doc : docs'[e] = IF e = d THEN [version |-> writes + 1, lines |-> n,
                                         mtime |-> IF same THEN docs[d].mtime ELSE writes + 1] ELSE docs[e]
  BY <1>1, <1>2
<1>4. docs'[d].mtime = (IF same THEN docs[d].mtime ELSE writes + 1) /\ \A e \in Doc \ {d} : docs'[e] = docs[e]
  BY <1>3
<1>5. ASSUME NEW r \in Row, RowSettled(r) PROVE RowSettled(r)'
  <2>1. r.mtime \in Nat /\ r.mtime <= writes /\ r.doc \in Doc
    BY <1>5 DEF Row, Stamp, RowSettled
  <2>2. CASE r.doc # d
    BY <1>1, <1>2, <1>4, <1>5, <2>1, <2>2 DEF RowSettled, Faithful
  <2>3. CASE r.doc = d
    <3>1. d \in blurred' \/ r.mtime # docs'[d].mtime
      BY <1>1, <1>2, <1>4, <2>1
    <3> QED
      BY <1>2, <2>1, <2>3, <3>1 DEF RowSettled, Faithful
  <2> QED
    BY <2>2, <2>3
<1>6. index' = index /\ find' = [p \in Finder |-> [find[p] EXCEPT !.calm = FALSE]]
  BY DEF Write
<1>7. \A e \in Doc : docs'[e].mtime <= writes'
  BY <1>2, <1>4 DEF FindInv, FindAges
<1>8. \A r \in index'.rows : RowSettled(r)'
  BY <1>5, <1>6 DEF FindInv, FindAges, FindTyped, FindShape
<1>9. ASSUME NEW p \in Finder PROVE ~find'[p].calm /\ (find'[p].pc # "none" => find'[p].mtime <= writes' /\ \A r \in RowsOfRun(p)' : RowSettled(r)')
  <2>1. find[p] \in Search \/ find[p] = NoFind
    BY DEF FindInv, FindTyped, FindShape
  <2>2. CASE find[p] \in Search
    <3>1. find'[p].calm = FALSE /\ find'[p].mtime = find[p].mtime /\ RowsOfRun(p)' = RowsOfRun(p) /\ find[p].mtime \in Nat
      BY <1>6, <2>2 DEF Search, RowsOfRun, Stamp
    <3>2. find[p].mtime <= writes /\ \A r \in RowsOfRun(p) : RowSettled(r)
      BY <2>2, NoFindIsNone DEF FindInv, FindAges
    <3>3. \A r \in RowsOfRun(p) : r \in Row
      BY <2>2 DEF Search, RowsOfRun
    <3> QED
      BY <1>2, <1>5, <3>1, <3>2, <3>3
  <2>3. CASE find[p] = NoFind
    <3>1. find'[p].calm = FALSE /\ find'[p].pc = "none"
      BY <1>6, <2>3 DEF NoFind
    <3> QED
      BY <3>1
  <2> QED
    BY <2>1, <2>2, <2>3
<1>10. \A p \in Finder : Undisturbed(p)'
  BY <1>9 DEF Undisturbed
<1> QED
  BY <1>7, <1>8, <1>9, <1>10 DEF FindAges

(* A step of one run, with the files as they are.                          *)
LEMMA RunKeeps ==
  ASSUME FindInv, NEW p \in Finder, NEW s, find' = [find EXCEPT ![p] = s],
         UNCHANGED <<docs, writes, blurred>>,
         s.pc # "none" => s.mtime <= writes /\ \A r \in s.cache \cup s.tasks \cup s.rows : RowSettled(r),
         \A r \in index'.rows : RowSettled(r),
         Undisturbed(p)'
  PROVE  FindAges' /\ \A q \in Finder : Undisturbed(q)'
<1>1. \A q \in Finder : find'[q] = IF q = p THEN s ELSE find[q]
  BY DEF FindInv, FindTyped, FindShape
<1>2. \A r : RowSettled(r) => RowSettled(r)'
  BY DEF RowSettled, Faithful
<1>3. \A d \in Doc : docs'[d].mtime <= writes'
  BY DEF FindInv, FindAges
<1>4. \A r \in index'.rows : RowSettled(r)'
  BY <1>2
<1>5. ASSUME NEW q \in Finder, find'[q].pc # "none" PROVE find'[q].mtime <= writes' /\ \A r \in RowsOfRun(q)' : RowSettled(r)'
  BY <1>1, <1>2, <1>5 DEF RowsOfRun, FindInv, FindAges
<1>6. ASSUME NEW q \in Finder \ {p} PROVE Undisturbed(q)'
  <2>1. find'[q] = find[q] /\ Undisturbed(q)
    BY <1>1 DEF FindInv
  <2>2. \A d \in Doc : RowsOf(d, find[q].embedder, find[q].cut)' = RowsOf(d, find[q].embedder, find[q].cut)
    BY <2>1 DEF RowsOf
  <2> QED
    BY <2>1, <2>2 DEF Undisturbed, Complete, Dealt
<1> QED
  BY <1>3, <1>4, <1>5, <1>6 DEF FindAges

(* Two rows that agree in what the cache compares are one, if the files    *)
(* are as old as both.                                                     *)
LEMMA SameRow ==
  ASSUME NEW r \in Row, NEW t \in Row, Faithful(r), Faithful(t), t.doc \notin blurred,
         t.mtime = docs[t.doc].mtime, r.embedder = t.embedder,
         r.doc = t.doc, r.id = t.id, r.mtime = t.mtime, r.from = t.from, r.last = t.last
  PROVE  r = t
<1>1. r.text = t.text
  BY DEF Faithful
<1>2. /\ r = [doc |-> r.doc, id |-> r.id, from |-> r.from, last |-> r.last, mtime |-> r.mtime, embedder |-> r.embedder, text |-> r.text]
      /\ t = [doc |-> t.doc, id |-> t.id, from |-> t.from, last |-> t.last, mtime |-> t.mtime, embedder |-> t.embedder, text |-> t.text]
  BY DEF Row
<1> QED
  BY <1>1, <1>2

LEMMA NoLinesNoRows == ASSUME NEW d, NEW e, NEW cut \in Cut, docs[d].lines = 0 PROVE RowsOf(d, e, cut) = {}
<1>1. Chunks(0, cut) = {}
  <2>1. \A k \in 0..0 : ~(1 + k * (cut.size - cut.overlap) <= 0)
    <3>1. cut.size - cut.overlap \in Int
      BY CutShape
    <3> QED
      BY <3>1
  <2> QED
    BY <2>1 DEF Chunks
<1> QED
  BY <1>1 DEF RowsOf

Exact == \A cut \in Cut : cut.overlap < cut.size

LEMMA RunShapeNow ==
  ASSUME FindInv, NEW p \in Finder, find[p].pc # "none"
  PROVE  /\ find[p] \in Search /\ find \in [Finder -> Search \cup {NoFind}]
         /\ OneModel(RowsOfRun(p), find[p].embedder)
         /\ find[p].mtime <= writes /\ \A r \in RowsOfRun(p) : RowSettled(r) /\ r \in Row
         /\ Undisturbed(p) /\ \A r \in index.rows : RowSettled(r)
<1>1. find[p] \in Search /\ OneModel(RowsOfRun(p), find[p].embedder)
  BY SearchWalks DEF FindInv, RowsOfRun
<1>2. \A r \in RowsOfRun(p) : r \in Row
  BY <1>1 DEF Search, RowsOfRun
<1> QED
  BY <1>1, <1>2 DEF FindInv, FindAges, FindTyped, FindShape

LEMMA StartKeeps ==
  ASSUME FindInv, NEW p \in Finder, NEW e \in Embedder, NEW cut \in Cut, StartFind(p, e, cut)
  PROVE  FindAges' /\ \A q \in Finder : Undisturbed(q)'
<1> DEFINE s == [pc |-> "walk", embedder |-> e, cut |-> cut, pending |-> Doc,
                 cache |-> {r \in index.rows : r.embedder = e}, doc |-> NoDoc, mtime |-> 0,
                 tasks |-> {}, rows |-> {}, calm |-> TRUE]
<1>1. find' = [find EXCEPT ![p] = s] /\ UNCHANGED <<docs, writes, blurred, index>>
  BY DEF StartFind
<1>2. /\ s.pc = "walk" /\ s.pending = Doc /\ s.cache \subseteq index.rows /\ s.doc = NoDoc /\ s.mtime = 0
      /\ s.tasks = {} /\ s.rows = {}
  OBVIOUS
<1>3. 0 <= writes
  BY DEF FindInv, FindTyped, FindShape, Stamp
<1> HIDE DEF s
<1>4. find'[p] = s
  BY <1>1 DEF FindInv, FindTyped, FindShape
<1>5. \A r \in s.cache \cup s.tasks \cup s.rows : RowSettled(r)
  BY <1>2 DEF FindInv, FindAges
<1>6. Dealt(p)' = {}
  BY <1>2, <1>4 DEF Dealt
<1>7. Undisturbed(p)'
  BY <1>2, <1>4, <1>6 DEF Undisturbed, Complete
<1> QED
  BY <1>1, <1>2, <1>3, <1>5, <1>7, RunKeeps DEF FindInv, FindAges

LEMMA VisitKeeps ==
  ASSUME FindInv, NEW p \in Finder, NEW d \in Doc, VisitDoc(p, d)
  PROVE  FindAges' /\ \A q \in Finder : Undisturbed(q)'
<1> DEFINE s == IF docs[d].lines = 0 THEN [find[p] EXCEPT !.pending = @ \ {d}]
                ELSE [find[p] EXCEPT !.pending = @ \ {d}, !.mtime = docs[d].mtime, !.doc = d]
<1>0. find[p].pc = "walk" /\ find[p].doc = NoDoc /\ d \in find[p].pending /\ UNCHANGED <<docs, writes, blurred, index>>
  BY DEF VisitDoc, Doing
<1>1. /\ find[p] \in Search /\ find \in [Finder -> Search \cup {NoFind}]
      /\ find[p].mtime <= writes /\ \A r \in RowsOfRun(p) : RowSettled(r)
      /\ Undisturbed(p) /\ \A r \in index.rows : RowSettled(r)
  BY <1>0, RunShapeNow
<1>2. find' = [find EXCEPT ![p] = s]
  BY <1>1 DEF VisitDoc
<1>3. /\ s.pc = "walk" /\ s.pending = find[p].pending \ {d} /\ s.cache = find[p].cache /\ s.embedder = find[p].embedder
      /\ s.tasks = find[p].tasks /\ s.rows = find[p].rows /\ s.cut = find[p].cut /\ s.calm = find[p].calm
      /\ IF docs[d].lines = 0 THEN s.doc = NoDoc /\ s.mtime = find[p].mtime ELSE s.doc = d /\ s.mtime = docs[d].mtime
  BY <1>0, <1>1 DEF Search
<1> HIDE DEF s
<1>4. find'[p] = s
  BY <1>1, <1>2
<1>5. s.mtime <= writes
  BY <1>1, <1>3 DEF FindInv, FindAges
<1>6. \A r \in s.cache \cup s.tasks \cup s.rows : RowSettled(r)
  BY <1>1, <1>3 DEF RowsOfRun
<1>7. Undisturbed(p)'
  <2> SUFFICES ASSUME s.calm PROVE Undisturbed(p)'
    BY <1>4 DEF Undisturbed
  <2>1. Complete(p)
    BY <1>1, <1>3 DEF Undisturbed
  <2>2. NoDoc \notin Doc
    BY FindexAssumption
  <2>3. CASE docs[d].lines = 0
    <3>1. Dealt(p)' = Dealt(p) \cup {d} /\ d \notin Dealt(p)
      BY <1>0, <1>3, <1>4, <2>2, <2>3 DEF Dealt
    <3>2. RowsOf(d, s.embedder, s.cut) = {}
      BY <1>1, <1>3, <2>3, NoLinesNoRows DEF Search
    <3>3. \A x, e, cut : RowsOf(x, e, cut)' = RowsOf(x, e, cut)
      BY <1>0 DEF RowsOf
    <3>4. Complete(p)'
      BY <1>0, <1>3, <1>4, <2>1, <3>1, <3>2, <3>3 DEF Complete
    <3> QED
      BY <1>3, <1>4, <2>3, <3>4 DEF Undisturbed
  <2>4. CASE docs[d].lines # 0
    <3>1. Dealt(p)' = Dealt(p)
      BY <1>0, <1>3, <1>4, <2>2, <2>4 DEF Dealt
    <3>3. \A x, e, cut : RowsOf(x, e, cut)' = RowsOf(x, e, cut)
      BY <1>0 DEF RowsOf
    <3>4. Complete(p)'
      BY <1>0, <1>3, <1>4, <2>1, <3>1, <3>3 DEF Complete
    <3> QED
      BY <1>0, <1>3, <1>4, <2>4, <3>4 DEF Undisturbed
  <2> QED
    BY <2>3, <2>4
<1> QED
  BY <1>0, <1>1, <1>2, <1>5, <1>6, <1>7, RunKeeps

LEMMA ReadKeeps ==
  ASSUME Exact, FindInv, NEW p \in Finder, ReadDoc(p)
  PROVE  FindAges' /\ \A q \in Finder : Undisturbed(q)'
<1> DEFINE d == find[p].doc
           s == [find[p] EXCEPT !.doc = NoDoc, !.mtime = 0, !.tasks = @ \cup ReadRows(p)]
<1>0. find[p].pc = "walk" /\ d # NoDoc /\ UNCHANGED <<docs, writes, blurred, index>>
  BY DEF ReadDoc, Doing
<1>1. /\ find[p] \in Search /\ find \in [Finder -> Search \cup {NoFind}]
      /\ find[p].mtime <= writes /\ \A r \in RowsOfRun(p) : RowSettled(r)
      /\ Undisturbed(p) /\ \A r \in index.rows : RowSettled(r)
  BY <1>0, RunShapeNow
<1>2. d \in Doc /\ find[p].cut \in Cut /\ find[p].cut.overlap < find[p].cut.size /\ docs[d].lines \in 0..MaxLines
  BY <1>0, <1>1 DEF Search, Exact, FindInv, FindTyped, FindShape, File
<1>3. find' = [find EXCEPT ![p] = s]
  <2>1. find' = [find EXCEPT ![p].doc = NoDoc, ![p].mtime = 0, ![p].tasks = @ \cup ReadRows(p)]
    BY DEF ReadDoc, ReadRows
  <2> QED
    BY <1>1, <2>1
<1>4. /\ s.pc = "walk" /\ s.pending = find[p].pending /\ s.cache = find[p].cache /\ s.embedder = find[p].embedder
      /\ s.tasks = find[p].tasks \cup ReadRows(p) /\ s.rows = find[p].rows /\ s.cut = find[p].cut /\ s.calm = find[p].calm
      /\ s.doc = NoDoc /\ s.mtime = 0
  BY <1>0, <1>1 DEF Search
<1>5. ReadRows(p) = {[doc |-> d, id |-> c.id, from |-> c.from, last |-> c.last, mtime |-> find[p].mtime,
                      embedder |-> find[p].embedder, text |-> <<docs[d].version, c.first, c.last>>] :
                        c \in Chunks(docs[d].lines, find[p].cut)}
  BY <1>2, ChunkFileIsExact DEF ReadRows
<1>6. \A r \in ReadRows(p) : RowSettled(r)
  <2> SUFFICES ASSUME NEW r \in ReadRows(p) PROVE RowSettled(r)
    OBVIOUS
  <2>1. PICK c \in Chunks(docs[d].lines, find[p].cut) :
          r = [doc |-> d, id |-> c.id, from |-> c.from, last |-> c.last, mtime |-> find[p].mtime,
               embedder |-> find[p].embedder, text |-> <<docs[d].version, c.first, c.last>>]
    BY <1>5
  <2>2. c.from = c.first
    BY <1>2, ChunkIsNamed
  <2> QED
    BY <1>1, <2>1, <2>2 DEF RowSettled, Faithful
<1>7. /\ ReadRows(p) \subseteq Row /\ \A r \in ReadRows(p) : r.doc = d
  BY <1>0, <1>1, ReadRowsAreRows DEF FindInv
<1> HIDE DEF s, d
<1>8. find'[p] = s
  BY <1>1, <1>3
<1>9. 0 <= writes
  BY DEF FindInv, FindTyped, FindShape, Stamp
<1>10. \A r \in s.cache \cup s.tasks \cup s.rows : RowSettled(r)
  BY <1>1, <1>4, <1>6 DEF RowsOfRun
<1>11. Undisturbed(p)'
  <2> SUFFICES ASSUME s.calm PROVE Undisturbed(p)'
    BY <1>8 DEF Undisturbed
  <2>1. Complete(p) /\ find[p].mtime = docs[d].mtime /\ d \notin find[p].pending
    BY <1>0, <1>1, <1>4 DEF Undisturbed, d
  <2>2. NoDoc \notin Doc
    BY FindexAssumption
  <2>3. Dealt(p)' = Dealt(p) \cup {d} /\ d \notin Dealt(p)
    BY <1>2, <1>4, <1>8, <2>1, <2>2 DEF Dealt, d
  <2>4. RowsOf(d, find[p].embedder, find[p].cut) = ReadRows(p)
    BY <1>5, <2>1 DEF RowsOf
  <2>5. \A x, e, cut : RowsOf(x, e, cut)' = RowsOf(x, e, cut)
    BY <1>0 DEF RowsOf
  <2>6. ASSUME NEW x \in Doc \ blurred
        PROVE  {r \in s.tasks \cup s.rows : r.doc = x} = IF x \in Dealt(p)' THEN RowsOf(x, find[p].embedder, find[p].cut) ELSE {}
    <3>1. {r \in find[p].tasks \cup find[p].rows : r.doc = x}
            = IF x \in Dealt(p) THEN RowsOf(x, find[p].embedder, find[p].cut) ELSE {}
      BY <2>1 DEF Complete
    <3>2. CASE x = d
      BY <1>4, <1>7, <2>3, <2>4, <3>1, <3>2
    <3>3. CASE x # d
      <4>1. {r \in s.tasks \cup s.rows : r.doc = x} = {r \in find[p].tasks \cup find[p].rows : r.doc = x}
        BY <1>4, <1>7, <3>3
      <4> QED
        BY <2>3, <3>1, <3>3, <4>1
    <3> QED
      BY <3>2, <3>3
  <2>7. Complete(p)'
    BY <1>0, <1>4, <1>8, <2>5, <2>6 DEF Complete
  <2> QED
    BY <1>4, <1>8, <2>7 DEF Undisturbed
<1> QED
  BY <1>0, <1>1, <1>3, <1>4, <1>9, <1>10, <1>11, RunKeeps

LEMMA EmbedKeeps ==
  ASSUME FindInv, NEW p \in Finder, NEW t \in find[p].tasks, Embed(p, t)
  PROVE  FindAges' /\ \A q \in Finder : Undisturbed(q)'
<1>0. find[p].pc = "walk" /\ find[p].doc = NoDoc /\ find[p].pending = {} /\ UNCHANGED <<docs, writes, blurred, index>>
  BY DEF Embed, Walked, Doing
<1>1. /\ find[p] \in Search /\ find \in [Finder -> Search \cup {NoFind}]
      /\ OneModel(RowsOfRun(p), find[p].embedder)
      /\ find[p].mtime <= writes /\ \A r \in RowsOfRun(p) : RowSettled(r) /\ r \in Row
      /\ Undisturbed(p) /\ \A r \in index.rows : RowSettled(r)
  BY <1>0, RunShapeNow
<1>2. t \in RowsOfRun(p) /\ t \in Row /\ t.doc \in Doc
  BY <1>1 DEF RowsOfRun, Row
<1>3. ASSUME NEW r \in Hits(p, t) \cup {t},
             find' = [find EXCEPT ![p].tasks = @ \ {t}, ![p].rows = @ \cup {r}]
      PROVE  FindAges' /\ \A q \in Finder : Undisturbed(q)'
  <2> DEFINE s == [find[p] EXCEPT !.tasks = @ \ {t}, !.rows = @ \cup {r}]
  <2>1. find' = [find EXCEPT ![p] = s]
    BY <1>1, <1>3
  <2>2. /\ s.pc = "walk" /\ s.pending = {} /\ s.doc = NoDoc /\ s.cache = find[p].cache /\ s.mtime = find[p].mtime
        /\ s.tasks = find[p].tasks \ {t} /\ s.rows = find[p].rows \cup {r}
        /\ s.calm = find[p].calm /\ s.embedder = find[p].embedder /\ s.cut = find[p].cut
    BY <1>0, <1>1 DEF Search
  <2> HIDE DEF s
  <2>3. find'[p] = s
    BY <1>1, <2>1
  <2>4. r \in RowsOfRun(p) /\ r \in Row /\ r.doc = t.doc /\ r.embedder = t.embedder /\ Faithful(r) /\ Faithful(t)
        /\ r.id = t.id /\ r.mtime = t.mtime /\ r.from = t.from /\ r.last = t.last
    <3>1. r \in RowsOfRun(p)
      BY <1>2 DEF Hits, RowsOfRun
    <3> QED
      BY <1>1, <1>2, <3>1 DEF Hits, OneModel, RowSettled
  <2>5. \A x \in s.cache \cup s.tasks \cup s.rows : RowSettled(x)
    BY <1>1, <2>2, <2>4 DEF RowsOfRun
  <2>6. Undisturbed(p)'
    <3> SUFFICES ASSUME s.calm PROVE Undisturbed(p)'
      BY <2>3 DEF Undisturbed
    <3>1. Complete(p)
      BY <1>1, <2>2 DEF Undisturbed
    <3>2. Dealt(p) = Doc /\ Dealt(p)' = Doc
      BY <1>0, <2>2, <2>3, FindexAssumption DEF Dealt
    <3>3. t.doc \notin blurred => r = t
      <4> SUFFICES ASSUME t.doc \notin blurred PROVE r = t
        OBVIOUS
      <4>1. t \in RowsOf(t.doc, find[p].embedder, find[p].cut)
        BY <1>2, <3>1, <3>2 DEF Complete
      <4>2. t.mtime = docs[t.doc].mtime
        BY <4>1 DEF RowsOf
      <4> QED
        BY <1>2, <2>4, <4>2, SameRow
    <3>4. \A x \in Doc \ blurred : {y \in s.tasks \cup s.rows : y.doc = x} = {y \in find[p].tasks \cup find[p].rows : y.doc = x}
      BY <2>2, <2>4, <3>3
    <3>5. \A x, e, cut : RowsOf(x, e, cut)' = RowsOf(x, e, cut)
      BY <1>0 DEF RowsOf
    <3>6. Complete(p)'
      BY <1>0, <2>2, <2>3, <3>1, <3>2, <3>4, <3>5 DEF Complete
    <3> QED
      BY <2>2, <2>3, <3>6 DEF Undisturbed
  <2> QED
    BY <1>0, <1>1, <2>1, <2>2, <2>5, <2>6, RunKeeps
<1>4. ASSUME find' = [find EXCEPT ![p].tasks = @ \ {t}, ![p].calm = FALSE]
      PROVE  FindAges' /\ \A q \in Finder : Undisturbed(q)'
  <2> DEFINE s == [find[p] EXCEPT !.tasks = @ \ {t}, !.calm = FALSE]
  <2>1. find' = [find EXCEPT ![p] = s]
    BY <1>1, <1>4
  <2>2. s.cache = find[p].cache /\ s.tasks = find[p].tasks \ {t} /\ s.rows = find[p].rows /\ ~s.calm /\ s.mtime = find[p].mtime
    BY <1>1 DEF Search
  <2> HIDE DEF s
  <2>3. find'[p] = s
    BY <1>1, <2>1
  <2>4. \A x \in s.cache \cup s.tasks \cup s.rows : RowSettled(x)
    BY <1>1, <2>2 DEF RowsOfRun
  <2> QED
    BY <1>0, <1>1, <2>1, <2>2, <2>3, <2>4, RunKeeps DEF Undisturbed
<1> QED
  BY <1>3, <1>4 DEF Embed

LEMMA OpenKeeps ==
  ASSUME FindInv, NEW p \in Finder, OpenIndex(p)
  PROVE  FindAges' /\ \A q \in Finder : Undisturbed(q)'
<1> DEFINE s == [find[p] EXCEPT !.pc = "write"]
<1>0. /\ find[p].pc = "walk" /\ find[p].doc = NoDoc /\ find[p].pending = {} /\ find[p].tasks = {}
      /\ UNCHANGED <<docs, writes, blurred>> /\ index' = Unreadable
  BY DEF OpenIndex, Walked, Doing
<1>1. /\ find[p] \in Search /\ find \in [Finder -> Search \cup {NoFind}]
      /\ find[p].mtime <= writes /\ \A r \in RowsOfRun(p) : RowSettled(r)
      /\ Undisturbed(p)
  BY <1>0, RunShapeNow
<1>2. find' = [find EXCEPT ![p] = s]
  BY <1>1 DEF OpenIndex
<1>3. /\ s.pc = "write" /\ s.pending = {} /\ s.doc = NoDoc /\ s.tasks = {} /\ s.cache = find[p].cache
      /\ s.rows = find[p].rows /\ s.mtime = find[p].mtime
      /\ s.calm = find[p].calm /\ s.embedder = find[p].embedder /\ s.cut = find[p].cut
  BY <1>0, <1>1 DEF Search
<1> HIDE DEF s
<1>4. find'[p] = s
  BY <1>1, <1>2
<1>5. \A x \in s.cache \cup s.tasks \cup s.rows : RowSettled(x)
  BY <1>1, <1>3 DEF RowsOfRun
<1>6. Undisturbed(p)'
  <2> SUFFICES ASSUME s.calm PROVE Undisturbed(p)'
    BY <1>4 DEF Undisturbed
  <2>1. Complete(p)
    BY <1>1, <1>3 DEF Undisturbed
  <2>2. Dealt(p)' = Dealt(p)
    BY <1>0, <1>3, <1>4 DEF Dealt
  <2>3. \A x, e, cut : RowsOf(x, e, cut)' = RowsOf(x, e, cut)
    BY <1>0 DEF RowsOf
  <2>4. Complete(p)'
    BY <1>0, <1>3, <1>4, <2>1, <2>2, <2>3 DEF Complete
  <2> QED
    BY <1>3, <1>4, <2>4 DEF Undisturbed
<1>7. \A r \in index'.rows : RowSettled(r)
  BY <1>0 DEF Unreadable
<1> QED
  BY <1>0, <1>1, <1>2, <1>3, <1>5, <1>6, <1>7, RunKeeps

(* A run that ends leaves its rows, the rows that were there, or none.     *)
LEMMA EndKeeps ==
  ASSUME FindInv, NEW p \in Finder, WriteIndex(p) \/ KillFind(p)
  PROVE  FindAges' /\ \A q \in Finder : Undisturbed(q)'
<1>1. find[p].pc # "none" /\ find' = [find EXCEPT ![p] = NoFind] /\ UNCHANGED <<docs, writes, blurred>>
  BY DEF WriteIndex, KillFind, Doing
<1>2. index' = index \/ index' = Unreadable \/ index' = [whole |-> TRUE, rows |-> find[p].rows]
  BY DEF WriteIndex, KillFind
<1>3. /\ \A r \in RowsOfRun(p) : RowSettled(r)
      /\ \A r \in index.rows : RowSettled(r)
  BY <1>1, RunShapeNow
<1>4. \A r \in index'.rows : RowSettled(r)
  BY <1>2, <1>3 DEF Unreadable, RowsOfRun
<1>5. find'[p] = NoFind
  BY <1>1 DEF FindInv, FindTyped, FindShape
<1>6. Undisturbed(p)'
  BY <1>5, NoFindIsNone DEF Undisturbed
<1> QED
  BY <1>1, <1>4, <1>6, NoFindIsNone, RunKeeps

LEMMA FindInvInductive == ASSUME Exact PROVE FindInv /\ [FindexNext]_findexVars => FindInv'
<1> SUFFICES ASSUME FindInv, [FindexNext]_findexVars PROVE FindAges' /\ \A q \in Finder : Undisturbed(q)'
  BY FindTypedInductive DEF FindInv
<1>1. ASSUME UNCHANGED findexVars PROVE FindAges' /\ \A q \in Finder : Undisturbed(q)'
  <2>1. UNCHANGED <<docs, index, find, writes, finds, blurred>>
    BY <1>1 DEF findexVars
  <2>2. \A x, e, cut : RowsOf(x, e, cut)' = RowsOf(x, e, cut)
    BY <2>1 DEF RowsOf
  <2>3. FindAges'
    BY <2>1 DEF FindInv, FindAges, RowSettled, Faithful, RowsOfRun
  <2>4. \A q \in Finder : Undisturbed(q)'
    BY <2>1, <2>2 DEF FindInv, Undisturbed, Complete, Dealt
  <2> QED
    BY <2>3, <2>4
<1> QED
  BY <1>1, WriteKeeps, StartKeeps, VisitKeeps, ReadKeeps, EmbedKeeps, OpenKeeps, EndKeeps DEF FindexNext

(* With overlaps below the chunk size, an undisturbed run leaves exactly   *)
(* the chunks of the files as they are, whatever was in the index before   *)
(* and whoever writes it beside.                                           *)
THEOREM RerunsAreExact == ASSUME Exact PROVE FindexSpec => RerunIsExact
<1>1. FindexInit => FindInv
  <2> SUFFICES ASSUME FindexInit PROVE FindInv
    OBVIOUS
  <2>1. \A p \in Finder : find[p] = NoFind
    BY DEF FindexInit
  <2>2. index.rows = {} /\ writes = 0 /\ \A d \in Doc : docs[d].mtime = 0
    BY DEF FindexInit, Unreadable
  <2>3. FindAges
    BY <2>1, <2>2, NoFindIsNone DEF FindAges
  <2>4. \A p \in Finder : Undisturbed(p)
    BY <2>1, NoFindIsNone DEF Undisturbed
  <2> QED
    BY <2>3, <2>4, FindStart DEF FindInv
<1>2. ASSUME FindInv, NEW p \in Finder, WriteIndex(p), find[p].calm, index'.whole
      PROVE  {r \in index'.rows : r.doc \notin blurred}
               = UNION {RowsOf(d, find[p].embedder, find[p].cut) : d \in Doc \ blurred}
  <2>1. index'.rows = find[p].rows
    BY <1>2 DEF WriteIndex, Unreadable
  <2>2. find[p].pc = "write" /\ find[p] \in Search /\ Undisturbed(p) /\ \A r \in RowsOfRun(p) : r \in Row
    BY <1>2, RunShapeNow DEF WriteIndex, Doing
  <2>3. Complete(p) /\ find[p].pending = {} /\ find[p].doc = NoDoc /\ find[p].tasks = {}
    BY <1>2, <2>2 DEF Undisturbed
  <2>4. Dealt(p) = Doc
    BY <2>3, FindexAssumption DEF Dealt
  <2>5. \A d \in Doc \ blurred : {r \in find[p].rows : r.doc = d} = RowsOf(d, find[p].embedder, find[p].cut)
    BY <2>3, <2>4 DEF Complete
  <2>6. \A r \in find[p].rows : r.doc \in Doc
    BY <2>2 DEF RowsOfRun, Row
  <2> QED
    BY <2>1, <2>5, <2>6
<1>3. FindInv => [\A p \in Finder :
         WriteIndex(p) /\ find[p].calm /\ index'.whole =>
           {r \in index'.rows : r.doc \notin blurred}
             = UNION {RowsOf(d, find[p].embedder, find[p].cut) : d \in Doc \ blurred}]_findexVars
  BY <1>2
<1>4. FindexSpec => []FindInv
  BY <1>1, FindInvInductive, PTL DEF FindexSpec
<1> QED
  BY <1>3, <1>4, PTL DEF FindexSpec, RerunIsExact
=============================================================================
