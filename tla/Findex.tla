------------------------------- MODULE Findex -------------------------------
(***************************************************************************)
(* findex keeps .foxml_index.json, an embedding per chunk of every file of *)
(* a project, and reuses an embedding as long as the chunk's file seems    *)
(* the same.  Files change while it walks them, the model server fails,    *)
(* runs overlap (fox-init starts one in the background) and are killed.    *)
(* A file is its version and its number of lines; an embedding is the text *)
(* it was made from.  A second is the grain of an mtime.                   *)
(***************************************************************************)
EXTENDS Integers, FiniteSets

CONSTANTS
    Doc,          \* files worth indexing
    Embedder,     \* embedding models
    Cut,          \* what -s and -o may be: lines of a chunk, and of its overlap
    Finder, NoDoc,
    MaxLines, MaxWrites, MaxFinds   \* bounds: length of a file, edits, runs

ASSUME FindexAssumption ==
    /\ Cut \subseteq [size : Nat \ {0}, overlap : Nat] /\ NoDoc \notin Doc
    /\ MaxLines \in Nat /\ MaxWrites \in Nat /\ MaxFinds \in Nat

VARIABLES
    docs,      \* the files: version, lines and mtime
    index,     \* the index: can it be parsed, and its rows
    find,      \* the runs
    writes, finds,
    blurred    \* history: files rewritten in the second of the version before

findexVars == <<docs, index, find, writes, finds, blurred>>

Stamp == 0..MaxWrites
Row == [doc : Doc, id : Nat, from : Nat, last : Nat, mtime : Stamp, embedder : Embedder,
        text : Stamp \X Nat \X Nat]
Unreadable == [whole |-> FALSE, rows |-> {}]      \* no file, a half written or an overwritten one
NoFind == [pc |-> "none", cache |-> {}, pending |-> {}, doc |-> NoDoc, mtime |-> 0, tasks |-> {},
           rows |-> {}, calm |-> FALSE]

(* The index never mixes the vectors of two models.                        *)
FindexTypeOK ==
    /\ \A d \in Doc : docs[d].version \in Stamp /\ docs[d].mtime \in Stamp /\ docs[d].lines \in 0..MaxLines
    /\ index.rows \subseteq Row /\ (~index.whole => index.rows = {})
    /\ \A r, s \in index.rows : r.embedder = s.embedder
    /\ \A p \in Finder : find[p].pc \in {"none", "walk", "write"} /\ find[p].rows \subseteq Row
    /\ blurred \subseteq Doc /\ writes \in Stamp /\ finds \in 0..MaxFinds

FindexInit ==
    /\ docs = [d \in Doc |-> [version |-> 0, lines |-> MaxLines, mtime |-> 0]]
    /\ index = Unreadable
    /\ find = [p \in Finder |-> NoFind]
    /\ writes = 0 /\ finds = 0 /\ blurred = {}

-----------------------------------------------------------------------------
(***************************************************************************)
(* chunk_file: lines are read into a buffer, from lo on; a full buffer     *)
(* becomes a chunk and keeps its last lines for the next.  `from' is the   *)
(* line_start the chunk will have.                                         *)
(***************************************************************************)
Chunk(r, i) == [id |-> Cardinality(r.out), from |-> r.from, first |-> r.lo, last |-> i]

Flush(r, i, cut) ==
    LET out == r.out \cup {Chunk(r, i)} IN
    IF i - r.lo + 1 > cut.overlap
      THEN [lo |-> i - cut.overlap + 1, from |-> i - cut.overlap + 1, out |-> out]
      ELSE [lo |-> i + 1, from |-> r.from, out |-> out]

AfterLine(cut) ==
    LET f[i \in 0..MaxLines] ==
          IF i = 0 THEN [lo |-> 1, from |-> 1, out |-> {}]
          ELSE IF i - f[i - 1].lo + 1 >= cut.size THEN Flush(f[i - 1], i, cut) ELSE f[i - 1]
    IN f

ChunkFile(lines, cut) ==
    LET r == AfterLine(cut)[lines] IN
    IF r.lo > lines THEN r.out ELSE r.out \cup {Chunk(r, lines)}

-----------------------------------------------------------------------------
Doing(p, pc) == find[p].pc = pc

(* Files change at any time, also twice within a second.                   *)
Write(d, n) ==
    /\ writes < MaxWrites /\ writes' = writes + 1
    /\ \E same \in BOOLEAN :
         /\ docs' = [docs EXCEPT ![d] = [version |-> writes + 1, lines |-> n,
                                         mtime |-> IF same THEN @.mtime ELSE writes + 1]]
         /\ blurred' = IF same THEN blurred \cup {d} ELSE blurred \ {d}
    /\ find' = [p \in Finder |-> [find[p] EXCEPT !.calm = FALSE]]
    /\ UNCHANGED <<index, finds>>

(* Entries of another model are left behind.                               *)
StartFind(p, e, cut) ==
    /\ Doing(p, "none") /\ finds < MaxFinds /\ finds' = finds + 1
    /\ find' = [find EXCEPT ![p] = [pc |-> "walk", embedder |-> e, cut |-> cut, pending |-> Doc,
                   cache |-> {r \in index.rows : r.embedder = e}, doc |-> NoDoc, mtime |-> 0,
                   tasks |-> {}, rows |-> {}, calm |-> TRUE]]
    /\ UNCHANGED <<docs, index, writes, blurred>>

(* The mtime is taken first, the lines are read later.                     *)
VisitDoc(p, d) ==
    /\ Doing(p, "walk") /\ find[p].doc = NoDoc /\ d \in find[p].pending
    /\ find' = IF docs[d].lines = 0
                 THEN [find EXCEPT ![p].pending = @ \ {d}]
                 ELSE [find EXCEPT ![p].pending = @ \ {d}, ![p].mtime = docs[d].mtime, ![p].doc = d]
    /\ UNCHANGED <<docs, index, writes, finds, blurred>>

ReadDoc(p) ==
    /\ Doing(p, "walk") /\ find[p].doc # NoDoc
    /\ LET d == find[p].doc
           read == {[doc |-> d, id |-> c.id, from |-> c.from, last |-> c.last, mtime |-> find[p].mtime,
                     embedder |-> find[p].embedder, text |-> <<docs[d].version, c.first, c.last>>] :
                        c \in ChunkFile(docs[d].lines, find[p].cut)}
       IN find' = [find EXCEPT ![p].doc = NoDoc, ![p].mtime = 0, ![p].tasks = @ \cup read]
    /\ UNCHANGED <<docs, index, writes, finds, blurred>>

Walked(p) == Doing(p, "walk") /\ find[p].doc = NoDoc /\ find[p].pending = {}

(* Fault: the line range decides, whatever the file's age.                 *)
HitsByRange(p, t) ==
    {r \in find[p].cache : r.doc = t.doc /\ r.id = t.id /\ r.from = t.from /\ r.last = t.last}

(* The cache is looked up by path and chunk, then compared.                *)
Hits(p, t) ==
    {r \in find[p].cache : /\ r.doc = t.doc /\ r.id = t.id
                           /\ r.mtime = t.mtime /\ r.from = t.from /\ r.last = t.last}

(* Workers take the chunks in any order.  A failed embedding leaves the    *)
(* chunk out.                                                              *)
Embed(p, t) ==
    /\ Walked(p) /\ t \in find[p].tasks
    /\ \/ /\ Hits(p, t) # {}
          /\ \E r \in Hits(p, t) : find' = [find EXCEPT ![p].tasks = @ \ {t}, ![p].rows = @ \cup {r}]
       \/ /\ Hits(p, t) = {}
          /\ find' = [find EXCEPT ![p].tasks = @ \ {t}, ![p].rows = @ \cup {t}]
       \/ /\ Hits(p, t) = {}
          /\ find' = [find EXCEPT ![p].tasks = @ \ {t}, ![p].calm = FALSE]
    /\ UNCHANGED <<docs, index, writes, finds, blurred>>

(* The index is opened, which empties it, and then written.                *)
OpenIndex(p) ==
    /\ Walked(p) /\ find[p].tasks = {}
    /\ index' = Unreadable
    /\ find' = [find EXCEPT ![p].pc = "write"]
    /\ UNCHANGED <<docs, writes, finds, blurred>>

(* Over a longer text that another run wrote meanwhile, its end stays.     *)
WriteIndex(p) ==
    /\ Doing(p, "write")
    /\ \/ index' = [whole |-> TRUE, rows |-> find[p].rows]
       \/ index.whole /\ index' = Unreadable
    /\ find' = [find EXCEPT ![p] = NoFind]
    /\ UNCHANGED <<docs, writes, finds, blurred>>

KillFind(p) ==
    /\ ~Doing(p, "none")
    /\ find' = [find EXCEPT ![p] = NoFind]
    /\ index' \in {index} \cup (IF Doing(p, "write") THEN {Unreadable} ELSE {})
    /\ UNCHANGED <<docs, writes, finds, blurred>>

FindexNext ==
    \/ \E d \in Doc, n \in 0..MaxLines : Write(d, n)
    \/ \E p \in Finder :
         \/ \E e \in Embedder, cut \in Cut : StartFind(p, e, cut)
         \/ \E d \in Doc : VisitDoc(p, d)
         \/ \E t \in find[p].tasks : Embed(p, t)
         \/ ReadDoc(p) \/ OpenIndex(p) \/ WriteIndex(p) \/ KillFind(p)

FindexSpec == FindexInit /\ [][FindexNext]_findexVars

-----------------------------------------------------------------------------
(* The reference: chunk k starts one step after chunk k-1, and together    *)
(* they reach the end of the file.                                         *)
Chunks(lines, cut) ==
    LET step == cut.size - cut.overlap
        first(k) == 1 + k * step
    IN {[id |-> k, from |-> first(k), first |-> first(k),
         last |-> IF first(k) + cut.size - 1 <= lines THEN first(k) + cut.size - 1 ELSE lines] :
            k \in {j \in 0..lines : first(j) <= lines /\ (j > 0 => first(j - 1) + cut.size - 1 <= lines)}}

RowsOf(d, e, cut) ==
    {[doc |-> d, id |-> c.id, from |-> c.from, last |-> c.last, mtime |-> docs[d].mtime,
      embedder |-> e, text |-> <<docs[d].version, c.first, c.last>>] : c \in Chunks(docs[d].lines, cut)}

(* A run in which no file changed and no embedding failed leaves an index  *)
(* of the files as they are: every chunk once, each with the vector of its *)
(* own lines, whatever runs, models, chunk sizes, kills and failures came  *)
(* before it or go on beside it; except files that were rewritten within a *)
(* second (the cache hit of findex's main).                                *)
RerunIsExact ==
    [][\A p \in Finder :
         WriteIndex(p) /\ find[p].calm /\ index'.whole =>
           {r \in index'.rows : r.doc \notin blurred}
             = UNION {RowsOf(d, find[p].embedder, find[p].cut) : d \in Doc \ blurred}]_findexVars
=============================================================================
