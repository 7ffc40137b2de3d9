------------------------------ MODULE FileTree ------------------------------
(***************************************************************************)
(* The tree of directories and files (process/filesystem.c) and the        *)
(* objects that walk through it: reference counts, names, the order of the *)
(* lists and the position of opened directories. FileContent models what   *)
(* is in a file. A path is a sequence of components. A component, or a new *)
(* name, is a buffer of bytes without the NULs at its end; stored as a     *)
(* name it reads as its text, the bytes up to the first NUL.               *)
(***************************************************************************)
EXTENDS Integers, FiniteSets, SequencesExt

CONSTANTS Node,       \* places for directory and file objects
          Root,       \* fileSystemRoot
          Name,       \* buffers that programs pass as names; "" holds only NULs
          Text,       \* Text[c]: what c reads as once it is stored
          Opened,     \* places for openedFile and openedDirectory objects
          Paths,      \* paths that programs use
          Archive,    \* paths of the files in the initial file system
          MaxHeld,    \* bound on the handles of files and directories
          None,       \* NULL
          Dangling    \* a pointer to memory that was freed

FileTreeAssumption ==
    /\ Root \in Node /\ MaxHeld \in Nat /\ IsFiniteSet(Node)
    /\ {"", ".", ".."} \subseteq Name /\ None \notin Name
    /\ Text \in [Name -> Name] /\ \A c \in Name : Text[Text[c]] = Text[c]
    /\ \A c \in {"", ".", ".."} : Text[c] = c

VARIABLES node,     \* the objects
          opened,   \* the opened objects: the node and the current entry
          failed    \* "linked": an assertion halts the kernel; "freed", "stale": freed
                    \* memory is used ("full", in a search only: see Search)

vars == <<node, opened, failed>>

\* held counts the handles of an object, drift the references that were
\* taken and never given back, less those that were given back and never
\* taken. next is the link of an object that was removed from its list. cut is
\* a history variable: the buffer with the name had a NUL between other bytes.
Free == [kind |-> "free", parent |-> None, name |-> None, cut |-> FALSE, files |-> <<>>,
         dirs |-> <<>>, ref |-> 0, held |-> 0, drift |-> 0, next |-> None]
Closed == [node |-> None, pos |-> None]

Mem == [node |-> node, opened |-> opened, failed |-> failed]
Becomes(m) == node' = m.node /\ opened' = m.opened /\ failed' = m.failed

Alive(m, n) == m.node[n].kind # "free"
Fail(m, why) == [m EXCEPT !.failed = IF @ = "none" THEN why ELSE @]

-----------------------------------------------------------------------------
(* Lists and reference counts.                                             *)

ListOf(m, d, kind) == IF kind = "file" THEN m.node[d].files ELSE m.node[d].dirs

\* What follows n in its list, None at the end.
After(m, n) ==
    IF m.node[n].parent = None THEN m.node[n].next
    ELSE LET s == ListOf(m, m.node[n].parent, m.node[n].kind)
             i == CHOOSE j \in DOMAIN s : s[j] = n
         IN  IF i < Len(s) THEN s[i + 1] ELSE None

\* The link that stays in n matters only to a directory that is being read.
Unlink(m, n) ==
    LET d == m.node[n].parent
        rest(s) == SelectSeq(s, LAMBDA x : x # n)
        walked == \E h \in Opened : m.opened[h].pos # None
    IN  [m EXCEPT !.node[n].next = IF walked THEN After(m, n) ELSE None, !.node[n].parent = None,
                  !.node[d].files = rest(@), !.node[d].dirs = rest(@)]

Using(m, n) == {h \in Opened : m.opened[h].node = n}

AddRef(m, n) == [m EXCEPT !.node[n].ref = @ + 1]
Drop(m, n) == [m EXCEPT !.node[n].ref = @ - 1]

\* Pointers to n are dangling from now on.
Freed(m, n) ==
    [m EXCEPT !.node = [x \in Node |-> IF x = n THEN Free
                                       ELSE IF @[x].next = n THEN [@[x] EXCEPT !.next = Dangling]
                                       ELSE @[x]],
              !.opened = [h \in Opened |-> IF @[h].pos = n THEN [@[h] EXCEPT !.pos = Dangling]
                                           ELSE @[h]]]

MutShutdown(m, n) ==
    IF m.node[n].parent = None THEN m ELSE Unlink(m, n)

\* __directoryShutdown, __fileShutdown
Shutdown(m, n) ==
    IF m.node[n].parent = None THEN m ELSE Drop(Unlink(m, n), n)

\* __directoryDestroy, __fileDestroy of an object without references; its
\* children are shut down in order.
Destroy(m, n) ==
    IF m.node[n].parent # None THEN Fail(m, "linked")
    ELSE IF m.node[n].held > 0 \/ Using(m, n) # {} THEN Fail(m, "freed")
    ELSE Freed(FoldLeft(Shutdown, m, m.node[n].files \o m.node[n].dirs), n)

\* Objects without references are destroyed, which may release others.
Settled(m) ==
    LET doomed(a) == {n \in Node : Alive(a, n) /\ a.node[n].ref = 0}
        once(a, i) == IF a.failed # "none" \/ doomed(a) = {} THEN a
                      ELSE Destroy(a, CHOOSE n \in doomed(a) : TRUE)
    IN  FoldLeft(once, m, [i \in 1..Cardinality(Node) |-> i])

Release(m, n) == Settled(Drop(m, n))

-----------------------------------------------------------------------------
(* Searching and creating.                                                 *)

\* stringIsEqual of a stored name and a buffer: all bytes of the buffer are
\* compared, so one with a NUL between others equals no name, not even the one it
\* is stored as. An entry without a name equals an empty buffer.
Equal(name, nm) == name = nm \/ (name = None /\ nm = "")

NodeNamed(m, s, nm) == {n \in Range(s) : Equal(m.node[n].name, nm)}

Unused(m) == {n \in Node : ~Alive(m, n)}

\* directoryCreate, fileCreate: one reference for the parent, one for the caller.
Create(m, d, kind, nm) ==
    LET n == CHOOSE x \in Unused(m) : TRUE
    IN  [m EXCEPT !.node[n] = [Free EXCEPT !.kind = kind, !.parent = d, !.ref = 2,
                                           !.name = Text[nm], !.cut = Text[nm] # nm],
                  !.node[d].files = IF kind = "file" THEN Append(@, n) ELSE @,
                  !.node[d].dirs = IF kind = "dir" THEN Append(@, n) ELSE @]

\* What stands behind a component: behind the last one, what is in the memory.
Behind(path, i, tail) == IF i < Len(path) THEN "/" ELSE tail

Reserved(nm) == nm \in {".", ".."}

\* Component i of path, from directory w.dir; None when the search ends. The
\* code compares ".." with what stands behind the component. The caller's
\* reference to a directory that was created is not given back.
Step(w, path, i, create, tail) ==
    LET m == w.mem
        d == w.dir
        nm == path[i]
        found == NodeNamed(m, m.node[d].dirs, nm)
        made == Create(m, d, "dir", nm)
        new == CHOOSE n \in Node : ~Alive(m, n) /\ Alive(made, n)
    IN  IF d = None THEN w
        ELSE IF Reserved(nm)
        THEN [w EXCEPT !.dir = IF Behind(path, i, tail) = ".." /\ m.node[d].parent # None
                               THEN m.node[d].parent ELSE d]
        ELSE IF found # {} THEN [w EXCEPT !.dir = CHOOSE n \in found : TRUE]
        ELSE IF ~create \/ NodeNamed(m, m.node[d].files, nm) # {} THEN [w EXCEPT !.dir = None]
        ELSE IF Unused(m) = {} THEN [mem |-> Fail(m, "full"), dir |-> None]
        ELSE [mem |-> [made EXCEPT !.node[new].drift = 1], dir |-> new]

Walk(m, d, path, create, tail) ==
    FoldLeft(LAMBDA w, i : Step(w, path, i, create, tail), [mem |-> m, dir |-> d],
             [i \in DOMAIN path |-> i])

\* A handle of n; the caller of the search gives its reference back.
Hold(m, n) == [AddRef(m, n) EXCEPT !.node[n].held = @ + 1]

SearchDirectory(m, d, path, create, tail) ==
    LET w == Walk(m, d, path, create, tail)
    IN  IF w.dir = None THEN w.mem ELSE Hold(w.mem, w.dir)

\* A new file must not have the name of a directory.
NameFree(m, d, nm) == NodeNamed(m, m.node[d].dirs, nm) = {}

SearchFile(m, d, path, create) ==
    LET w == Walk(m, d, Front(path), create, "/")
        nm == Last(path)
        found == NodeNamed(w.mem, w.mem.node[w.dir].files, nm)
        made == Create(w.mem, w.dir, "file", nm)
        new == CHOOSE n \in Node : ~Alive(w.mem, n) /\ Alive(made, n)
    IN  IF path = <<>> THEN m
        ELSE IF w.dir = None \/ Reserved(nm) THEN w.mem
        ELSE IF found # {} THEN Hold(w.mem, CHOOSE n \in found : TRUE)
        ELSE IF ~create \/ ~NameFree(w.mem, w.dir, nm) THEN w.mem
        ELSE IF Unused(w.mem) = {} THEN Fail(w.mem, "full")
        ELSE Drop(Hold(made, new), new)

\* fileSystemInit: the kernel does not keep the files it creates.
Loaded(m, path) ==
    LET a == SearchFile(m, Root, path, TRUE)
        n == CHOOSE x \in Node : a.node[x].held = 1
    IN  Drop([a EXCEPT !.node[n].held = 0], n)

Init ==
    LET empty == [node |-> [n \in Node |-> IF n = Root THEN [Free EXCEPT !.kind = "dir", !.ref = 1]
                                           ELSE Free],
                  opened |-> [h \in Opened |-> Closed], failed |-> "none"]
        m == FoldLeft(Loaded, empty, Archive)
    IN  node = m.node /\ opened = m.opened /\ failed = m.failed

-----------------------------------------------------------------------------
(* System calls.                                                           *)

Running == failed = "none"
HeldNodes == {n \in Node : node[n].held > 0}
\* Only so many handles are explored.
Bounded == FoldFunction(+, 0, [n \in Node |-> node[n].held]) < MaxHeld

\* fileSystemIsValidDirectory, fileSystemIsValidFile: the object behind a
\* handle, or the current entry of an opened directory.
Entries == {opened[h].pos : h \in {g \in Opened : opened[g].node # None
                                                  /\ node[opened[g].node].kind = "dir"}}
Directories == {n \in HeldNodes \cup (Entries \ {None, Dangling}) : node[n].kind = "dir"}

\* Without a valid directory the search starts at the root. A search that would
\* create more objects than there are places is not explored.
Search(d, m) ==
    /\ Running /\ Bounded /\ d \in Directories \cup {Root}
    /\ m.failed # "full" /\ Becomes(m)

\* SYSCALL_FILESYSTEM_SEARCH_FILE, SYSCALL_FILESYSTEM_SEARCH_DIRECTORY
FileSearch(d, path, create) == Search(d, SearchFile(Mem, d, path, create))
DirectorySearch(d, path, create, tail) ==
    Search(d, SearchDirectory(Mem, d, path, create, tail))

\* The entry of an opened directory is used after it was freed.
UseFreedEntry == Running /\ Dangling \in Entries /\ Becomes(Fail(Mem, "stale"))

\* fileOpen, directoryOpen
Open(n, h) ==
    /\ Running /\ opened[h] = Closed
    /\ n \in HeldNodes \cup (Entries \ {None, Dangling})
    /\ Becomes([AddRef(Mem, n) EXCEPT !.opened[h] = [node |-> n, pos |-> None]])

\* __openedFileDestroy, __openedDirectoryDestroy: the entry is released as well.
CloseOpened(h) ==
    LET n == opened[h].node
        pos == opened[h].pos
        closed == [Mem EXCEPT !.opened[h] = Closed]
    IN  /\ Running /\ opened[h] # Closed
        /\ Becomes(IF pos = Dangling THEN Fail(closed, "stale")
                   ELSE IF pos = None THEN Release(closed, n)
                   ELSE Release(Release([closed EXCEPT !.node[pos].drift = @ - 1], pos), n))

CloseHandle(n) ==
    /\ Running /\ node[n].held > 0
    /\ Becomes(Release([Mem EXCEPT !.node[n].held = @ - 1], n))

Delete(n) ==
    /\ Running /\ node[n].held > 0
    /\ Becomes(Settled(Shutdown(Mem, n)))

MutValidFilename(n, nm) ==
    /\ ~Reserved(nm)
    /\ node[n].parent # None =>
          NodeNamed(Mem, node[node[n].parent].files, nm) \subseteq {n}

\* __isValidFilename
ValidFilename(n, nm) ==
    /\ ~Reserved(nm)
    /\ node[n].parent # None =>
          LET d == node[node[n].parent]
          IN  NodeNamed(Mem, d.files \o d.dirs, nm) \subseteq {n}

\* __fileWrite, __directoryWrite: an empty buffer takes the name away.
Rename(n, nm) ==
    /\ Running /\ node[n].held > 0
    /\ nm = "" \/ ValidFilename(n, nm)
    /\ node' = [node EXCEPT ![n].name = IF nm = "" THEN None ELSE Text[nm],
                            ![n].cut = Text[nm] # nm]
    /\ UNCHANGED <<opened, failed>>

\* The first entry with a name from n on; None at the end of the list.
Named(n) ==
    LET once(x, i) == IF x \in {None, Dangling} THEN x
                      ELSE IF node[x].name # None THEN x ELSE After(Mem, x)
    IN  FoldLeft(once, n, [i \in 1..Cardinality(Node) |-> i])

First(s) == IF s = <<>> THEN None ELSE s[1]

\* __openedDirectoryRead: the files, then the directories.
NextEntry(h) ==
    LET d == node[opened[h].node]
        pos == opened[h].pos
        file == IF pos = None THEN Named(First(d.files)) ELSE Named(After(Mem, pos))
        dir == IF pos # None /\ node[pos].kind = "dir" THEN Named(After(Mem, pos))
               ELSE Named(First(d.dirs))
    IN  IF pos = Dangling THEN Dangling
        ELSE IF (pos = None \/ node[pos].kind = "file") /\ file # None THEN file ELSE dir

ReadEntry(h) ==
    /\ Running /\ opened[h] # Closed /\ node[opened[h].node].kind = "dir"
    /\ Becomes(IF NextEntry(h) = Dangling THEN Fail(Mem, "stale")
               ELSE [Mem EXCEPT !.opened[h].pos = NextEntry(h)])

Next ==
    \/ \E d \in Node, path \in Paths, create \in BOOLEAN :
          \/ FileSearch(d, path, create)
          \/ \E tail \in {"end", ".."} : DirectorySearch(d, path, create, tail)
    \/ UseFreedEntry
    \/ \E n \in Node, h \in Opened : Open(n, h)
    \/ \E h \in Opened : CloseOpened(h) \/ ReadEntry(h)
    \/ \E n \in Node : CloseHandle(n) \/ Delete(n)
    \/ \E n \in Node, nm \in Name : Rename(n, nm)

Spec == Init /\ [][Next]_vars

-----------------------------------------------------------------------------
(* Properties                                                              *)

Pointer == Node \cup {None, Dangling}

\* Types of the objects and of what is opened.
TypeOK ==
    /\ node \in [Node -> [kind : {"free", "dir", "file"}, parent : Node \cup {None},
                          name : {Text[c] : c \in Name} \cup {None}, cut : BOOLEAN,
                          files : Seq(Node), dirs : Seq(Node),
                          ref : Nat, held : Nat, drift : Int, next : Pointer]]
    /\ opened \in [Opened -> [node : Node \cup {None}, pos : Pointer]]
    /\ failed \in {"none", "linked", "freed", "stale"}

LiveNodes == {n \in Node : node[n].kind # "free"}

\* The lists and the parent pointers agree, every object is in one list at
\* most, of its kind, and following the parents ends.
TreeSound ==
    /\ \A d \in LiveNodes : \A n \in Range(node[d].files) :
            node[n].kind = "file" /\ node[n].parent = d
    /\ \A d \in LiveNodes : \A n \in Range(node[d].dirs) :
            node[n].kind = "dir" /\ node[n].parent = d
    /\ \A n \in LiveNodes : node[n].parent # None =>
            LET d == node[node[n].parent]
            IN  n \in Range(IF node[n].kind = "file" THEN d.files ELSE d.dirs)
    /\ \A d \in LiveNodes : IsInjective(node[d].files) /\ IsInjective(node[d].dirs)
    /\ \A S \in (SUBSET LiveNodes) \ {{}} : \E n \in S : node[n].parent \notin S

SameName(a, b) ==
    /\ a # b /\ node[a].parent # None /\ node[a].parent = node[b].parent
    /\ node[a].name # None /\ node[a].name = node[b].name

\* Two objects in a directory have the same name only if one of them got it from a
\* buffer with a NUL between other bytes, whatever is created and renamed in which
\* order.
NamesUnique == \A a, b \in LiveNodes : SameName(a, b) => node[a].cut \/ node[b].cut

\* "check collision with other filenames", "check collision with directory names"
\* (filesystem.c:148, 155): no two objects in a directory have the same name.
NamesDistinct == \A a, b \in LiveNodes : ~SameName(a, b)

\* The count of an object is the number of its holders, up to drift.
RefsExact ==
    Running => \A n \in LiveNodes :
        node[n].ref = (IF node[n].parent # None THEN 1 ELSE 0) + (IF n = Root THEN 1 ELSE 0)
                      + node[n].held + Cardinality(Using(Mem, n)) + node[n].drift

\* An object that nobody refers to any more is gone.
NothingKept ==
    Running => \A n \in LiveNodes \ {Root} :
        node[n].parent # None \/ node[n].held > 0 \/ Using(Mem, n) # {} \/ node[n].drift # 0

\* An object is destroyed while somebody refers to it only after an opened directory
\* gave back a reference to its current entry that it had never taken.
EarlyByEnumeration ==
    failed \in {"linked", "freed"} =>
        \E n \in LiveNodes : node[n].ref = 0 /\ node[n].drift < 0

\* Every reference that a search takes is given back.
NoLeak == \A n \in Node : node[n].drift <= 0

\* An object is not destroyed while it is in a directory, as its destructor asserts.
DestroyedUnlinked == failed # "linked"

\* The current entry of an opened directory exists when it is used.
EntryExists == failed # "stale"

\* ".." in a path leads to the parent directory.
ParentFound ==
    \A d \in LiveNodes : node[d].kind = "dir" /\ node[d].parent # None =>
        Walk(Mem, d, <<"..">>, FALSE, "end").dir = node[d].parent

\* The objects form a tree in which every path names one object at most, up to
\* names with a NUL in them.
StructureSound == TypeOK /\ TreeSound /\ NamesUnique

\* An object is kept exactly as long as somebody refers to it, up to drift, and
\* none is destroyed early for another reason.
ObjectsKept == RefsExact /\ NothingKept /\ EarlyByEnumeration
====
