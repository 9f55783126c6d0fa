-------------------------------- MODULE Files --------------------------------
(***************************************************************************)
(* The files of programs: the list of open files of le_filesys.c with its  *)
(* cache of the last one used, and the commands of svc_file_func           *)
(* (le_syscall.c) that use them.                                           *)
(*                                                                         *)
(* A program names a file by the address of its variable of type File.     *)
(* The list, newest first, has an entry for each file opened and not yet   *)
(* closed; nothing prevents two entries for the same address.  Entries are *)
(* known by the address malloc gave them, which free gives back for use.   *)
(* A file is its length; what a stream has not written yet is dirty.       *)
(***************************************************************************)
EXTENDS Lists, FiniteSets, FiniteSetsExt

CONSTANTS
  Descriptors,  \* addresses of File variables
  Names,        \* file names that programs use
  TempNames,    \* file names that mkstemp makes
  Programs,     \* how many programs run one inside another
  Pointers,     \* addresses malloc may return; bounds the open files
  MaxLen        \* bound: length of files and position of streams

NULL == 0

ASSUME DescriptorAssumption == Descriptors \subseteq Nat \ {0}
ASSUME NameAssumption == Names \intersect TempNames = {}
ASSUME BoundAssumption ==
  Programs \in Nat \ {0} /\ NULL \notin Pointers /\ MaxLen \in Nat
ASSUME FiniteAssumption == IsFiniteSet(Names \union TempNames) /\ IsFiniteSet(Pointers)

VARIABLES
  fd_list,      \* open files, newest first
  last_m2file,  \* cache: descriptor last used, 0 if none
  last_fd,      \* cache: its entry
  disk,         \* the file each name stands for, 0 if none
  size,         \* length of each file
  running,      \* module of the program that runs, 0 when all have ended
  res,          \* result of the last command: 0 is done
  status,       \* "run", "error" (le_error) or "crash" (NULL used)
  by            \* history: descriptor the last command was for, 0 if none

cache == <<last_m2file, last_fd>>
store == <<disk, size>>
vars == <<fd_list, cache, store, running, res, status, by>>

AllNames == Names \union TempNames
Inodes == 1 .. Cardinality(AllNames) + Cardinality(Pointers)

-----------------------------------------------------------------------------
(* The list and the cache                                                  *)

\* The first entry in a list that is open for m2, the newest.
IsOpen(list, m2) == \E i \in DOMAIN list : list[i].m2file = m2
Newest(list, m2) ==
  CHOOSE i \in DOMAIN list :
    list[i].m2file = m2 /\ \A j \in 1 .. i - 1 : list[j].m2file # m2

\* The loop of fs_find_fd
Search(list, m2) == IF IsOpen(list, m2) THEN list[Newest(list, m2)].ptr ELSE NULL

\* Mutant: the cache is not asked for the descriptor it is for.
FindAnyCached(m2) == IF last_fd # NULL THEN last_fd ELSE Search(fd_list, m2)

\* fs_find_fd
Find(m2) == IF m2 = last_m2file THEN last_fd ELSE Search(fd_list, m2)

\* An entry is found, and is still one.
Found(m2) == \E i \in DOMAIN fd_list : fd_list[i].ptr = Find(m2)

Position(p) == CHOOSE i \in DOMAIN fd_list : fd_list[i].ptr = p
EntryAt(p) == fd_list[Position(p)]

\* fs_cache_last
Cache(p, m2) == last_fd' = p /\ last_m2file' = IF p = NULL THEN 0 ELSE m2

\* Mutant: fs_close leaves the cache as it is.
ForgetNot == UNCHANGED cache

\* fs_cache_last(NULL)
Forget == Cache(NULL, 0)

Busy == {fd_list[i].ino : i \in DOMAIN fd_list} \union {disk[n] : n \in AllNames}
FreshInode == CHOOSE i \in Inodes : i \notin Busy

\* What fclose and fseek write.
Flushed(sz, e) ==
  IF e.dirty THEN [sz EXCEPT ![e.ino] = Max({@, e.pos})] ELSE sz

-----------------------------------------------------------------------------
(* The commands                                                            *)

Running == status = "run" /\ running # 0

\* A new entry at the head of the list.
Opened(m2, name, temp, write, ino) ==
  \E p \in Pointers :
    /\ \A i \in DOMAIN fd_list : fd_list[i].ptr # p
    /\ fd_list' = <<[ptr |-> p, m2file |-> m2, fname |-> name, temp |-> temp,
                     owner |-> running, write |-> write, ino |-> ino,
                     pos |-> 0, dirty |-> FALSE]>> \o fd_list
    /\ Cache(p, m2)
    /\ res' = 0

\* 0 Create, and 2 Lookup with an empty name: fs_open makes a temporary file.
Create(m2) ==
  /\ Running
  /\ \E t \in TempNames :
       /\ disk[t] = 0
       /\ disk' = [disk EXCEPT ![t] = FreshInode]
       /\ size' = [size EXCEPT ![FreshInode] = 0]
       /\ Opened(m2, t, TRUE, TRUE, FreshInode)
  /\ UNCHANGED <<running, status>>

\* 2 Lookup: fs_open for a file that is there.  With new, fopen truncates it.
LookupOld(m2, name, new) ==
  /\ Running
  /\ disk[name] # 0
  /\ size' = IF new THEN [size EXCEPT ![disk[name]] = 0] ELSE size
  /\ Opened(m2, name, FALSE, new, disk[name])
  /\ UNCHANGED <<disk, running, status>>

\* 2 Lookup: fs_open for a new file.
LookupNew(m2, name) ==
  /\ Running
  /\ disk[name] = 0
  /\ disk' = [disk EXCEPT ![name] = FreshInode]
  /\ size' = [size EXCEPT ![FreshInode] = 0]
  /\ Opened(m2, name, FALSE, TRUE, FreshInode)
  /\ UNCHANGED <<running, status>>

\* 2 Lookup: there is no such file, and none is to be made.
LookupFails(m2, name) ==
  /\ Running
  /\ disk[name] = 0
  /\ res' = 1
  /\ UNCHANGED <<fd_list, cache, store, running, status>>

\* Mutant: fs_close_int keeps the files of temporary entries.
UnlinkedNot(es) == disk

\* fs_close_int unlinks the names of temporary entries.
Unlinked(es) ==
  [n \in AllNames |-> IF \E e \in es : e.temp /\ e.fname = n THEN 0 ELSE disk[n]]

\* 1 Close
Close(m2) ==
  /\ Running
  /\ LET p == Find(m2)
     IN IF ~ Found(m2)
        THEN res' = 1 /\ UNCHANGED <<fd_list, store>>
        ELSE LET e == EntryAt(p)
             IN /\ size' = Flushed(size, e)
                /\ disk' = Unlinked({e})
                /\ fd_list' = RemoveAt(fd_list, Position(p))
                /\ res' = IF e.temp /\ disk[e.fname] = 0 THEN 1 ELSE 0
  /\ Forget
  /\ UNCHANGED <<running, status>>

\* Mutant: only the newest file of the program is closed.
OwnedFirst(m) ==
  IF \E i \in DOMAIN fd_list : fd_list[i].owner = m
  THEN {fd_list[CHOOSE i \in DOMAIN fd_list : fd_list[i].owner = m]} ELSE {}

\* The entries that fs_close_all(m) closes.
OwnedBy(m) == {e \in ToSet(fd_list) : e.owner = m}

\* The end of le_execute: fs_close_all for the program that ends.
EndProgram ==
  /\ Running
  /\ LET own == OwnedBy(running)
     IN /\ size' = [i \in Inodes |->
                      Max({size[i]} \union {e.pos : e \in {f \in own : f.ino = i /\ f.dirty}})]
        /\ disk' = Unlinked(own)
        /\ fd_list' = Only(fd_list, ToSet(fd_list) \ own)
  /\ Forget
  /\ running' = running - 1
  /\ UNCHANGED <<res, status>>

\* SVC 1: another program starts.
StartProgram ==
  /\ Running
  /\ running < Programs
  /\ running' = running + 1
  /\ UNCHANGED <<fd_list, cache, store, res, status>>

\* What the other commands have in common: the entry is found and cached; e is
\* what becomes of it.
Use(m2, e) ==
  /\ fd_list' = [fd_list EXCEPT ![Position(Find(m2))] = e]
  /\ Cache(Find(m2), m2)
  /\ UNCHANGED <<running, status>>

Used(m2) == EntryAt(Find(m2))

\* "Invalid M2 file descriptor", for all commands but Close, Create and Lookup;
\* worse if it is the cache that answers, with NULL or an entry that was freed.
NotOpen(m2) ==
  /\ Running
  /\ ~ Found(m2)
  /\ status' = IF m2 = last_m2file THEN "crash" ELSE "error"
  /\ UNCHANGED <<fd_list, cache, store, running, res>>

\* 3 Rename to a name: res is TRUE, that is 0, when rename has failed.
Rename(m2, name) ==
  /\ Running
  /\ Found(m2)
  /\ LET e == Used(m2)
     IN /\ Use(m2, [e EXCEPT !.fname = name, !.temp = FALSE])
        /\ IF disk[e.fname] # 0
           THEN /\ disk' = [n \in AllNames |->
                              IF n = name THEN disk[e.fname]
                              ELSE IF n = e.fname THEN 0 ELSE disk[n]]
                /\ res' = 1
           ELSE res' = 0 /\ UNCHANGED disk
  /\ UNCHANGED size

\* 3 Rename to no name
MakeTemporary(m2) ==
  /\ Running
  /\ Found(m2)
  /\ Use(m2, [Used(m2) EXCEPT !.temp = TRUE])
  /\ res' = 0
  /\ UNCHANGED store

\* 4 SetRead, 5 SetWrite, 6 SetModify: fdopen makes a stream that nobody uses,
\* and its outcome is not the result.  9 GetPos of a sound stream, and 10 Length
\* leave the files alone too.
SetMode(m2) ==
  /\ Running
  /\ Found(m2)
  /\ Use(m2, Used(m2))
  /\ res' = 1
  /\ UNCHANGED store

\* 8 SetPos: fseek writes what is dirty.
SetPos(m2, pos) ==
  /\ Running
  /\ Found(m2)
  /\ Use(m2, [Used(m2) EXCEPT !.pos = pos, !.dirty = FALSE])
  /\ size' = Flushed(size, Used(m2))
  /\ res' = 0
  /\ UNCHANGED disk

\* Mutant: a read that is short counts as a whole one.
GotAll(e, n) == IF e.write THEN 0 ELSE n

\* What fread gets of n bytes.
Got(e, n) == IF e.write THEN 0 ELSE Min({n, Max({0, size[e.ino] - e.pos})})

\* 13 ReadWord, 15 ReadChar: n bytes, or what is left of them.
Read(m2, n) ==
  /\ Running
  /\ Found(m2)
  /\ LET e == Used(m2)
     IN /\ Use(m2, [e EXCEPT !.pos = @ + Got(e, n)])
        /\ res' = IF Got(e, n) = n THEN 0 ELSE 1
  /\ UNCHANGED store

\* 14 WriteWord, 16 WriteChar: into the buffer of the stream.
Write(m2, n) ==
  /\ Running
  /\ Found(m2)
  /\ LET e == Used(m2)
     IN IF e.write
        THEN /\ e.pos + n <= MaxLen
             /\ Use(m2, [e EXCEPT !.pos = @ + n, !.dirty = TRUE])
             /\ res' = 0
        ELSE Use(m2, e) /\ res' = 1
  /\ UNCHANGED store

\* The C library writes a full buffer.
Flush ==
  /\ Running
  /\ \E i \in DOMAIN fd_list :
       /\ fd_list[i].dirty
       /\ size' = Flushed(size, fd_list[i])
       /\ fd_list' = [fd_list EXCEPT ![i].dirty = FALSE]
  /\ UNCHANGED <<cache, disk, running, res, status>>

Init ==
  /\ fd_list = <<>>
  /\ last_m2file = 0
  /\ last_fd = NULL
  /\ disk = [n \in AllNames |-> 0]
  /\ size = [i \in Inodes |-> 0]
  /\ running = 1
  /\ res = 0
  /\ status = "run"
  /\ by = 0

Command(m2) ==
  \/ Create(m2)
  \/ Close(m2)
  \/ \E name \in Names :
       \/ \E new \in BOOLEAN : LookupOld(m2, name, new)
       \/ LookupNew(m2, name)
       \/ LookupFails(m2, name)
       \/ Rename(m2, name)
  \/ NotOpen(m2)
  \/ MakeTemporary(m2)
  \/ SetMode(m2)
  \/ \E pos \in 0 .. MaxLen : SetPos(m2, pos)
  \/ \E n \in 1 .. 2 : Read(m2, n) \/ Write(m2, n)

Next ==
  \/ \E m2 \in Descriptors : Command(m2) /\ by' = m2
  \/ (StartProgram \/ EndProgram \/ Flush) /\ by' = 0

Spec == Init /\ [][Next]_vars

-----------------------------------------------------------------------------
(* Properties                                                              *)

\* Entries of the list for given variables.
EntryFor(vs) ==
  [ptr : Pointers, m2file : vs, fname : AllNames, temp : BOOLEAN, owner : 1 .. Programs,
   write : BOOLEAN, ino : Inodes, pos : 0 .. MaxLen, dirty : BOOLEAN]
Entry == EntryFor(Descriptors)

TypeOK ==
  /\ fd_list \in Seq(Entry)
  /\ last_m2file \in Descriptors \union {0}
  /\ last_fd \in Pointers \union {NULL}
  /\ disk \in [AllNames -> Inodes \union {0}]
  /\ size \in [Inodes -> 0 .. MaxLen]
  /\ running \in 0 .. Programs
  /\ res \in 0 .. 1
  /\ status \in {"run", "error", "crash"}
  /\ by \in Descriptors \union {0}

\* The cache (le_filesys.c:33) never holds an entry that was closed, or one that
\* a later Lookup with the same variable has hidden: fs_find_fd finds what it
\* would find without it.
CacheSound ==
  /\ status # "crash"
  /\ last_fd = NULL <=> last_m2file = 0
  /\ last_fd # NULL => last_fd = Search(fd_list, last_m2file)

\* "A temporary file will hereby be destroyed" (FileSystem.DEF:90): a file with a
\* name from mkstemp is on the disk only while it is open as a temporary one,
\* through closing, renaming there and back, and the end of programs.
TempsDeleted ==
  \A t \in TempNames :
    disk[t] # 0 => \E i \in DOMAIN fd_list : fd_list[i].temp /\ fd_list[i].fname = t

\* Every open file belongs to a program that has not ended.
NoOrphanFiles == \A i \in DOMAIN fd_list : fd_list[i].owner \in 1 .. running

=============================================================================
