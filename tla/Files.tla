------------------------------- MODULE Files --------------------------------
(***************************************************************************)
(* Descriptors and RAM files of src/fs.rs.  There is one table for all     *)
(* processes, descriptors are numbered upwards and names are not kept: an  *)
(* open makes a new empty file.  Standard input is module Console.         *)
(*                                                                         *)
(* System calls run with interrupts masked, so each is one step.  Calls    *)
(* whose pointer, length or name is refused leave the table alone and are  *)
(* left out.                                                               *)
(***************************************************************************)
EXTENDS Integers, Sequences, FiniteSets, SequencesExt

CONSTANTS
  FirstFd,     \* where NEXT_FD starts, 4 in the code
  FileLimit,   \* 64 in the code
  Bytes,       \* bytes that programs write
  MaxWrite,    \* longest write, 8192 in the code
  HeapBytes,   \* bytes of file data that fit the heap
  MaxFd        \* bound on descriptors

ASSUME FilesAssumption ==
  /\ FirstFd \in Nat \ (0 .. 2) /\ MaxFd \in Nat /\ FirstFd <= MaxFd
  /\ FileLimit \in Nat /\ MaxWrite \in Nat /\ HeapBytes \in Nat

VARIABLES
  files,     \* FILES: contents by descriptor
  nextFd,    \* NEXT_FD
  ret,       \* what the last call returned
  stopped,   \* alloc_error halts
  named,     \* history: open descriptors of named files, not of /dev/null
  closed     \* history: descriptors that have been closed

filesVars == <<files, nextFd, ret, stopped, named, closed>>

EBADF == -9

EAGAIN == -11

EMFILE == -24

Fds == 0 .. MaxFd

Slices == BoundedSeq(Bytes, MaxWrite)

FilesInit ==
  /\ files = <<>>
  /\ nextFd = FirstFd
  /\ ret = 0
  /\ stopped = FALSE
  /\ named = {} /\ closed = {}

-----------------------------------------------------------------------------

\* Mutant: the lowest descriptor that is not in use.
InsertLowest(isNamed) ==
  /\ \E fd \in FirstFd .. MaxFd :
       /\ \A g \in FirstFd .. MaxFd : g \notin DOMAIN files => fd <= g
       /\ fd \notin DOMAIN files
       /\ files' = [g \in DOMAIN files \cup {fd} |->
                      IF g = fd THEN <<>> ELSE files[g]]
       /\ named' = IF isNamed THEN named \cup {fd} ELSE named
       /\ ret' = fd
  /\ UNCHANGED nextFd

\* NEXT_FD.fetch_add and FILES.insert of an empty file.
Insert(isNamed) ==
  /\ nextFd <= MaxFd
  /\ nextFd' = nextFd + 1
  /\ files' = [g \in DOMAIN files \cup {nextFd} |->
                 IF g = nextFd THEN <<>> ELSE files[g]]
  /\ named' = IF isNamed THEN named \cup {nextFd} ELSE named
  /\ ret' = nextFd

\* sys_open of /dev/null: no limit applies.
SysOpenNull ==
  /\ ~stopped
  /\ Insert(FALSE)
  /\ UNCHANGED <<stopped, closed>>

\* Mutant: the limit is not looked at.
SysOpenUnlimited ==
  /\ ~stopped
  /\ Insert(TRUE)
  /\ UNCHANGED <<stopped, closed>>

\* sys_open of any other name: refused with more than FileLimit entries.
SysOpen ==
  /\ ~stopped
  /\ \/ Cardinality(DOMAIN files) <= FileLimit /\ Insert(TRUE)
     \/ /\ Cardinality(DOMAIN files) > FileLimit
        /\ ret' = EMFILE /\ UNCHANGED <<files, nextFd, named>>
  /\ UNCHANGED <<stopped, closed>>

\* sys_close
SysClose(fd) ==
  /\ ~stopped
  /\ IF fd <= 2 \/ fd \notin DOMAIN files
     THEN ret' = EBADF /\ UNCHANGED <<files, named, closed>>
     ELSE /\ files' = [g \in DOMAIN files \ {fd} |-> files[g]]
          /\ named' = named \ {fd} /\ closed' = closed \cup {fd}
          /\ ret' = 0
  /\ UNCHANGED <<nextFd, stopped>>

\* sys_read of a descriptor above 0 copies from the start of the file, every time,
\* and returns how much; an empty file is EAGAIN.
SysRead(fd, len) ==
  /\ ~stopped
  /\ ret' = IF fd <= 2 \/ fd \notin DOMAIN files THEN EBADF
            ELSE IF files[fd] = <<>> THEN EAGAIN
            ELSE IF Len(files[fd]) < len THEN Len(files[fd]) ELSE len
  /\ UNCHANGED <<files, nextFd, stopped, named, closed>>

Stored == FoldSet(LAMBDA fd, n : n + Len(files[fd]), 0, DOMAIN files)

\* Mutant: writing replaces the contents.
WriteFdAnyReplaces(fd, slice) ==
  /\ ~stopped
  /\ fd > 2 /\ fd \in DOMAIN files
  /\ files' = [files EXCEPT ![fd] = slice]
  /\ ret' = Len(slice)
  /\ UNCHANGED <<nextFd, stopped, named, closed>>

\* Mutant: an unknown descriptor gets a file.
WriteFdAnyCreates(fd, slice) ==
  /\ ~stopped
  /\ fd > 2
  /\ files' = [g \in DOMAIN files \cup {fd} |->
                 IF g # fd THEN files[g]
                 ELSE IF g \in DOMAIN files THEN files[g] \o slice ELSE slice]
  /\ ret' = Len(slice)
  /\ UNCHANGED <<nextFd, stopped, named, closed>>

\* sys_write, write_fd_any: 1 and 2 are the serial port, 0 and unknown ones are
\* refused, a file is appended to, that of /dev/null too.  Without room in the
\* heap the allocator's error handler halts the machine.
WriteFdAny(fd, slice) ==
  /\ ~stopped
  /\ \/ /\ fd \in {1, 2}
        /\ ret' = Len(slice) /\ UNCHANGED <<files, stopped>>
     \/ /\ fd = 0 \/ (fd > 2 /\ fd \notin DOMAIN files)
        /\ ret' = EBADF /\ UNCHANGED <<files, stopped>>
     \/ /\ fd > 2 /\ fd \in DOMAIN files
        /\ Stored + Len(slice) <= HeapBytes
        /\ files' = [files EXCEPT ![fd] = @ \o slice]
        /\ ret' = Len(slice) /\ UNCHANGED stopped
     \/ /\ fd > 2 /\ fd \in DOMAIN files
        /\ Stored + Len(slice) > HeapBytes
        /\ stopped' = TRUE /\ UNCHANGED <<files, ret>>
  /\ UNCHANGED <<nextFd, named, closed>>

FilesNext ==
  \/ SysOpen \/ SysOpenNull
  \/ \E fd \in Fds :
       \/ SysClose(fd)
       \/ \E len \in 0 .. MaxWrite : fd # 0 /\ SysRead(fd, len)
       \/ \E slice \in Slices : WriteFdAny(fd, slice)

FilesSpec == FilesInit /\ [][FilesNext]_filesVars

-----------------------------------------------------------------------------

FilesTypeOK ==
  /\ DOMAIN files \subseteq FirstFd .. MaxFd
  /\ \A fd \in DOMAIN files : files[fd] \in Seq(Bytes)
  /\ nextFd \in FirstFd .. (MaxFd + 1)
  /\ ret \in Nat \cup {EBADF, EMFILE, EAGAIN}
  /\ stopped \in BOOLEAN

\* A descriptor that was closed, by whichever process, is never valid again: a
\* process that still uses it gets EBADF, never somebody else's file.
ClosedStaysClosed == closed \cap DOMAIN files = {}

\* Named files stay within one of the limit however opens of /dev/null, which
\* fill the same table without a limit, and closes are mixed in.
NamedFilesBounded == Cardinality(named) <= FileLimit + 1

\* Only its own close takes anything away from a file: whatever other calls do,
\* what was once written to an open descriptor stays readable at its start.
FilesOnlyGrow ==
  [][\A fd \in DOMAIN files :
       fd \notin closed' => fd \in DOMAIN files' /\ IsPrefix(files[fd], files'[fd])]_filesVars

=============================================================================
