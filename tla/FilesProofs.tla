---------------------------- MODULE FilesProofs -----------------------------
(***************************************************************************)
(* Proofs about Files for every limit, every heap and every set of bytes.  *)
(* The invariants rest on one fact: all descriptors that are open or have  *)
(* been closed lie below NEXT_FD.                                          *)
(***************************************************************************)
EXTENDS Files, SequenceTheorems, FiniteSetTheorems, TLAPS

\* The inductive invariant.
Inv ==
  /\ nextFd \in FirstFd .. (MaxFd + 1)
  /\ DOMAIN files \subseteq FirstFd .. (nextFd - 1)
  /\ \A fd \in DOMAIN files : files[fd] \in Seq(Bytes)
  /\ closed \subseteq FirstFd .. (nextFd - 1)
  /\ closed \cap DOMAIN files = {}
  /\ named \subseteq DOMAIN files
  /\ Cardinality(named) <= FileLimit + 1

\* The table is finite, and so is what is named in it.
LEMMA TablesFinite ==
  ASSUME Inv
  PROVE  /\ IsFiniteSet(DOMAIN files) /\ IsFiniteSet(named)
         /\ Cardinality(named) <= Cardinality(DOMAIN files)
         /\ Cardinality(DOMAIN files) \in Nat /\ Cardinality(named) \in Nat
<1>1. FirstFd \in Int /\ nextFd - 1 \in Int
  BY FilesAssumption DEF Inv
<1>2. IsFiniteSet(FirstFd .. (nextFd - 1))
  BY <1>1, FS_Interval
<1>3. DOMAIN files \in SUBSET (FirstFd .. (nextFd - 1)) /\ named \in SUBSET DOMAIN files
  BY DEF Inv
<1>4. IsFiniteSet(DOMAIN files)
  BY <1>2, <1>3, FS_Subset
<1>5. IsFiniteSet(named) /\ Cardinality(named) <= Cardinality(DOMAIN files)
  BY <1>3, <1>4, FS_Subset
<1> QED
  BY <1>4, <1>5, FS_CardinalityType

\* Taking NEXT_FD for a new file keeps the invariant, provided a named file is
\* only added to a table within the limit.
LEMMA InsertInv ==
  ASSUME Inv, NEW isNamed \in BOOLEAN, Insert(isNamed), closed' = closed,
         isNamed => Cardinality(DOMAIN files) <= FileLimit
  PROVE  /\ Inv' /\ DOMAIN files \subseteq DOMAIN files'
         /\ \A fd \in DOMAIN files : files'[fd] = files[fd]
<1>1. /\ nextFd \in Nat /\ FirstFd \in Nat /\ MaxFd \in Nat /\ FileLimit \in Nat
      /\ nextFd >= FirstFd
  BY FilesAssumption DEF Inv
<1>2. /\ nextFd <= MaxFd /\ nextFd' = nextFd + 1
      /\ files' = [g \in DOMAIN files \cup {nextFd} |->
                     IF g = nextFd THEN <<>> ELSE files[g]]
      /\ named' = IF isNamed THEN named \cup {nextFd} ELSE named
  BY DEF Insert
<1>3. nextFd \notin DOMAIN files /\ nextFd \notin closed
  BY <1>1 DEF Inv
<1>4. /\ DOMAIN files' = DOMAIN files \cup {nextFd}
      /\ files'[nextFd] = <<>>
      /\ \A fd \in DOMAIN files : files'[fd] = files[fd]
  BY <1>2, <1>3
<1>5. nextFd' \in FirstFd .. (MaxFd + 1)
  BY <1>1, <1>2
<1>6. /\ DOMAIN files' \subseteq FirstFd .. (nextFd' - 1)
      /\ closed' \subseteq FirstFd .. (nextFd' - 1)
  BY <1>1, <1>2, <1>4 DEF Inv
<1>7. \A fd \in DOMAIN files' : files'[fd] \in Seq(Bytes)
  BY <1>4, EmptySeq DEF Inv
<1>8. closed' \cap DOMAIN files' = {} /\ named' \subseteq DOMAIN files'
  BY <1>2, <1>3, <1>4 DEF Inv
<1>9. Cardinality(named') <= FileLimit + 1
  <2>1. CASE isNamed
    <3>1. /\ IsFiniteSet(named) /\ Cardinality(named) \in Nat
          /\ Cardinality(named) <= FileLimit
      BY <1>1, <2>1, TablesFinite
    <3>2. nextFd \notin named
      BY <1>3 DEF Inv
    <3>3. Cardinality(named \cup {nextFd}) = Cardinality(named) + 1
      BY <3>1, <3>2, FS_AddElement
    <3> QED BY <1>1, <1>2, <2>1, <3>1, <3>3
  <2>2. CASE ~isNamed
    BY <1>2, <2>2 DEF Inv
  <2> QED BY <2>1, <2>2
<1> QED
  BY <1>4, <1>5, <1>6, <1>7, <1>8, <1>9 DEF Inv

\* Closing moves a descriptor from the table to the closed ones.
LEMMA CloseInv ==
  ASSUME Inv, NEW fd \in Fds, SysClose(fd)
  PROVE  /\ Inv'
         /\ \A g \in DOMAIN files :
              g \notin closed' => g \in DOMAIN files' /\ files'[g] = files[g]
<1>1. CASE fd <= 2 \/ fd \notin DOMAIN files
  BY <1>1 DEF SysClose, Inv
<1>2. CASE ~(fd <= 2 \/ fd \notin DOMAIN files)
  <2>1. /\ files' = [g \in DOMAIN files \ {fd} |-> files[g]]
        /\ named' = named \ {fd} /\ closed' = closed \cup {fd}
        /\ nextFd' = nextFd
    BY <1>2 DEF SysClose
  <2>2. /\ DOMAIN files' = DOMAIN files \ {fd}
        /\ \A g \in DOMAIN files \ {fd} : files'[g] = files[g]
    BY <2>1
  <2>3. fd \in FirstFd .. (nextFd - 1)
    BY <1>2 DEF Inv
  <2>4. Cardinality(named') <= FileLimit + 1
    <3>1. IsFiniteSet(named) /\ Cardinality(named) \in Nat
      BY TablesFinite
    <3>2. /\ Cardinality(named \ {fd}) \in Int
          /\ Cardinality(named \ {fd}) <= Cardinality(named)
      BY <3>1, FS_RemoveElement
    <3> QED BY <2>1, <3>1, <3>2, FilesAssumption DEF Inv
  <2> QED
    BY <2>1, <2>2, <2>3, <2>4 DEF Inv
<1> QED
  BY <1>1, <1>2

\* A write to an open file leaves its old contents as a prefix.
LEMMA WriteInv ==
  ASSUME Inv, NEW fd \in Fds, NEW slice \in Slices, WriteFdAny(fd, slice)
  PROVE  /\ Inv' /\ DOMAIN files' = DOMAIN files
         /\ \A g \in DOMAIN files : IsPrefix(files[g], files'[g])
<1>1. /\ nextFd' = nextFd /\ named' = named /\ closed' = closed
      /\ \/ files' = files
         \/ fd \in DOMAIN files /\ files' = [files EXCEPT ![fd] = @ \o slice]
  BY DEF WriteFdAny
<1>2. slice \in Seq(Bytes)
  BY FilesAssumption DEF Slices, BoundedSeq, SeqOf
<1>3. ASSUME NEW s \in Seq(Bytes)
      PROVE  s \o slice \in Seq(Bytes) /\ IsPrefix(s, s \o slice) /\ IsPrefix(s, s)
  <2>1. /\ s \o slice \in Seq(Bytes) /\ Len(s \o slice) = Len(s) + Len(slice)
        /\ Len(s) \in Nat /\ Len(slice) \in Nat
        /\ \A i \in 1 .. Len(s) : (s \o slice)[i] = s[i]
    BY <1>2, ConcatProperties, LenProperties
  <2>2. SubSeq(s, 1, Len(s)) = SubSeq(s \o slice, 1, Len(s))
    BY <2>1
  <2> QED BY <2>1, <2>2 DEF IsPrefix
<1>4. CASE files' = files
  BY <1>1, <1>3, <1>4 DEF Inv
<1>5. CASE fd \in DOMAIN files /\ files' = [files EXCEPT ![fd] = @ \o slice]
  <2>1. /\ DOMAIN files' = DOMAIN files /\ files'[fd] = files[fd] \o slice
        /\ \A g \in DOMAIN files : g # fd => files'[g] = files[g]
    BY <1>5
  <2>2. \A g \in DOMAIN files : /\ files'[g] \in Seq(Bytes)
                                /\ IsPrefix(files[g], files'[g])
    BY <1>3, <2>1 DEF Inv
  <2> QED BY <1>1, <2>1, <2>2 DEF Inv
<1> QED
  BY <1>1, <1>4, <1>5

\* The empty table.
LEMMA InitInv == FilesInit => Inv
<1> SUFFICES ASSUME FilesInit PROVE Inv
  OBVIOUS
<1>1. DOMAIN files = {} /\ closed = {} /\ named = {} /\ nextFd = FirstFd
  BY DEF FilesInit
<1>2. Cardinality(named) = 0
  BY <1>1, FS_EmptySet
<1>3. nextFd \in FirstFd .. (MaxFd + 1)
  BY <1>1, FilesAssumption
<1>4. Cardinality(named) <= FileLimit + 1
  BY <1>2, FilesAssumption
<1> QED
  BY <1>1, <1>3, <1>4 DEF Inv

\* What every call does to the invariant and to the files that stay open.
LEMMA NextInv ==
  ASSUME Inv, [FilesNext]_filesVars
  PROVE  /\ Inv'
         /\ \A g \in DOMAIN files :
              g \notin closed' => g \in DOMAIN files' /\ IsPrefix(files[g], files'[g])
<1>0. \A g \in DOMAIN files : IsPrefix(files[g], files[g])
  BY LenProperties DEF Inv, IsPrefix
<1>1. CASE SysOpenNull
  BY <1>0, <1>1, InsertInv DEF SysOpenNull
<1>2. CASE SysOpen
  <2>1. CASE Cardinality(DOMAIN files) <= FileLimit /\ Insert(TRUE)
    BY <1>0, <1>2, <2>1, InsertInv DEF SysOpen
  <2>2. CASE UNCHANGED <<files, nextFd, named>>
    BY <1>0, <1>2, <2>2 DEF SysOpen, Inv
  <2> QED BY <1>2, <2>1, <2>2 DEF SysOpen
<1>3. ASSUME NEW fd \in Fds, SysClose(fd)
      PROVE  /\ Inv'
             /\ \A g \in DOMAIN files : g \notin closed' =>
                  g \in DOMAIN files' /\ IsPrefix(files[g], files'[g])
  BY <1>0, <1>3, CloseInv
<1>4. ASSUME NEW fd \in Fds, NEW len, SysRead(fd, len)
      PROVE  /\ Inv'
             /\ \A g \in DOMAIN files : g \notin closed' =>
                  g \in DOMAIN files' /\ IsPrefix(files[g], files'[g])
  BY <1>0, <1>4 DEF SysRead, Inv
<1>5. ASSUME NEW fd \in Fds, NEW slice \in Slices, WriteFdAny(fd, slice)
      PROVE  /\ Inv'
             /\ \A g \in DOMAIN files : g \notin closed' =>
                  g \in DOMAIN files' /\ IsPrefix(files[g], files'[g])
  BY <1>5, WriteInv
<1>6. CASE UNCHANGED filesVars
  BY <1>0, <1>6 DEF filesVars, Inv
<1> QED
  BY <1>1, <1>2, <1>3, <1>4, <1>5, <1>6 DEF FilesNext

\* All of it always holds.
THEOREM FilesInv == FilesSpec => []Inv
BY InitInv, NextInv, PTL DEF FilesSpec

\* What a call returns, and whether the machine has halted.
Results ==
  /\ ret \in Nat \cup {EBADF, EMFILE, EAGAIN}
  /\ stopped \in BOOLEAN

\* Every call returns a count, a descriptor or one of the three errors.
LEMMA ResultStep ==
  ASSUME Inv, Results, [FilesNext]_filesVars
  PROVE  Results'
<1>1. ASSUME NEW isNamed, Insert(isNamed)
      PROVE  ret' \in Nat
  BY <1>1, FilesAssumption DEF Insert, Inv
<1>2. CASE SysOpenNull \/ SysOpen
  BY <1>1, <1>2 DEF SysOpenNull, SysOpen, Results
<1>3. ASSUME NEW fd \in Fds, SysClose(fd)
      PROVE  Results'
  BY <1>3 DEF SysClose, Results
<1>4. ASSUME NEW fd \in Fds, NEW len \in 0 .. MaxWrite, SysRead(fd, len)
      PROVE  Results'
  <2>1. len \in Nat
    BY FilesAssumption
  <2>2. fd \in DOMAIN files => Len(files[fd]) \in Nat
    BY LenProperties DEF Inv
  <2> QED BY <1>4, <2>1, <2>2 DEF SysRead, Results
<1>5. ASSUME NEW fd \in Fds, NEW slice \in Slices, WriteFdAny(fd, slice)
      PROVE  Results'
  <2>1. slice \in Seq(Bytes)
    BY FilesAssumption DEF Slices, BoundedSeq, SeqOf
  <2>2. Len(slice) \in Nat
    BY <2>1, LenProperties
  <2> QED BY <1>5, <2>2 DEF WriteFdAny, Results
<1>6. CASE UNCHANGED filesVars
  BY <1>6 DEF filesVars, Results
<1> QED
  BY <1>2, <1>3, <1>4, <1>5, <1>6 DEF FilesNext

\* Table, NEXT_FD and results keep their types.
THEOREM FilesTypeCorrect == FilesSpec => []FilesTypeOK
<1>1. FilesInit => Results
  <2> SUFFICES ASSUME FilesInit PROVE Results
    OBVIOUS
  <2>1. ret = 0 /\ stopped = FALSE
    BY DEF FilesInit
  <2>2. ret \in Nat
    BY <2>1
  <2> QED BY <2>1, <2>2 DEF Results
<1>2. Inv /\ Results => FilesTypeOK
  <2> SUFFICES ASSUME Inv, Results PROVE FilesTypeOK
    OBVIOUS
  <2>1. DOMAIN files \subseteq FirstFd .. MaxFd
    BY FilesAssumption DEF Inv
  <2> QED BY <2>1 DEF Inv, Results, FilesTypeOK
<1> QED BY <1>1, <1>2, ResultStep, FilesInv, PTL DEF FilesSpec

\* A closed descriptor is never handed out again, because NEXT_FD only moves up.
THEOREM ClosedCorrect == FilesSpec => []ClosedStaysClosed
<1>1. Inv => ClosedStaysClosed
  BY DEF Inv, ClosedStaysClosed
<1> QED BY <1>1, FilesInv, PTL

\* The limit of sys_open bounds the named files, although the table itself has
\* no bound.
THEOREM NamedCorrect == FilesSpec => []NamedFilesBounded
<1>1. Inv => NamedFilesBounded
  BY DEF Inv, NamedFilesBounded
<1> QED BY <1>1, FilesInv, PTL

\* Whatever calls are made in between, by whichever process, what was written to
\* an open descriptor stays at its start until it is closed.
THEOREM GrowCorrect == FilesSpec => FilesOnlyGrow
<1>1. ASSUME Inv, [FilesNext]_filesVars
      PROVE  [\A fd \in DOMAIN files : fd \notin closed' =>
                fd \in DOMAIN files' /\ IsPrefix(files[fd], files'[fd])]_filesVars
  BY <1>1, NextInv
<1> QED BY <1>1, FilesInv, PTL DEF FilesSpec, FilesOnlyGrow

=============================================================================
