----------------------------- MODULE ExecStack ------------------------------
(***************************************************************************)
(* How execve's arguments reach the new program: sys_execve copies the     *)
(* argument and environment vectors out of user memory (src/process.rs)    *)
(* and build_exec_stack lays them out on the user stack page (src/elf.rs): *)
(*                                                                         *)
(*   argc, argv pointers, 0, envp pointers, 0, auxiliary vector, strings   *)
(*                                                                         *)
(* The page is a sequence of words; a word is a number or WordBytes bytes  *)
(* of a string.  The effect of the load on mappings is in AddressSpace.    *)
(***************************************************************************)
EXTENDS Integers, Sequences, SequencesExt

CONSTANTS
  Strings,     \* C strings a program may pass: sequences of bytes
  LongestVec,  \* bound on the vectors a program passes
  MaxArgv,     \* pointers taken of argv, 32 in the code
  MaxEnvp,     \* pointers taken of envp, 16 in the code
  MaxStr,      \* bytes taken of a string, 256 in the code
  WordBytes,   \* 8 in the code
  PageWords,   \* words of the stack page, 512 in the code
  StackLo      \* USER_STACK_TOP - 4096

ASSUME ExecAssumption ==
  /\ {LongestVec, MaxArgv, MaxEnvp, MaxStr, WordBytes, PageWords, StackLo}
       \subseteq Nat \ {0}
  /\ \A s \in Strings : s \in Seq(Range(s))

VARIABLES
  userArgv, userEnvp,   \* the vectors in user memory
  stage,                \* how far execve has come
  argv, envp,           \* ExecArgs
  v,                    \* the kernel's copy of the stack, in words
  strOff,               \* str_off: addresses of the strings pushed so far
  page,                 \* the user stack page
  result                \* what execve returns

execVars == <<userArgv, userEnvp, stage, argv, envp, v, strOff, page, result>>

NUL == "NUL"
Num(n)   == <<"num", n>>
Meta(f)  == <<"meta", f>>     \* a field of ElfLoadedMeta
Chunk(b) == <<"bytes", b>>
Old      == <<"old">>         \* what the page held before

EFAULT == -14
EINVAL == -22
ENOEXEC == -8

ExecInit ==
  /\ userArgv \in SeqOf(Strings, LongestVec)
  /\ userEnvp \in SeqOf(Strings, LongestVec)
  /\ stage = "argv"
  /\ argv = <<>> /\ envp = <<>> /\ v = <<>> /\ strOff = <<>>
  /\ page = [i \in 1 .. PageWords |-> Old]
  /\ result = 0

Fail(err) == stage' = "failed" /\ result' = err

\* read_user_cstring of a readable UTF-8 string
ReadUserCstring(s) == SubSeq(s, 1, IF Len(s) < MaxStr THEN Len(s) ELSE MaxStr)

\* parse_user_ptrvec of readable memory; a null base is an empty vector
ParseUserPtrvec(vec, maxPtrs) ==
  [i \in 1 .. (IF Len(vec) < maxPtrs THEN Len(vec) ELSE maxPtrs) |->
     ReadUserCstring(vec[i])]

\* The vectors are read one after the other; either may be unreadable or hold a
\* string that is not UTF-8, be it by its own bytes or because it was cut.
ParseArgv ==
  /\ stage = "argv"
  /\ \/ /\ argv' = ParseUserPtrvec(userArgv, MaxArgv)
        /\ stage' = "envp" /\ UNCHANGED result
     \/ (\E err \in {EFAULT, EINVAL} : Fail(err)) /\ UNCHANGED argv
  /\ UNCHANGED <<userArgv, userEnvp, envp, v, strOff, page>>

ParseEnvp ==
  /\ stage = "envp"
  /\ \/ /\ envp' = ParseUserPtrvec(userEnvp, MaxEnvp)
        /\ stage' = "load" /\ UNCHANGED result
     \/ (\E err \in {EFAULT, EINVAL} : Fail(err)) /\ UNCHANGED envp
  /\ UNCHANGED <<userArgv, userEnvp, argv, v, strOff, page>>

Zeros(n) == [i \in 1 .. n |-> Num(0)]

AuxPairs == 6

\* Offsets in words of argv_tab, env_tab and the auxiliary vector.
ArgvTab == 1
EnvTab  == ArgvTab + Len(argv) + 1
AuxTab  == EnvTab + Len(envp) + 1
TableEnd == AuxTab + 2 * AuxPairs

\* The image is loaded, or is not; then the tables are reserved, up to a
\* multiple of two words.
LoadElfExec ==
  /\ stage = "load"
  /\ \/ /\ v' = <<Num(Len(argv))>> \o Zeros(TableEnd - 1 + (TableEnd % 2))
        /\ stage' = "strings" /\ UNCHANGED result
     \/ Fail(ENOEXEC) /\ UNCHANGED v
  /\ UNCHANGED <<userArgv, userEnvp, argv, envp, strOff, page>>

\* The bytes of a string with its terminator, padded to words.
StringWords(s) ==
  [i \in 1 .. (Len(s) \div WordBytes + 1) |->
     Chunk([j \in 1 .. WordBytes |->
              LET k == (i - 1) * WordBytes + j
              IN  IF k <= Len(s) THEN s[k] ELSE NUL])]

\* One round of the loops over envp and then argv.
PushString ==
  /\ stage = "strings"
  /\ Len(strOff) < Len(envp) + Len(argv)
  /\ LET s == (envp \o argv)[Len(strOff) + 1]
     IN  /\ strOff' = Append(strOff, StackLo + Len(v) * WordBytes)
         /\ v' = v \o StringWords(s)
  /\ UNCHANGED <<userArgv, userEnvp, stage, argv, envp, page, result>>

\* The auxiliary vector, a tag and a value at a time.
Aux ==
  <<Num(3), Meta("phdr"), Num(4), Meta("phent"), Num(5), Meta("phnum"),
    Num(6), Num(PageWords * WordBytes), Num(9), Meta("entry"), Num(0), Num(0)>>

\* Mutant: argv takes its addresses from the front of str_off.
FilledFromFront ==
  [i \in 1 .. Len(v) |->
     CASE i - 1 - EnvTab  \in 0 .. (Len(envp) - 1) -> Num(strOff[i - EnvTab])
       [] i - 1 - ArgvTab \in 0 .. (Len(argv) - 1) -> Num(strOff[i - ArgvTab])
       [] i - 1 - AuxTab  \in 0 .. (2 * AuxPairs - 1) -> Aux[i - AuxTab]
       [] OTHER -> v[i]]

\* The tables with the addresses and the auxiliary vector in place.
Filled ==
  [i \in 1 .. Len(v) |->
     CASE i - 1 - EnvTab  \in 0 .. (Len(envp) - 1) -> Num(strOff[i - EnvTab])
       [] i - 1 - ArgvTab \in 0 .. (Len(argv) - 1) ->
            Num(strOff[Len(envp) + i - ArgvTab])
       [] i - 1 - AuxTab  \in 0 .. (2 * AuxPairs - 1) -> Aux[i - AuxTab]
       [] OTHER -> v[i]]

\* Mutant: the page is written before its size is looked at.
WriteStackUnchecked ==
  /\ stage = "strings"
  /\ Len(strOff) = Len(envp) + Len(argv)
  /\ page' = [i \in 1 .. PageWords |-> IF i <= Len(v) THEN Filled[i] ELSE page[i]]
  /\ IF Len(v) > PageWords
     THEN Fail(ENOEXEC)
     ELSE stage' = "done" /\ UNCHANGED result
  /\ UNCHANGED <<userArgv, userEnvp, argv, envp, v, strOff>>

\* The overflow check, then the copy to the stack page, which is always mapped.
WriteStack ==
  /\ stage = "strings"
  /\ Len(strOff) = Len(envp) + Len(argv)
  /\ IF Len(v) > PageWords
     THEN Fail(ENOEXEC) /\ UNCHANGED page
     ELSE /\ page' = [i \in 1 .. PageWords |->
                        IF i <= Len(v) THEN Filled[i] ELSE page[i]]
          /\ stage' = "done" /\ UNCHANGED result
  /\ UNCHANGED <<userArgv, userEnvp, argv, envp, v, strOff>>

ExecNext == ParseArgv \/ ParseEnvp \/ LoadElfExec \/ PushString \/ WriteStack

ExecSpec == ExecInit /\ [][ExecNext]_execVars

-----------------------------------------------------------------------------

\* The byte a program reads at address a of its stack page.
ByteAt(a) ==
  page[(a - StackLo) \div WordBytes + 1][2][((a - StackLo) % WordBytes) + 1]

\* A pointer on the page leads to the first n bytes of s and a terminator.
PointsTo(word, s, n) ==
  /\ ByteAt(word[2] + n) = NUL
  /\ \A k \in 1 .. n : ByteAt(word[2] + k - 1) = s[k]

\* From word i on, the page holds a pointer to each of the first m strings of
\* vec, cut to MaxStr bytes, and a null pointer.
VectorAt(i, vec, m) ==
  /\ \A k \in 1 .. m :
       PointsTo(page[i + k - 1], vec[k],
                IF Len(vec[k]) < MaxStr THEN Len(vec[k]) ELSE MaxStr)
  /\ page[i + m] = Num(0)

\* A program that starts after execve and walks its stack as the ABI says (count,
\* argv to the null pointer, envp to the null pointer, auxiliary pairs to AT_NULL)
\* finds the caller's strings in order, each terminated, up to the limits of
\* parse_user_ptrvec; no string overlaps a table or another string.
ArgsArrive ==
  stage = "done" =>
    LET argc == IF Len(userArgv) < MaxArgv THEN Len(userArgv) ELSE MaxArgv
        envc == IF Len(userEnvp) < MaxEnvp THEN Len(userEnvp) ELSE MaxEnvp
    IN  /\ page[1] = Num(argc)
        /\ VectorAt(2, userArgv, argc)
        /\ VectorAt(argc + 3, userEnvp, envc)
        /\ SubSeq(page, argc + envc + 4, argc + envc + 3 + 2 * AuxPairs) = Aux

\* An execve that fails has written nothing to the caller's stack page, although
\* the vectors it was building up may have been longer than the page.
FailureKeepsStack ==
  result # 0 => \A i \in 1 .. PageWords : page[i] = Old

=============================================================================
