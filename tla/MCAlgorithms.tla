---------------------------- MODULE MCAlgorithms ----------------------------
(***************************************************************************)
(* The instance TLC checks of ExecStack, Nanosleep, Vga and Files.  The    *)
(* four have nothing in common; part says which of them takes the steps,   *)
(* the others stay in one of their initial states.                         *)
(***************************************************************************)
EXTENDS ExecStack, Nanosleep, Vga, Files

VARIABLE part

\* Strings that are empty, fill no word, fill one word, and are cut.
MCStrings == {<<>>, <<"a">>, <<"a", "b">>, <<"b", "a", "b">>}

Init ==
  /\ part \in {"exec", "sleep", "screen", "files"}
  /\ part # "exec"  => userArgv = <<>> /\ userEnvp = <<>>
  /\ part # "sleep" => request = [sec |-> 0, nsec |-> 0] /\ release = FALSE
  /\ ExecInit /\ NanosleepInit /\ VgaInit /\ FilesInit

ExecStep ==
  part = "exec" /\ ExecNext /\ UNCHANGED <<part, sleepVars, vgaVars, filesVars>>

SleepStep ==
  part = "sleep" /\ SysNanosleep /\ UNCHANGED <<part, execVars, vgaVars, filesVars>>

ScreenStep ==
  part = "screen" /\ VgaNext /\ UNCHANGED <<part, execVars, sleepVars, filesVars>>

FilesStep ==
  part = "files" /\ FilesNext /\ UNCHANGED <<part, execVars, sleepVars, vgaVars>>

Next == ExecStep \/ SleepStep \/ ScreenStep \/ FilesStep

Spec == Init /\ [][Next]_<<part, execVars, sleepVars, vgaVars, filesVars>>

=============================================================================
