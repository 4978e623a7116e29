-------------------------- MODULE MCProgrammerSession --------------------------
(* Instances of ProgrammerSession with the times of the code in ticks of
   200 ms, two modes and two values for the other settings.                *)
EXTENDS ProgrammerSession

TwoModes == {0, 1}
FactoryMemory == [mode |-> 0, rest |-> "factory"]

\* The editor alone, or with one kind of outside event; "stopped" is that LSDJ
\* is not playing, and with the button, or the editor's choice of a mode, a
\* session may so come to sit in LSDJ master sync.
OutsideEvents ==
  {{}, {"button"}, {"remote"}, {"ports"}, {"stopped"}, {"button", "stopped"}, {"remote", "stopped"}}

\* Somebody may press the mode button during a session.
ButtonOnly == {{"button"}}

================================================================================
