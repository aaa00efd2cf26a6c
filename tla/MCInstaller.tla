---------------------------- MODULE MCInstaller ----------------------------
(* What build-installer-exe.bat packs: the stage has no subdirectories.      *)
EXTENDS Installer

BuildStage == << <<"stage", "uvm.exe">>, <<"stage", "uvm-gui.exe">>, <<"stage", "SDL2.dll">> >>
=============================================================================
