------------------------------ MODULE MCFiles -------------------------------
(***************************************************************************)
(* The two files the program reads, each on its own: its settings, which   *)
(* it also writes, and the user's constants.  part says which; the other   *)
(* stays as it is before the program is started, or as it is after a       *)
(* reading of an empty file.                                               *)
(*                                                                         *)
(* Four of the fifteen settings: a number that may be broken off and stay  *)
(* valid, a size, a truth value, a choice, and three dialogs.              *)
(***************************************************************************)
EXTENDS Settings, ConstantsFile

VARIABLE part

MCOrder == <<"main_disp_fontsize", "hex_grouping", "random_01", "random_n">>
MCValid(n) ==
  CASE n = "main_disp_fontsize" -> 6..40
    [] n = "hex_grouping"       -> {0, 4, 8}
    [] n = "random_01"          -> {0, 1}
    [] n = "random_n"           -> 1..10000
MCDefault(n) ==
  CASE n = "main_disp_fontsize" -> 22
    [] n = "hex_grouping"       -> 4
    [] n = "random_01"          -> 1
    [] n = "random_n"           -> 100
MCEntered(n) ==
  CASE n = "main_disp_fontsize" -> {30}
    [] n = "hex_grouping"       -> {0}
    [] n = "random_01"          -> {0, 1}
    [] n = "random_n"           -> {0, 2000}
MCDialog(n) ==
  CASE n = "main_disp_fontsize" -> "general"
    [] n = "hex_grouping"       -> "int"
    [] n \in {"random_01", "random_n"} -> "float"

NotStarted ==
  /\ config = Defaults /\ live = Applied(Defaults) /\ window = [d \in Dialogs |-> Closed]
  /\ file = NoFile(FALSE) /\ pc = "off" /\ written = 0 /\ chosen = Defaults

EmptyRead ==
  /\ lines = <<>> /\ next = 1 /\ current_cat = NULL /\ cat_index = 0 /\ rows = <<>>
  /\ cat_table = [i \in 0..MAX_CATEGORIES |-> Empty]
  /\ num_categories = 0 /\ failed = {}

FilesInit ==
  /\ part \in {"settings", "constants"}
  /\ IF part = "settings" THEN Init ELSE NotStarted
  /\ IF part = "constants" THEN LoadInit ELSE EmptyRead

FilesNext ==
  \/ part = "settings" /\ Next /\ UNCHANGED <<part, loadVars>>
  \/ part = "constants" /\ LoadNext /\ UNCHANGED <<part, vars>>

FilesSpec ==
  /\ FilesInit /\ [][FilesNext]_<<part, vars, loadVars>>
  /\ WF_vars(SaveLine) /\ WF_vars(SaveDone)
  /\ WF_loadVars(LoadNext)
=============================================================================
