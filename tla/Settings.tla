------------------------------ MODULE Settings ------------------------------
(***************************************************************************)
(* The stored settings (src/src/config.c, main.c) and the dialogs that     *)
(* change them (gui_menu_options.c): read from a file at start, changed by *)
(* a dialog's OK, partly applied at once, written back line by line when   *)
(* the program ends.  The program may stop at any point, inside the        *)
(* writing too; what reached the file by then is a prefix of the text.     *)
(***************************************************************************)
EXTENDS Integers, Sequences, SequencesExt

CONSTANTS
  Order,            \* the settings, in the order of config_save
  Valid(_),         \* the values config_init accepts for a setting
  Default(_),
  Entered(_),       \* what a dialog may hold for a setting, valid or not
  Dialog(_),        \* the dialog of a setting
  Dialogs

Name == Range(Order)

\* A text that is no number and no "true" or "false".
BadText == -1

\* config_save writes each setting once.
ASSUME OrderAssumption ==
  /\ Order \in Seq(Name)
  /\ \A i, j \in 1..Len(Order) : Order[i] = Order[j] => i = j

ASSUME DefaultsAssumption == \A n \in Name : Default(n) \in Valid(n)
ASSUME TextsAssumption == \A n \in Name : BadText \notin Valid(n)
ASSUME RandomAssumption == {"random_01", "random_n", "hex_grouping"} \subseteq Name

\* The settings that an OK applies at once are in the dialogs whose OK applies them.
ASSUME DialogsAssumption ==
  /\ Dialog("random_01") = "float" /\ Dialog("random_n") = "float"
  /\ Dialog("hex_grouping") = "int"

VARIABLES
  config,    \* the statics of config.c
  live,      \* the settings the calculator and the display work with
  window,    \* the values in each dialog; no values when it is closed
  file,      \* its directory ~/.ProgAndSciCalc exists, it can be read, the texts in it
  pc,        \* "off", "running", or "saving"
  written,   \* lines written so far by config_save
  chosen     \* the settings last written to the end; what the user expects back

vars == <<config, live, window, file, pc, written, chosen>>

NoFile(dir) == [dir |-> dir, ok |-> FALSE, text |-> <<>>]
Closed == <<>>

Defaults == [n \in Name |-> Default(n)]

-----------------------------------------------------------------------------
(* Reading *)

\* get_integer or get_boolean, and the check of the range in config_init.
Read(n, text) ==
  IF n \in DOMAIN text /\ text[n] \in Valid(n) THEN text[n] ELSE Default(n)

\* config_init: a file that cannot be read, or not be parsed, gives defaults.
config_init(f) == [n \in Name |-> IF f.ok THEN Read(n, f.text) ELSE Default(n)]

\* What main gives to calc_init and display_init, and the dialogs' OK to their setters.
RandomRange(c) == IF c["random_01"] = 1 THEN 0 ELSE c["random_n"]
Applied(c)     == [random_range |-> RandomRange(c), hex_grouping |-> c["hex_grouping"]]

Start ==
  /\ pc = "off"
  /\ pc' = "running"
  /\ config' = config_init(file)
  /\ live' = Applied(config')
  /\ UNCHANGED <<window, file, written, chosen>>

-----------------------------------------------------------------------------
(* Dialogs *)

Fields(d) == {n \in Name : Dialog(n) = d}

\* settings_activate: at most one window of each kind, filled from the settings.
Open(d) ==
  /\ pc = "running"
  /\ window[d] = Closed
  /\ window' = [window EXCEPT ![d] = [n \in Fields(d) |-> config[n]]]
  /\ UNCHANGED <<config, live, file, pc, written, chosen>>

Edit(d, n, v) ==
  /\ window[d] # Closed
  /\ n \in Fields(d)
  /\ v \in Entered(n)
  /\ window' = [window EXCEPT ![d][n] = v]
  /\ UNCHANGED <<config, live, file, pc, written, chosen>>

Cancel(d) ==
  /\ window[d] # Closed
  /\ window' = [window EXCEPT ![d] = Closed]
  /\ UNCHANGED <<config, live, file, pc, written, chosen>>

\* get_entry_val: a number out of range becomes the default.
get_entry_val(n, v) == IF v \in Valid(n) THEN v ELSE Default(n)

\* Mutant of AppliedBy: the range of the random numbers stays.
AppliedByInt(d, c) ==
  IF d = "int" THEN [live EXCEPT !.hex_grouping = c["hex_grouping"]] ELSE live

\* The setters that an OK calls at once; the other settings wait for a restart.
AppliedBy(d, c) ==
  CASE d = "float" -> [live EXCEPT !.random_range = RandomRange(c)]
    [] d = "int"   -> [live EXCEPT !.hex_grouping = c["hex_grouping"]]
    [] OTHER       -> live

Ok(d) ==
  /\ window[d] # Closed
  /\ config' = [n \in Name |-> IF n \in Fields(d) THEN get_entry_val(n, window[d][n])
                               ELSE config[n]]
  /\ live' = AppliedBy(d, config')
  /\ window' = [window EXCEPT ![d] = Closed]
  /\ UNCHANGED <<file, pc, written, chosen>>

-----------------------------------------------------------------------------
(* Writing *)

\* gtk_main returns, and config_save opens the file, which empties it.  Without the
\* directory the file cannot be opened.
Exit ==
  /\ pc = "running"
  /\ window' = [d \in Dialogs |-> Closed]
  /\ written' = 0
  /\ IF file.dir
     THEN pc' = "saving" /\ file' = [file EXCEPT !.ok = TRUE, !.text = <<>>]
     ELSE pc' = "off" /\ UNCHANGED file
  /\ UNCHANGED <<config, live, chosen>>

Line(text, n, v) == [m \in DOMAIN text \cup {n} |-> IF m = n THEN v ELSE text[m]]

\* Mutant of SavedNames: the last setting is left out.
SavedNamesShort == Front(Order)

\* The settings config_save writes.
SavedNames == Order

\* Mutant of SaveLine: stops before the last line.
SaveLineShort ==
  /\ pc = "saving"
  /\ written + 1 < Len(SavedNames)
  /\ written' = written + 1
  /\ file' = [file EXCEPT !.text = Line(@, SavedNames[written'], config[SavedNames[written']])]
  /\ UNCHANGED <<config, live, window, pc, chosen>>

\* Mutant of SaveLine: the value of the next setting under the name of this one.
SaveLineShifted ==
  /\ pc = "saving"
  /\ written < Len(SavedNames)
  /\ written' = written + 1
  /\ file' = [file EXCEPT !.text = Line(@, SavedNames[written'],
       config[SavedNames[IF written' < Len(SavedNames) THEN written' + 1 ELSE written']])]
  /\ UNCHANGED <<config, live, window, pc, chosen>>

SaveLine ==
  /\ pc = "saving"
  /\ written < Len(SavedNames)
  /\ written' = written + 1
  /\ file' = [file EXCEPT !.text = Line(@, SavedNames[written'], config[SavedNames[written']])]
  /\ UNCHANGED <<config, live, window, pc, chosen>>

SaveDone ==
  /\ pc = "saving"
  /\ written = Len(SavedNames)
  /\ pc' = "off"
  /\ chosen' = config
  /\ UNCHANGED <<config, live, window, file, written>>

\* The text of a number broken off: fewer digits, or none.
Broken(v) == {BadText} \cup ({v \div 10, v \div 100, v \div 1000, v \div 10000} \ {0})

\* The program is stopped.  A line broken off before its "=" makes the file unreadable
\* for g_key_file_load_from_file; after it, the value is broken off.
Stop ==
  /\ pc # "off"
  /\ pc' = "off"
  /\ window' = [d \in Dialogs |-> Closed]
  /\ \/ UNCHANGED file
     \/ /\ pc = "saving" /\ written < Len(SavedNames)
        /\ \/ file' = [file EXCEPT !.ok = FALSE]
           \/ \E v \in Broken(config[SavedNames[written + 1]]) :
                file' = [file EXCEPT !.text = Line(@, SavedNames[written + 1], v)]
  /\ chosen' = IF pc = "saving" THEN config ELSE chosen
  /\ UNCHANGED <<config, live, written>>

-----------------------------------------------------------------------------

Init ==
  /\ config = Defaults
  /\ live = Applied(Defaults)
  /\ window = [d \in Dialogs |-> Closed]
  /\ file \in {NoFile(dir) : dir \in BOOLEAN}
  /\ pc = "off"
  /\ written = 0
  /\ chosen = Defaults

Next ==
  \/ Start
  \/ \E d \in Dialogs : Open(d) \/ Cancel(d) \/ Ok(d)
  \/ \E d \in Dialogs, n \in Name : \E v \in Entered(n) : Edit(d, n, v)
  \/ Exit
  \/ SaveLine
  \/ SaveDone
  \/ Stop

\* Once gtk_main has returned, nothing but a stop keeps config_save from ending.
Spec == Init /\ [][Next]_vars /\ WF_vars(SaveLine) /\ WF_vars(SaveDone)

-----------------------------------------------------------------------------
(* Properties *)

\* Whatever stands in the file or is typed into a dialog, every setting is one its users
\* accept (config.c:117-196, gui_menu_options.c:75-81): sizes of fonts, number of digits,
\* an index of an array of widths.
ConfigValid == \A n \in Name : config[n] \in Valid(n)

\* The calculator works with the settings the dialogs show: an OK reaches the engine and
\* the display, as a start does (gui_menu_options.c:350-366, 615-636, main.c:48-67).
LiveIsConfig == pc = "running" => live = Applied(config)

\* Both together: what the program works with are valid settings, and the same everywhere.
SettingsHold == ConfigValid /\ LiveIsConfig

\* A program that ends undisturbed finds all its settings at the next start; without the
\* directory of README.md:24-28 it starts with the defaults.
Undisturbed == file.ok /\ written = Len(SavedNames)
RestartKeeps ==
  [][Start => /\ Undisturbed => config' = chosen
              /\ ~file.dir => config' = Defaults]_vars

\* A stop while the settings are written loses the ones not written yet, or all of them,
\* to their defaults; none gets the value of another, and at most one keeps a number
\* broken off (config.c:238-272).
StopKeepsPrefix ==
  [][Start =>
       \/ config' = Defaults
       \/ \E k \in 0..Len(Order) :
            \A i \in 1..Len(Order) :
              CASE i <= k     -> config'[Order[i]] = chosen[Order[i]]
                [] i = k + 1  -> \/ config'[Order[i]] = Default(Order[i])
                                 \/ config'[Order[i]] \in Broken(chosen[Order[i]])
                [] OTHER      -> config'[Order[i]] = Default(Order[i])]_vars

\* A program that ends gets its settings written unless it is stopped (main.c:74-76).
SaveEnds == (pc = "saving") ~> (pc = "off")
=============================================================================
