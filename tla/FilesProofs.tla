---------------------------- MODULE FilesProofs ----------------------------
(***************************************************************************)
(* The two files of the program, for any contents.                         *)
(*                                                                         *)
(* Settings: SettingsHold, RestartKeeps and StopKeepsPrefix for any        *)
(* settings, values and dialogs, and wherever the program is stopped.  The *)
(* invariant relates the file to what the program holds: while it is being *)
(* written, the text is the first lines of config; otherwise, what a start *)
(* would read from it is what was chosen, up to where the last writing was *)
(* broken off.                                                             *)
(*                                                                         *)
(* ConstantsFile: WithinLimits and MenuIsFile for any file, any sizes of   *)
(* the two arrays and any allocations that fail.  MenuIsFile is about the  *)
(* end; its invariant says what holds of the table so far.                 *)
(***************************************************************************)
EXTENDS Settings, ConstantsFile, SequenceTheorems, TLAPS

-----------------------------------------------------------------------------
(* Settings                                                                 *)

\* c, read from the file, is what was chosen, or defaults from some line on.
KeepsPrefix(c, ch) ==
  \/ c = Defaults
  \/ \E k \in 0..Len(Order) :
       \A i \in 1..Len(Order) :
         CASE i <= k    -> c[Order[i]] = ch[Order[i]]
           [] i = k + 1 -> \/ c[Order[i]] = Default(Order[i])
                           \/ c[Order[i]] \in Broken(ch[Order[i]])
           [] OTHER     -> c[Order[i]] = Default(Order[i])

\* The text is the first n lines for the values c.
FirstLines(text, n, c) ==
  /\ DOMAIN text = {Order[i] : i \in 1..n}
  /\ \A i \in 1..n : text[Order[i]] = c[Order[i]]

TypesOK ==
  /\ config = [n \in Name |-> config[n]]
  /\ chosen = [n \in Name |-> chosen[n]]
  /\ file = [dir |-> file.dir, ok |-> file.ok, text |-> file.text]
  /\ file.dir \in BOOLEAN /\ file.ok \in BOOLEAN
  /\ pc \in {"off", "running", "saving"}
  /\ written \in 0..Len(Order)

\* What the next start reads.
FileIsChosen ==
  /\ Undisturbed => config_init(file) = chosen
  /\ KeepsPrefix(config_init(file), chosen)

FileIsWritten == file.ok /\ FirstLines(file.text, written, config)

SettingsInv ==
  /\ TypesOK
  /\ SettingsHold
  /\ file.ok => file.dir
  /\ pc # "saving" => FileIsChosen
  /\ pc = "saving" => FileIsWritten

-----------------------------------------------------------------------------
(* Reading                                                                  *)

LEMMA Names ==
  /\ Len(Order) \in Nat
  /\ \A i \in 1..Len(Order) : Order[i] \in Name
  /\ \A n \in Name : \E i \in 1..Len(Order) : n = Order[i]
  /\ "random_01" \in Name /\ "random_n" \in Name /\ "hex_grouping" \in Name
BY OrderAssumption, RandomAssumption DEF Name, Range

LEMMA ReadValid ==
  ASSUME NEW text, NEW n \in Name
  PROVE  Read(n, text) \in Valid(n)
BY DefaultsAssumption DEF Read

LEMMA ReadsValid ==
  ASSUME NEW f
  PROVE  /\ config_init(f) = [n \in Name |-> config_init(f)[n]]
         /\ \A n \in Name : config_init(f)[n] \in Valid(n)
<1>1. ASSUME NEW n \in Name PROVE config_init(f)[n] \in Valid(n)
  <2>1. config_init(f)[n] = IF f.ok THEN Read(n, f.text) ELSE Default(n)
        BY DEF config_init
  <2> QED BY <2>1, ReadValid, DefaultsAssumption
<1> QED BY <1>1 DEF config_init

\* A text that holds the first lines gives their values, and defaults for the rest.
LEMMA ReadFirstLines ==
  ASSUME NEW f, f.ok, NEW c, NEW n \in 0..Len(Order), FirstLines(f.text, n, c),
         \A m \in Name : c[m] \in Valid(m)
  PROVE  \A i \in 1..Len(Order) :
           config_init(f)[Order[i]] = IF i <= n THEN c[Order[i]] ELSE Default(Order[i])
<1> TAKE i \in 1..Len(Order)
<1>1. config_init(f)[Order[i]] = Read(Order[i], f.text)
      BY Names DEF config_init
<1>2. CASE i <= n
  <2>1. i \in 1..n
        BY <1>2, Names
  <2>2. Order[i] \in DOMAIN f.text /\ f.text[Order[i]] = c[Order[i]]
        BY <2>1 DEF FirstLines
  <2>3. c[Order[i]] \in Valid(Order[i])
        BY Names
  <2> QED BY <1>1, <1>2, <2>2, <2>3 DEF Read
<1>3. CASE ~(i <= n)
  <2>1. \A j \in 1..n : j \in 1..Len(Order) /\ j # i
        BY <1>3, Names
  <2>2. Order[i] \notin DOMAIN f.text
        BY <2>1, OrderAssumption DEF FirstLines
  <2> QED BY <1>1, <1>3, <2>2 DEF Read
<1> QED BY <1>2, <1>3

\* All the lines give back all the settings.
LEMMA ReadAllLines ==
  ASSUME NEW f, f.ok, NEW c, c = [m \in Name |-> c[m]], FirstLines(f.text, Len(Order), c),
         \A m \in Name : c[m] \in Valid(m)
  PROVE  config_init(f) = c
<1>1. Len(Order) \in 0..Len(Order)
      BY Names
<1>2. \A i \in 1..Len(Order) : config_init(f)[Order[i]] = c[Order[i]]
  <2>1. \A i \in 1..Len(Order) :
          config_init(f)[Order[i]] = IF i <= Len(Order) THEN c[Order[i]] ELSE Default(Order[i])
        BY <1>1, ReadFirstLines, Zenon
  <2> QED BY <2>1, Names
<1>3. \A m \in Name : config_init(f)[m] = c[m]
      BY <1>2, Names
<1>4. config_init(f) = [m \in Name |-> config_init(f)[m]]
      BY ReadsValid
<1> QED BY <1>3, <1>4

\* The first lines, and at most a broken value after them, are what a stop may leave.
LEMMA FirstLinesKeepPrefix ==
  ASSUME NEW f, f.ok, NEW c, NEW n \in 0..Len(Order), FirstLines(f.text, n, c),
         \A m \in Name : c[m] \in Valid(m)
  PROVE  KeepsPrefix(config_init(f), c)
<1> DEFINE r == config_init(f)
<1>1. \A i \in 1..Len(Order) : r[Order[i]] = IF i <= n THEN c[Order[i]] ELSE Default(Order[i])
      BY ReadFirstLines
<1> HIDE DEF r
<1> SUFFICES \A i \in 1..Len(Order) :
               CASE i <= n    -> r[Order[i]] = c[Order[i]]
                 [] i = n + 1 -> \/ r[Order[i]] = Default(Order[i])
                                 \/ r[Order[i]] \in Broken(c[Order[i]])
                 [] OTHER     -> r[Order[i]] = Default(Order[i])
    BY DEF KeepsPrefix, r
<1> TAKE i \in 1..Len(Order)
<1>2. n \in Nat /\ i \in Nat
      BY Names
<1>3. CASE i <= n
      BY <1>1, <1>2, <1>3
<1>4. CASE ~(i <= n)
  <2>1. r[Order[i]] = Default(Order[i])
        BY <1>1, <1>4
  <2> QED BY <1>2, <1>4, <2>1
<1> QED BY <1>3, <1>4

LEMMA BrokenLineKeepsPrefix ==
  ASSUME NEW f, f.ok, NEW text, NEW c, NEW n \in 0..Len(Order), n < Len(Order),
         FirstLines(text, n, c), \A m \in Name : c[m] \in Valid(m),
         NEW v \in Broken(c[Order[n + 1]]), f.text = Line(text, Order[n + 1], v)
  PROVE  KeepsPrefix(config_init(f), c)
<1> DEFINE r == config_init(f)
           g == [dir |-> TRUE, ok |-> TRUE, text |-> text]
<1>1. n \in Nat /\ n + 1 \in 1..Len(Order)
      BY Names
<1>2. \A i \in 1..Len(Order) :
        config_init(g)[Order[i]] = IF i <= n THEN c[Order[i]] ELSE Default(Order[i])
  <2>1. g.ok /\ g.text = text
        OBVIOUS
  <2> HIDE DEF g
  <2> QED BY <2>1, ReadFirstLines
<1>3. ASSUME NEW i \in 1..Len(Order), i # n + 1
      PROVE  r[Order[i]] = IF i <= n THEN c[Order[i]] ELSE Default(Order[i])
  <2>1. Order[i] # Order[n + 1] /\ Order[i] \in Name
        BY <1>1, <1>3, OrderAssumption, Names
  <2>2. Order[i] \in DOMAIN f.text <=> Order[i] \in DOMAIN text
        BY <2>1 DEF Line
  <2>3. Order[i] \in DOMAIN text => f.text[Order[i]] = text[Order[i]]
        BY <2>1 DEF Line
  <2>4. Read(Order[i], f.text) = Read(Order[i], text)
        BY <2>2, <2>3 DEF Read
  <2>5. r[Order[i]] = Read(Order[i], f.text) /\ config_init(g)[Order[i]] = Read(Order[i], text)
        BY <2>1 DEF config_init
  <2> HIDE DEF r, g
  <2> QED BY <1>2, <2>4, <2>5
<1>4. r[Order[n + 1]] \in {v, Default(Order[n + 1])}
  <2>1. Order[n + 1] \in Name
        BY <1>1, Names
  <2>2. r[Order[n + 1]] = Read(Order[n + 1], f.text)
        BY <2>1 DEF config_init
  <2>3. Order[n + 1] \in DOMAIN f.text /\ f.text[Order[n + 1]] = v
        BY DEF Line
  <2> QED BY <2>2, <2>3 DEF Read
<1> HIDE DEF r, g
<1> SUFFICES \A i \in 1..Len(Order) :
               CASE i <= n    -> r[Order[i]] = c[Order[i]]
                 [] i = n + 1 -> \/ r[Order[i]] = Default(Order[i])
                                 \/ r[Order[i]] \in Broken(c[Order[i]])
                 [] OTHER     -> r[Order[i]] = Default(Order[i])
    BY DEF KeepsPrefix, r
<1> TAKE i \in 1..Len(Order)
<1>5. CASE i = n + 1
  <2>1. ~(i <= n)
        BY <1>1, <1>5
  <2>2. \/ r[Order[i]] = Default(Order[i])
        \/ r[Order[i]] \in Broken(c[Order[i]])
        BY <1>4, <1>5
  <2> QED BY <1>5, <2>1, <2>2
<1>6. CASE i # n + 1
      BY <1>3, <1>6
<1> QED BY <1>5, <1>6

\* One more line.
LEMMA LineExtends ==
  ASSUME NEW text, NEW c, NEW n \in 0..Len(Order), n < Len(Order), FirstLines(text, n, c)
  PROVE  FirstLines(Line(text, Order[n + 1], c[Order[n + 1]]), n + 1, c)
<1> DEFINE t == Line(text, Order[n + 1], c[Order[n + 1]])
<1>1. n \in Nat /\ n + 1 \in 1..Len(Order)
      BY Names
<1>2. 1..n + 1 = 1..n \cup {n + 1}
      BY <1>1
<1>3. DOMAIN t = {Order[i] : i \in 1..n + 1}
      BY <1>2 DEF FirstLines, Line
<1>4. ASSUME NEW i \in 1..n + 1 PROVE t[Order[i]] = c[Order[i]]
  <2>1. CASE i = n + 1
        BY <2>1 DEF Line
  <2>2. CASE i # n + 1
    <3>1. i \in 1..n /\ i \in 1..Len(Order)
          BY <1>1, <2>2
    <3>2. Order[i] # Order[n + 1] /\ Order[i] \in DOMAIN text
          BY <1>1, <2>2, <3>1, OrderAssumption DEF FirstLines
    <3> QED BY <3>1, <3>2 DEF Line, FirstLines
  <2> QED BY <2>1, <2>2
<1> HIDE DEF t
<1>5. FirstLines(t, n + 1, c)
      BY <1>3, <1>4 DEF FirstLines
<1> QED BY <1>5 DEF t

-----------------------------------------------------------------------------
(* The invariant                                                            *)

LEMMA DefaultsKept ==
  ASSUME NEW f, ~f.ok, NEW ch
  PROVE  config_init(f) = Defaults /\ KeepsPrefix(config_init(f), ch)
BY DEF config_init, Defaults, KeepsPrefix

LEMMA InitInv == Init => SettingsInv
<1> SUFFICES ASSUME Init PROVE SettingsInv
    OBVIOUS
<1>1. PICK dir \in BOOLEAN : file = NoFile(dir)
      BY DEF Init
<1>2. TypesOK
  <2>1. 0 \in 0..Len(Order)
        BY Names
  <2> QED BY <1>1, <2>1 DEF Init, TypesOK, NoFile, Defaults
<1>3. SettingsHold
      BY DefaultsAssumption DEF Init, SettingsHold, ConfigValid, LiveIsConfig, Defaults
<1>4. ~file.ok
      BY <1>1 DEF NoFile
<1>5. FileIsChosen
      BY <1>4, DefaultsKept DEF FileIsChosen, Undisturbed
<1> QED BY <1>2, <1>3, <1>4, <1>5 DEF Init, SettingsInv

\* Steps that leave the file, and what is known about it, alone.
LEMMA FileUnchanged ==
  ASSUME UNCHANGED <<file, written, chosen>>
  PROVE  FileIsChosen' <=> FileIsChosen
BY DEF FileIsChosen, Undisturbed, SavedNames

LEMMA StartInv ==
  ASSUME SettingsInv, Start
  PROVE  SettingsInv'
<1>1. config' = config_init(file)
      BY DEF Start
<1>2. TypesOK'
      BY <1>1, ReadsValid DEF SettingsInv, Start, TypesOK
<1>3. SettingsHold'
      BY <1>1, ReadsValid DEF Start, SettingsHold, ConfigValid, LiveIsConfig
<1>4. FileIsChosen'
      BY FileUnchanged DEF SettingsInv, Start
<1> QED BY <1>2, <1>3, <1>4 DEF SettingsInv, Start

LEMMA OkInv ==
  ASSUME SettingsInv, NEW d \in Dialogs, Ok(d), pc = "running"
  PROVE  SettingsInv'
<1>1. config' = [n \in Name |-> IF n \in Fields(d) THEN get_entry_val(n, window[d][n])
                                ELSE config[n]]
      BY DEF Ok
<1>2. \A n \in Name : get_entry_val(n, window[d][n]) \in Valid(n)
      BY DefaultsAssumption DEF get_entry_val
<1>3. ConfigValid'
      BY <1>1, <1>2 DEF SettingsInv, SettingsHold, ConfigValid
<1>4. TypesOK'
  <2>1. config' = [n \in Name |-> config'[n]]
        BY <1>1
  <2> QED BY <2>1 DEF Ok, SettingsInv, TypesOK
<1>5. LiveIsConfig'
  <2>1. live = Applied(config)
        BY DEF SettingsInv, SettingsHold, LiveIsConfig
  <2>2. live' = AppliedBy(d, config')
        BY DEF Ok
  <2>3. d # "float" => config'["random_01"] = config["random_01"]
                       /\ config'["random_n"] = config["random_n"]
        BY <1>1, Names, DialogsAssumption DEF Fields
  <2>4. d # "int" => config'["hex_grouping"] = config["hex_grouping"]
        BY <1>1, Names, DialogsAssumption DEF Fields
  <2>5. d # "float" => RandomRange(config') = RandomRange(config)
        BY <2>3 DEF RandomRange
  <2>6. live' = Applied(config')
        BY <2>1, <2>2, <2>4, <2>5 DEF AppliedBy, Applied
  <2> QED BY <2>6 DEF LiveIsConfig
<1>6. FileIsChosen'
      BY FileUnchanged DEF SettingsInv, Ok
<1> QED BY <1>3, <1>4, <1>5, <1>6 DEF SettingsInv, SettingsHold, Ok

LEMMA ExitInv ==
  ASSUME SettingsInv, Exit
  PROVE  SettingsInv'
<1>1. 0 \in 0..Len(Order)
      BY Names
<1>2. SettingsHold'
      BY DEF SettingsInv, SettingsHold, ConfigValid, LiveIsConfig, Exit
<1>3. CASE file.dir
  <2>1. pc' = "saving" /\ file' = [file EXCEPT !.ok = TRUE, !.text = <<>>]
        BY <1>3 DEF Exit
  <2>2. file' = [dir |-> file.dir, ok |-> TRUE, text |-> <<>>]
        BY <2>1 DEF SettingsInv, TypesOK
  <2>3. TypesOK'
        BY <1>1, <2>1, <2>2 DEF SettingsInv, TypesOK, Exit
  <2>4. FirstLines(<<>>, 0, config)
        BY DEF FirstLines
  <2>5. FileIsWritten'
        BY <2>2, <2>4 DEF FileIsWritten, Exit, FirstLines
  <2> QED BY <1>2, <1>3, <2>1, <2>2, <2>3, <2>5 DEF SettingsInv
<1>4. CASE ~file.dir
  <2>1. pc' = "off" /\ UNCHANGED file /\ ~file.ok
        BY <1>4 DEF Exit, SettingsInv
  <2>2. TypesOK'
        BY <1>1, <2>1 DEF SettingsInv, TypesOK, Exit
  <2>3. ~file'.ok
        BY <2>1
  <2>4. FileIsChosen'
        BY <2>3, DefaultsKept DEF FileIsChosen, Undisturbed
  <2> QED BY <1>2, <1>4, <2>1, <2>2, <2>4 DEF SettingsInv
<1> QED BY <1>3, <1>4

LEMMA SaveLineInv ==
  ASSUME SettingsInv, SaveLine
  PROVE  SettingsInv'
<1> DEFINE t == Line(file.text, Order[written + 1], config[Order[written + 1]])
<1>1. written \in 0..Len(Order) /\ written < Len(Order) /\ Len(Order) \in Nat
      /\ written' = written + 1
      BY Names DEF SaveLine, SavedNames, SettingsInv, TypesOK
<1>2. file' = [file EXCEPT !.text = t]
      BY <1>1 DEF SaveLine, SavedNames
<1>3. FirstLines(t, written + 1, config)
      BY <1>1, LineExtends DEF SaveLine, SettingsInv, FileIsWritten
<1> HIDE DEF t
<1>4. file' = [dir |-> file.dir, ok |-> file.ok, text |-> t]
      BY <1>2 DEF SettingsInv, TypesOK
<1>5. TypesOK'
      BY <1>1, <1>4 DEF SaveLine, SettingsInv, TypesOK
<1>6. FileIsWritten'
      BY <1>1, <1>3, <1>4 DEF SaveLine, SettingsInv, FileIsWritten, FirstLines
<1>7. SettingsHold'
      BY DEF SaveLine, SettingsInv, SettingsHold, ConfigValid, LiveIsConfig
<1> QED BY <1>4, <1>5, <1>6, <1>7 DEF SaveLine, SettingsInv

LEMMA SaveDoneInv ==
  ASSUME SettingsInv, SaveDone
  PROVE  SettingsInv'
<1>1. /\ written = Len(Order) /\ file.ok /\ FirstLines(file.text, written, config)
      /\ config = [n \in Name |-> config[n]]
      /\ \A n \in Name : config[n] \in Valid(n)
      BY DEF SaveDone, SavedNames, SettingsInv, FileIsWritten, TypesOK, SettingsHold,
             ConfigValid
<1>2. config_init(file) = config
      BY <1>1, ReadAllLines
<1>3. KeepsPrefix(config_init(file), config)
      BY <1>1, FirstLinesKeepPrefix, Names
<1>4. FileIsChosen'
      BY <1>2, <1>3 DEF SaveDone, FileIsChosen
<1>5. TypesOK' /\ SettingsHold'
      BY DEF SaveDone, SettingsInv, TypesOK, SettingsHold, ConfigValid, LiveIsConfig
<1> QED BY <1>4, <1>5 DEF SaveDone, SettingsInv

LEMMA StopInv ==
  ASSUME SettingsInv, Stop
  PROVE  SettingsInv'
<1>1. SettingsHold'
      BY DEF Stop, SettingsInv, SettingsHold, ConfigValid, LiveIsConfig
<1>2. CASE pc # "saving"
  <2>1. UNCHANGED <<file, written, chosen>>
        BY <1>2 DEF Stop
  <2>2. FileIsChosen'
        BY <1>2, <2>1, FileUnchanged DEF SettingsInv
  <2> QED BY <1>1, <2>1, <2>2 DEF Stop, SettingsInv, TypesOK
<1>3. CASE pc = "saving"
  <2>1. /\ file.ok /\ FirstLines(file.text, written, config)
        /\ config = [n \in Name |-> config[n]] /\ written \in 0..Len(Order)
        /\ \A n \in Name : config[n] \in Valid(n)
        /\ file = [dir |-> file.dir, ok |-> file.ok, text |-> file.text]
        BY <1>3 DEF SettingsInv, FileIsWritten, TypesOK, SettingsHold, ConfigValid
  <2>2. chosen' = config /\ pc' = "off" /\ written' = written /\ config' = config
        BY <1>3 DEF Stop
  <2>3. CASE UNCHANGED file
    <3>1. written = Len(Order) => config_init(file) = config
          BY <2>1, ReadAllLines
    <3>2. KeepsPrefix(config_init(file), config)
          BY <2>1, FirstLinesKeepPrefix
    <3>3. FileIsChosen'
          BY <2>2, <2>3, <3>1, <3>2 DEF FileIsChosen, Undisturbed, SavedNames
    <3> QED BY <1>1, <2>2, <2>3, <3>3 DEF SettingsInv, TypesOK
  <2>4. CASE file' = [file EXCEPT !.ok = FALSE]
    <3>1. file' = [dir |-> file.dir, ok |-> FALSE, text |-> file.text]
          BY <2>1, <2>4
    <3>2. ~file'.ok
          BY <3>1
    <3>3. FileIsChosen'
          BY <3>2, DefaultsKept DEF FileIsChosen, Undisturbed
    <3> QED BY <1>1, <2>2, <3>1, <3>3 DEF SettingsInv, TypesOK
  <2>5. CASE /\ written < Len(SavedNames)
             /\ \E v \in Broken(config[SavedNames[written + 1]]) :
                  file' = [file EXCEPT !.text = Line(@, SavedNames[written + 1], v)]
    <3>1. written < Len(Order) /\ written # Len(Order)
          BY <2>1, <2>5, Names DEF SavedNames
    <3>2. PICK v \in Broken(config[Order[written + 1]]) :
            file' = [file EXCEPT !.text = Line(@, Order[written + 1], v)]
          BY <2>5 DEF SavedNames
    <3>3. file' = [dir |-> file.dir, ok |-> file.ok, text |-> Line(file.text, Order[written + 1], v)]
          BY <2>1, <3>2
    <3>4. file'.ok /\ file'.text = Line(file.text, Order[written + 1], v)
          BY <2>1, <3>3
    <3>5. KeepsPrefix(config_init(file'), config)
          BY <2>1, <3>1, <3>4, BrokenLineKeepsPrefix
    <3>6. KeepsPrefix(config_init(file)', chosen')
          BY <2>2, <3>5 DEF config_init
    <3>7. FileIsChosen'
          BY <2>2, <3>1, <3>6 DEF FileIsChosen, Undisturbed, SavedNames
    <3> QED BY <1>1, <2>2, <3>3, <3>7 DEF SettingsInv, TypesOK
  <2> QED BY <1>3, <2>3, <2>4, <2>5 DEF Stop
<1> QED BY <1>2, <1>3

\* A dialog is open only while the program runs.
WindowsClosed == pc # "running" => \A d \in Dialogs : window[d] = Closed

LEMMA InitClosed == Init => WindowsClosed
BY DEF Init, WindowsClosed

LEMMA StepClosed ==
  ASSUME WindowsClosed, [Next]_vars
  PROVE  WindowsClosed'
<1> USE DEF WindowsClosed
<1>1. CASE Start
      BY <1>1 DEF Start
<1>2. ASSUME NEW d \in Dialogs, Open(d) PROVE WindowsClosed'
      BY <1>2 DEF Open
<1>3. ASSUME NEW d \in Dialogs, Cancel(d) \/ Ok(d) PROVE WindowsClosed'
  <2>1. pc = "running" /\ pc' = pc
        BY <1>3 DEF Cancel, Ok
  <2> QED BY <2>1
<1>4. ASSUME NEW d \in Dialogs, NEW n \in Name, NEW v \in Entered(n), Edit(d, n, v)
      PROVE  WindowsClosed'
  <2>1. pc = "running" /\ pc' = pc
        BY <1>4 DEF Edit
  <2> QED BY <2>1
<1>5. CASE Exit \/ Stop
      BY <1>5 DEF Exit, Stop
<1>6. CASE SaveLine \/ SaveDone
      BY <1>6 DEF SaveLine, SaveDone
<1>7. CASE UNCHANGED vars
      BY <1>7 DEF vars
<1> QED BY <1>1, <1>2, <1>3, <1>4, <1>5, <1>6, <1>7 DEF Next

LEMMA StepInv ==
  ASSUME SettingsInv, WindowsClosed, [Next]_vars
  PROVE  SettingsInv'
<1>1. CASE Start
      BY <1>1, StartInv
<1>2. ASSUME NEW d \in Dialogs, Open(d) \/ Cancel(d) PROVE SettingsInv'
  <2>1. UNCHANGED <<config, live, file, pc, written, chosen>>
        BY <1>2 DEF Open, Cancel
  <2> QED BY <2>1, FileUnchanged
         DEF SettingsInv, TypesOK, SettingsHold, ConfigValid, LiveIsConfig, FileIsWritten,
             FirstLines
<1>3. ASSUME NEW d \in Dialogs, Ok(d) PROVE SettingsInv'
  <2>1. window[d] # Closed
        BY <1>3 DEF Ok
  <2>2. pc = "running"
        BY <2>1 DEF WindowsClosed
  <2> QED BY <1>3, <2>2, OkInv
<1>4. ASSUME NEW d \in Dialogs, NEW n \in Name, NEW v \in Entered(n), Edit(d, n, v)
      PROVE  SettingsInv'
  <2>1. UNCHANGED <<config, live, file, pc, written, chosen>>
        BY <1>4 DEF Edit
  <2> QED BY <2>1, FileUnchanged
         DEF SettingsInv, TypesOK, SettingsHold, ConfigValid, LiveIsConfig, FileIsWritten,
             FirstLines
<1>5. CASE Exit
      BY <1>5, ExitInv
<1>6. CASE SaveLine
      BY <1>6, SaveLineInv
<1>7. CASE SaveDone
      BY <1>7, SaveDoneInv
<1>8. CASE Stop
      BY <1>8, StopInv
<1>9. CASE UNCHANGED vars
      BY <1>9, FileUnchanged
         DEF vars, SettingsInv, TypesOK, SettingsHold, ConfigValid, LiveIsConfig, FileIsWritten,
             FirstLines
<1> QED BY <1>1, <1>2, <1>3, <1>4, <1>5, <1>6, <1>7, <1>8, <1>9 DEF Next

-----------------------------------------------------------------------------
(* Theorems                                                                 *)

\* The invariant holds in every reachable state, with every dialog closed while the
\* program does not run.
THEOREM SettingsInvariant == Spec => [](SettingsInv /\ WindowsClosed)
<1>1. Init => SettingsInv /\ WindowsClosed
      BY InitInv, InitClosed
<1>2. SettingsInv /\ WindowsClosed /\ [Next]_vars => (SettingsInv /\ WindowsClosed)'
      BY StepInv, StepClosed
<1> QED BY <1>1, <1>2, PTL DEF Spec

\* Whatever the file holds, the dialogs are given or a stop leaves behind, the program
\* works with valid settings, and the calculator with those the dialogs show.
THEOREM SettingsAlwaysHold == Spec => []SettingsHold
<1>1. SettingsInv => SettingsHold
      BY DEF SettingsInv
<1> QED BY <1>1, SettingsInvariant, PTL

\* A start after an undisturbed end finds what was chosen, for any number of settings.
THEOREM RestartsKeep == Spec => RestartKeeps
<1>1. SettingsInv /\ Start =>
        /\ Undisturbed => config' = chosen
        /\ ~file.dir => config' = Defaults
  <2> SUFFICES ASSUME SettingsInv, Start
               PROVE  /\ Undisturbed => config' = chosen
                      /\ ~file.dir => config' = Defaults
      OBVIOUS
  <2>1. config' = config_init(file) /\ FileIsChosen
        BY DEF Start, SettingsInv
  <2>2. ~file.dir => config_init(file) = Defaults
        BY DefaultsKept DEF SettingsInv
  <2> QED BY <2>1, <2>2 DEF FileIsChosen
<1> QED BY <1>1, SettingsInvariant, PTL DEF RestartKeeps

\* A stop at any point of any writing leaves the first lines of the file as chosen, at
\* most one value broken off, and the rest to the defaults.
THEOREM StopsKeepPrefix == Spec => StopKeepsPrefix
<1>1. SettingsInv /\ Start => KeepsPrefix(config', chosen)
      BY DEF Start, SettingsInv, FileIsChosen
<1>2. SettingsInv /\ Start =>
        \/ config' = Defaults
        \/ \E k \in 0..Len(Order) :
             \A i \in 1..Len(Order) :
               CASE i <= k     -> config'[Order[i]] = chosen[Order[i]]
                 [] i = k + 1  -> \/ config'[Order[i]] = Default(Order[i])
                                  \/ config'[Order[i]] \in Broken(chosen[Order[i]])
                 [] OTHER      -> config'[Order[i]] = Default(Order[i])
      BY <1>1 DEF KeepsPrefix
<1> QED BY <1>2, SettingsInvariant, PTL DEF StopKeepsPrefix

-----------------------------------------------------------------------------
(* ConstantsFile                                                            *)

\* The lines rws are entries under the category line name, in the order of the file.
Belongs(name, rws) ==
  /\ name \in 1..Len(lines) /\ lines[name] = "category"
  /\ rws \in Seq(1..Len(lines))
  /\ \A k \in 1..Len(rws) :
       /\ name < rws[k] /\ lines[rws[k]] = "entry"
       /\ \A j \in name + 1..rws[k] : lines[j] # "category"
  /\ \A k, l \in 1..Len(rws) : k < l => rws[k] < rws[l]

\* Every finished category stands in the file, found memory, and has its own entries.
EntriesBelong ==
  \A i \in 0..cat_index - 1 :
    /\ Belongs(cat_table[i].name, cat_table[i].rows)
    /\ cat_table[i].name \notin failed

\* The category that is filled is the last one read.
Filling ==
  Reading /\ current_cat # NULL =>
    /\ Belongs(current_cat, rows)
    /\ current_cat < next /\ current_cat \notin failed
    /\ \A j \in current_cat + 1..next - 1 : lines[j] # "category"
    /\ \A k \in 1..Len(rows) : rows[k] < next

LoadTypes ==
  /\ lines \in Seq(Kinds)
  /\ next \in Nat \ {0}
  /\ current_cat \in Nat
  /\ cat_index \in 0..MAX_CATEGORIES
  /\ rows \in Seq(Nat)
  /\ cat_table \in [0..MAX_CATEGORIES -> [name : Nat, rows : Seq(Nat)]]
  /\ num_categories \in {-1} \cup 0..MAX_CATEGORIES
  /\ \A i \in failed : i \in Nat /\ i < next
  /\ \A i \in 0..cat_index - 1 : cat_table[i].name < next

LoadInv == LoadTypes /\ WithinLimits /\ EntriesBelong /\ Filling

LEMMA EmptyType == Empty \in [name : Nat, rows : Seq(Nat)]
<1>1. <<>> \in Seq(Nat)
      OBVIOUS
<1> QED BY <1>1 DEF Empty, NULL

LEMMA LoadInitInv == LoadInit => LoadInv
<1> SUFFICES ASSUME LoadInit PROVE LoadInv
    OBVIOUS
<1> USE LimitsAssumption
<1>1. LoadTypes
  <2>1. lines \in Seq(Kinds)
    <3>1. lines \in BoundedSeq(Kinds, MaxLines)
          BY DEF LoadInit
    <3>2. PICK n \in 0..MaxLines : lines \in [1..n -> Kinds]
          BY <3>1 DEF BoundedSeq, SeqOf
    <3>3. n \in Nat
          BY <3>2
    <3> QED BY <3>2, <3>3, SeqDef
  <2>2. cat_table \in [0..MAX_CATEGORIES -> [name : Nat, rows : Seq(Nat)]]
        BY EmptyType DEF LoadInit
  <2>3. rows \in Seq(Nat)
        BY DEF LoadInit
  <2> QED BY <2>1, <2>2, <2>3 DEF LoadInit, LoadTypes, NULL
<1>2. WithinLimits
      BY DEF LoadInit, WithinLimits, NULL
<1>3. EntriesBelong /\ Filling
      BY DEF LoadInit, EntriesBelong, Filling, NULL
<1> QED BY <1>1, <1>2, <1>3 DEF LoadInv

\* What stands under a category stays there.
LEMMA SameLines ==
  ASSUME lines' = lines, NEW name, NEW rws
  PROVE  Belongs(name, rws)' <=> Belongs(name, rws)
BY DEF Belongs

\* The category that was filled is stored in a free place of the table.
LEMMA StoredInv ==
  ASSUME LoadInv, Reading, current_cat # NULL, lines' = lines,
         cat_table' = Stored, cat_index' = cat_index + 1, \A i \in failed' : i \in failed \/ i = next
  PROVE  /\ cat_index' \in 0..MAX_CATEGORIES
         /\ cat_table' \in [0..MAX_CATEGORIES -> [name : Nat, rows : Seq(Nat)]]
         /\ cat_table'[MAX_CATEGORIES] = Empty
         /\ EntriesBelong'
         /\ \A i \in 0..cat_index : cat_table'[i].name < next
<1> USE LimitsAssumption
<1> DEFINE el == [name |-> current_cat, rows |-> rows]
<1>1. cat_index \in 0..MAX_CATEGORIES /\ cat_index < MAX_CATEGORIES
      BY DEF LoadInv, LoadTypes, WithinLimits
<1>2. el \in [name : Nat, rows : Seq(Nat)]
      BY DEF LoadInv, LoadTypes
<1>3. el.name = current_cat /\ el.rows = rows
      OBVIOUS
<1>4. cat_table' = [cat_table EXCEPT ![cat_index] = el]
      BY DEF Stored
<1> HIDE DEF el
<1>5. cat_table \in [0..MAX_CATEGORIES -> [name : Nat, rows : Seq(Nat)]]
      BY DEF LoadInv, LoadTypes
<1>6. cat_table'[MAX_CATEGORIES] = Empty
      BY <1>1, <1>4, <1>5 DEF LoadInv, WithinLimits
<1>7. ASSUME NEW i \in 0..cat_index
      PROVE  /\ Belongs(cat_table'[i].name, cat_table'[i].rows)
             /\ cat_table'[i].name \notin failed' /\ cat_table'[i].name < next
  <2>1. i \in 0..MAX_CATEGORIES
        BY <1>1
  <2>2. CASE i = cat_index
    <3>1. cat_table'[i] = el
          BY <1>4, <1>5, <2>1, <2>2
    <3>2. Belongs(current_cat, rows) /\ current_cat < next /\ current_cat \notin failed
          BY DEF LoadInv, Filling
    <3>3. current_cat \in Nat /\ next \in Nat
          BY DEF LoadInv, LoadTypes
    <3>4. current_cat \notin failed'
          BY <3>2, <3>3
    <3> QED BY <1>3, <3>1, <3>2, <3>4
  <2>3. CASE i # cat_index
    <3>1. cat_table'[i] = cat_table[i] /\ i \in 0..cat_index - 1
          BY <1>1, <1>4, <1>5, <2>1, <2>3
    <3>2. Belongs(cat_table[i].name, cat_table[i].rows) /\ cat_table[i].name \notin failed
          BY <3>1 DEF LoadInv, EntriesBelong
    <3>3. cat_table[i].name < next /\ cat_table[i].name \in Nat /\ next \in Nat
          BY <1>5, <2>1, <3>1 DEF LoadInv, LoadTypes
    <3> QED BY <3>1, <3>2, <3>3
  <2> QED BY <2>2, <2>3
<1> QED BY <1>1, <1>2, <1>4, <1>5, <1>6, <1>7, SameLines, SMTT(60) DEF EntriesBelong

\* A line is read: what was below next stays below it.
LEMMA StillBelow ==
  ASSUME LoadInv
  PROVE  /\ \A i \in failed : i \in Nat /\ i < next + 1
         /\ \A i \in 0..cat_index - 1 : cat_table[i].name < next + 1
<1>1. next \in Nat /\ \A i \in failed : i \in Nat /\ i < next
      BY DEF LoadInv, LoadTypes
<1>2. /\ cat_table \in [0..MAX_CATEGORIES -> [name : Nat, rows : Seq(Nat)]]
      /\ cat_index \in 0..MAX_CATEGORIES
      /\ \A i \in 0..cat_index - 1 : cat_table[i].name < next
      BY DEF LoadInv, LoadTypes
<1>3. \A i \in 0..cat_index - 1 : cat_table[i].name \in Nat
      BY <1>2, LimitsAssumption
<1> QED BY <1>1, <1>2, <1>3

LEMMA SkipInv ==
  ASSUME LoadInv, Skip
  PROVE  LoadInv'
<1>1. next \in Nat \ {0} /\ next \in 1..Len(lines) /\ next' = next + 1
      BY DEF LoadInv, LoadTypes, Skip, More
<1>2. LoadTypes'
      BY <1>1, StillBelow DEF LoadInv, LoadTypes, Skip
<1>3. WithinLimits' /\ EntriesBelong'
      BY SameLines DEF LoadInv, WithinLimits, EntriesBelong, Skip, Reading
<1>4. Filling'
  <2> SUFFICES ASSUME Reading, current_cat # NULL PROVE Filling'
      BY DEF Filling, Skip, Reading
  <2>1. lines[next] # "category"
        BY DEF Skip
  <2>2. current_cat \in Nat /\ rows \in Seq(Nat)
        BY DEF LoadInv, LoadTypes
  <2>3. \A j \in current_cat + 1..next : lines[j] # "category"
        BY <1>1, <2>1, <2>2 DEF LoadInv, Filling
  <2>4. \A k \in 1..Len(rows) : rows[k] < next + 1
        BY <1>1, <2>2 DEF LoadInv, Filling
  <2> QED BY <1>1, <2>2, <2>3, <2>4, SameLines DEF LoadInv, Filling, Skip, Reading
<1> QED BY <1>2, <1>3, <1>4 DEF LoadInv

LEMMA FinishInv ==
  ASSUME LoadInv, Finish
  PROVE  LoadInv'
<1>1. cat_index' \in 0..MAX_CATEGORIES /\ num_categories' = cat_index' /\ ~Reading'
  <2>1. cat_index \in 0..MAX_CATEGORIES
        BY DEF LoadInv, LoadTypes
  <2>2. current_cat # NULL => cat_index < MAX_CATEGORIES
        BY DEF LoadInv, WithinLimits, Finish
  <2>3. cat_index' \in 0..MAX_CATEGORIES
        BY <2>1, <2>2, LimitsAssumption DEF Finish
  <2> QED BY <2>3, LimitsAssumption DEF Finish, Reading
<1>2. CASE current_cat # NULL
  <2>1. /\ cat_table'[MAX_CATEGORIES] = Empty /\ EntriesBelong'
        /\ cat_table' \in [0..MAX_CATEGORIES -> [name : Nat, rows : Seq(Nat)]]
        /\ \A i \in 0..cat_index : cat_table'[i].name < next
        BY <1>2, StoredInv DEF Finish
  <2>2. LoadTypes'
        BY <1>1, <1>2, <2>1 DEF LoadInv, LoadTypes, Finish
  <2> QED BY <1>1, <2>1, <2>2 DEF LoadInv, WithinLimits, Filling, Finish
<1>3. CASE current_cat = NULL
  <2>1. LoadTypes'
        BY <1>1, <1>3 DEF LoadInv, LoadTypes, Finish
  <2>2. EntriesBelong'
        BY <1>3, SameLines DEF LoadInv, EntriesBelong, Finish
  <2> QED BY <1>1, <1>3, <2>1, <2>2 DEF LoadInv, WithinLimits, Filling, Finish
<1> QED BY <1>2, <1>3

LEMMA EntryInv ==
  ASSUME LoadInv, Entry
  PROVE  LoadInv'
<1> USE LimitsAssumption
<1>1. next \in Nat \ {0} /\ next \in 1..Len(lines) /\ next' = next + 1 /\ Reading
      BY DEF LoadInv, LoadTypes, Entry, More
<1>2. /\ rows \in Seq(Nat) /\ Len(rows) \in Nat /\ Len(rows) <= MAX_VALUES_PER_CATEGORY
      /\ current_cat \in Nat /\ current_cat # NULL /\ lines[next] = "entry"
      BY DEF LoadInv, LoadTypes, WithinLimits, Entry
<1>3. /\ Belongs(current_cat, rows) /\ current_cat < next /\ current_cat \notin failed
      /\ \A j \in current_cat + 1..next - 1 : lines[j] # "category"
      /\ \A k \in 1..Len(rows) : rows[k] < next
      BY <1>1, <1>2 DEF LoadInv, Filling
<1>4. \A j \in current_cat + 1..next : lines[j] # "category"
      BY <1>1, <1>2, <1>3
<1>5. rows' = rows \/ (rows' = Append(rows, next) /\ Len(rows) < MAX_VALUES_PER_CATEGORY)
      BY DEF Entry
<1>6. /\ rows' \in Seq(Nat) /\ Len(rows') <= MAX_VALUES_PER_CATEGORY
      /\ Belongs(current_cat, rows') /\ \A k \in 1..Len(rows') : rows'[k] < next + 1
  <2>1. CASE rows' = rows
        BY <1>1, <1>2, <1>3, <2>1
  <2>2. CASE rows' = Append(rows, next) /\ Len(rows) < MAX_VALUES_PER_CATEGORY
    <3> DEFINE new == Append(rows, next)
    <3>1. /\ new \in Seq(Nat) /\ Len(new) = Len(rows) + 1 /\ new[Len(rows) + 1] = next
          /\ \A k \in 1..Len(rows) : new[k] = rows[k]
          BY <1>1, <1>2
    <3>2. rows \in Seq(1..Len(lines))
          BY <1>3 DEF Belongs
    <3>3. new \in Seq(1..Len(lines))
          BY <1>1, <3>2
    <3> HIDE DEF new
    <3>4. \A k \in 1..Len(new) : k \in 1..Len(rows) \/ k = Len(rows) + 1
          BY <1>2, <3>1
    <3>5. \A k \in 1..Len(new) : new[k] < next + 1
      <4> SUFFICES ASSUME NEW k \in 1..Len(new) PROVE new[k] < next + 1
          OBVIOUS
      <4>1. CASE k = Len(rows) + 1
            BY <1>1, <3>1, <4>1
      <4>2. CASE k \in 1..Len(rows)
        <5>1. rows[k] \in Nat
              BY <1>2, <4>2
        <5>2. new[k] = rows[k] /\ rows[k] < next /\ next \in Nat
              BY <1>1, <1>3, <3>1, <4>2
        <5> HIDE DEF new
        <5> QED BY <5>1, <5>2
      <4> QED BY <3>4, <4>1, <4>2
    <3>6. \A k \in 1..Len(new) :
            /\ current_cat < new[k] /\ lines[new[k]] = "entry"
            /\ \A j \in current_cat + 1..new[k] : lines[j] # "category"
          BY <1>2, <1>3, <1>4, <3>1, <3>4 DEF Belongs
    <3>7. \A k, l \in 1..Len(new) : k < l => new[k] < new[l]
      <4> SUFFICES ASSUME NEW k \in 1..Len(new), NEW l \in 1..Len(new), k < l
                   PROVE  new[k] < new[l]
          OBVIOUS
      <4>1. k \in 1..Len(rows)
            BY <1>2, <3>1
      <4>2. CASE l = Len(rows) + 1
            BY <1>3, <3>1, <4>1, <4>2
      <4>3. CASE l \in 1..Len(rows)
            BY <1>3, <3>1, <4>1, <4>3 DEF Belongs
      <4> QED BY <3>4, <4>2, <4>3
    <3>8. Belongs(current_cat, new)
          BY <1>3, <3>3, <3>6, <3>7 DEF Belongs
    <3>9. Len(new) <= MAX_VALUES_PER_CATEGORY
          BY <1>2, <2>2, <3>1
    <3> QED BY <2>2, <3>1, <3>5, <3>8, <3>9 DEF new
  <2> QED BY <1>5, <2>1, <2>2
<1>7. LoadTypes'
  <2>1. /\ lines' = lines /\ next' \in Nat \ {0} /\ current_cat' = current_cat
        /\ cat_index' = cat_index /\ cat_table' = cat_table
        /\ num_categories' = num_categories /\ failed' = failed
        BY <1>1 DEF Entry
  <2>2. rows' \in Seq(Nat)
        BY <1>6
  <2>3. /\ \A i \in failed' : i \in Nat /\ i < next'
        /\ \A i \in 0..cat_index' - 1 : cat_table'[i].name < next'
        BY <1>1, <2>1, StillBelow
  <2> QED BY <2>1, <2>2, <2>3 DEF LoadInv, LoadTypes
<1>8. WithinLimits' /\ EntriesBelong'
      BY <1>6, SameLines DEF LoadInv, WithinLimits, EntriesBelong, Entry, Reading
<1>9. Filling'
  <2>1. lines' = lines /\ current_cat' = current_cat /\ failed' = failed
        BY DEF Entry
  <2>2. next' - 1 = next /\ current_cat < next'
        BY <1>1, <1>2, <1>3
  <2>3. Belongs(current_cat, rows)'
        BY <1>6, <2>1 DEF Belongs
  <2>4. current_cat' < next' /\ current_cat' \notin failed'
        BY <1>3, <2>1, <2>2
  <2>5. \A j \in current_cat' + 1..next' - 1 : lines'[j] # "category"
        BY <1>4, <2>1, <2>2
  <2>6. \A k \in 1..Len(rows') : rows'[k] < next'
        BY <1>1, <1>6
  <2> QED BY <2>3, <2>4, <2>5, <2>6 DEF Filling
<1> QED BY <1>7, <1>8, <1>9 DEF LoadInv

\* Nothing is in a category that has just been read.
LEMMA NothingYet ==
  ASSUME NEW i \in 1..Len(lines), lines[i] = "category"
  PROVE  Belongs(i, <<>>)
<1>1. <<>> \in Seq(1..Len(lines)) /\ Len(<<>>) = 0
      OBVIOUS
<1> QED BY <1>1 DEF Belongs

LEMMA CategoryInv ==
  ASSUME LoadInv, Category
  PROVE  LoadInv'
<1> USE LimitsAssumption
<1> DEFINE stored == current_cat # NULL
           index  == IF stored THEN cat_index + 1 ELSE cat_index
<1>1. /\ next \in Nat \ {0} /\ next \in 1..Len(lines) /\ next' = next + 1 /\ Reading
      /\ lines[next] = "category" /\ lines' = lines
      BY DEF LoadInv, LoadTypes, Category, More
<1>2. cat_table' = (IF stored THEN Stored ELSE cat_table) /\ cat_index' = index
      BY DEF Category
<1>3. \/ /\ index >= MAX_CATEGORIES /\ current_cat' = NULL /\ num_categories' = index
         /\ rows' = rows /\ failed' = failed
      \/ /\ index < MAX_CATEGORIES /\ rows' = <<>> /\ num_categories' = num_categories
         /\ \/ current_cat' = next /\ failed' = failed
            \/ current_cat' = NULL /\ failed' = failed \cup {next}
  <2>1. index \in Nat
        BY DEF LoadInv, LoadTypes
  <2> QED BY <2>1 DEF Category
<1>4. \A i \in failed' : i \in failed \/ i = next
      BY <1>3
<1>5. /\ index \in 0..MAX_CATEGORIES
      /\ cat_table' \in [0..MAX_CATEGORIES -> [name : Nat, rows : Seq(Nat)]]
      /\ cat_table'[MAX_CATEGORIES] = Empty
      /\ EntriesBelong'
      /\ \A i \in 0..index - 1 : cat_table'[i].name < next
  <2>1. CASE stored
    <3>1. cat_table' = Stored /\ cat_index' = cat_index + 1 /\ index = cat_index + 1
          BY <1>2, <2>1
    <3>2. cat_index \in Nat
          BY DEF LoadInv, LoadTypes
    <3>3. /\ cat_index' \in 0..MAX_CATEGORIES
          /\ cat_table' \in [0..MAX_CATEGORIES -> [name : Nat, rows : Seq(Nat)]]
          /\ cat_table'[MAX_CATEGORIES] = Empty
          /\ EntriesBelong'
          /\ \A i \in 0..cat_index : cat_table'[i].name < next
          BY <1>1, <1>4, <2>1, <3>1, StoredInv
    <3>4. index = cat_index' /\ index - 1 = cat_index
          BY <3>1, <3>2
    <3> HIDE DEF index, stored
    <3> QED BY <3>3, <3>4
  <2>2. CASE ~stored
    <3>1. cat_table' = cat_table /\ cat_index' = cat_index /\ index = cat_index
          BY <1>2, <2>2
    <3>2. /\ cat_index \in 0..MAX_CATEGORIES /\ cat_table[MAX_CATEGORIES] = Empty
          /\ cat_table \in [0..MAX_CATEGORIES -> [name : Nat, rows : Seq(Nat)]]
          /\ next \in Nat
          /\ \A i \in 0..cat_index - 1 : cat_table[i].name < next
          BY DEF LoadInv, LoadTypes, WithinLimits
    <3>3. EntriesBelong'
      <4>1. ASSUME NEW i \in 0..cat_index - 1
            PROVE  /\ Belongs(cat_table[i].name, cat_table[i].rows)
                   /\ cat_table[i].name \notin failed'
        <5>1. /\ Belongs(cat_table[i].name, cat_table[i].rows)
              /\ cat_table[i].name \notin failed
              BY DEF LoadInv, EntriesBelong
        <5>2. cat_table[i].name < next /\ cat_table[i].name \in Nat
              BY <3>2
        <5> QED BY <1>1, <1>4, <5>1, <5>2
      <4> QED BY <1>1, <3>1, <4>1, SameLines DEF EntriesBelong
    <3> QED BY <3>1, <3>2, <3>3
  <2> QED BY <2>1, <2>2
<1> HIDE DEF index, stored
<1>6. LoadTypes'
  <2>1. \A i \in failed' : i \in Nat /\ i < next'
        BY <1>1, <1>4, StillBelow
  <2>2. \A i \in 0..cat_index' - 1 : cat_table'[i].name < next'
    <3>1. \A i \in 0..index - 1 : cat_table'[i].name \in Nat
      <4>1. PICK n \in 0..MAX_CATEGORIES : n = index
            BY <1>5
      <4>2. \A i \in 0..n - 1 : i \in 0..MAX_CATEGORIES
            OBVIOUS
      <4>3. \A i \in 0..n - 1 : cat_table'[i].name \in Nat
            BY <1>5, <4>2
      <4> QED BY <4>1, <4>3
    <3> QED BY <1>1, <1>2, <1>5, <3>1, SMTT(60)
  <2>3. current_cat' \in Nat
        BY <1>1, <1>3 DEF NULL
  <2>4. num_categories' \in {-1} \cup 0..MAX_CATEGORIES
        BY <1>3, <1>5 DEF LoadInv, LoadTypes
  <2>5. rows' \in Seq(Nat)
    <3>1. rows \in Seq(Nat) /\ <<>> \in Seq(Nat)
          BY DEF LoadInv, LoadTypes
    <3> QED BY <1>3, <3>1
  <2>6. lines' \in Seq(Kinds) /\ next' \in Nat \ {0}
        BY <1>1 DEF LoadInv, LoadTypes
  <2>7. cat_index' \in 0..MAX_CATEGORIES
        BY <1>2, <1>5
  <2> QED BY <1>5, <2>1, <2>2, <2>3, <2>4, <2>5, <2>6, <2>7 DEF LoadTypes
<1>7. WithinLimits'
  <2>1. Len(rows') <= MAX_VALUES_PER_CATEGORY
        BY <1>3 DEF LoadInv, WithinLimits
  <2>2. (Reading /\ current_cat # NULL)' => cat_index' < MAX_CATEGORIES
        BY <1>2, <1>3
  <2> QED BY <1>5, <2>1, <2>2 DEF WithinLimits
<1>8. Filling'
  <2> SUFFICES ASSUME current_cat' # NULL PROVE Filling'
      BY DEF Filling
  <2>1. current_cat' = next /\ failed' = failed /\ rows' = <<>>
        BY <1>3
  <2>2. Belongs(current_cat, rows)'
        BY <1>1, <2>1, NothingYet, SameLines DEF Belongs
  <2>3. next \notin failed
    <3>1. \A i \in failed : i \in Nat /\ i < next
          BY DEF LoadInv, LoadTypes
    <3> QED BY <1>1, <3>1
  <2>4. \A j \in current_cat' + 1..next' - 1 : lines'[j] # "category"
        BY <1>1, <2>1
  <2>5. \A k \in 1..Len(rows') : rows'[k] < next'
        BY <2>1
  <2> QED BY <1>1, <2>1, <2>2, <2>3, <2>4, <2>5 DEF Filling
<1> QED BY <1>5, <1>6, <1>7, <1>8 DEF LoadInv

LEMMA LoadStepInv ==
  ASSUME LoadInv, [LoadNext]_loadVars
  PROVE  LoadInv'
<1>1. CASE LoadNext
      BY <1>1, SkipInv, CategoryInv, EntryInv, FinishInv DEF LoadNext
<1>2. CASE UNCHANGED loadVars
  <2>1. /\ lines' = lines /\ next' = next /\ current_cat' = current_cat
        /\ cat_index' = cat_index /\ rows' = rows /\ cat_table' = cat_table
        /\ num_categories' = num_categories /\ failed' = failed
        BY <1>2 DEF loadVars
  <2>2. LoadTypes'
        BY <2>1 DEF LoadInv, LoadTypes
  <2>3. WithinLimits'
        BY <2>1 DEF LoadInv, WithinLimits, Reading
  <2>4. EntriesBelong'
        BY <2>1, SameLines DEF LoadInv, EntriesBelong
  <2>5. Filling'
        BY <2>1, SameLines DEF LoadInv, Filling, Reading
  <2> QED BY <2>2, <2>3, <2>4, <2>5 DEF LoadInv
<1> QED BY <1>1, <1>2

\* The invariant of the loader, from which the two theorems below follow.
THEOREM LoaderInvariant == LoadSpec => []LoadInv
<1>1. LoadInit => LoadInv
      BY LoadInitInv
<1>2. LoadInv /\ [LoadNext]_loadVars => LoadInv'
      BY LoadStepInv
<1> QED BY <1>1, <1>2, PTL DEF LoadSpec

\* Whatever the file holds and whichever allocation fails, load_entries writes
\* neither past cat_table nor past the rows of a category.
THEOREM LimitsKept == LoadSpec => []WithinLimits
<1>1. LoadInv => WithinLimits
      BY DEF LoadInv
<1> QED BY <1>1, LoaderInvariant, PTL

\* No entry of the file is offered under a category that it does not stand under,
\* also when a category between them found no memory.
THEOREM EntriesStay == LoadSpec => []EntriesBelong
<1>1. LoadInv => EntriesBelong
      BY DEF LoadInv
<1> QED BY <1>1, LoaderInvariant, PTL

-----------------------------------------------------------------------------
(* The menu is the file                                                     *)

\* k is a row, or the rows were full before it came.
RowOrFull(rws, k) ==
  \/ \E i \in 1..Len(rws) : rws[i] = k
  \/ Len(rws) = MAX_VALUES_PER_CATEGORY /\ \A i \in 1..Len(rws) : rws[i] < k

InTable(k) == \E i \in 0..cat_index - 1 : cat_table[i].name = k

\* A finished category has all its entries that there is room for.
RowsComplete ==
  \A i \in 0..cat_index - 1 :
    /\ Len(cat_table[i].rows) <= MAX_VALUES_PER_CATEGORY
    /\ \A k \in EntriesOf(cat_table[i].name) : RowOrFull(cat_table[i].rows, k)

NamesInOrder ==
  \A i, j \in 0..cat_index - 1 : i < j => cat_table[i].name < cat_table[j].name

\* While the file is read no category that found memory is missing so far, nor an entry.
SoFarComplete ==
  Reading =>
    /\ \A k \in CategoryLines : k < next => k = current_cat \/ InTable(k)
    /\ current_cat # NULL =>
         /\ \A i \in 0..cat_index - 1 : cat_table[i].name < current_cat
         /\ \A k \in EntriesOf(current_cat) : k < next => RowOrFull(rows, k)

\* In the end none is, unless the table is full.
TableComplete ==
  ~Reading =>
    /\ num_categories = cat_index
    /\ \A k \in CategoryLines :
         \/ InTable(k)
         \/ cat_index = MAX_CATEGORIES /\ \A i \in 0..cat_index - 1 : cat_table[i].name < k

MenuInv == RowsComplete /\ NamesInOrder /\ SoFarComplete /\ TableComplete

\* The types of what is read, spelled out.
LEMMA LoadFacts ==
  ASSUME LoadInv
  PROVE  /\ lines \in Seq(Kinds) /\ Len(lines) \in Nat /\ DOMAIN lines = 1..Len(lines)
         /\ next \in Nat \ {0} /\ current_cat \in Nat /\ cat_index \in 0..MAX_CATEGORIES
         /\ cat_index \in Nat /\ rows \in Seq(Nat) /\ Len(rows) <= MAX_VALUES_PER_CATEGORY
         /\ cat_table \in [0..MAX_CATEGORIES -> [name : Nat, rows : Seq(Nat)]]
         /\ \A i \in 0..cat_index - 1 :
              /\ cat_table[i].name \in Nat /\ cat_table[i].name < next
              /\ cat_table[i].rows \in Seq(Nat)
         /\ \A k \in failed : k \in Nat /\ k < next
         /\ MAX_CATEGORIES \in Nat /\ MAX_VALUES_PER_CATEGORY \in Nat
<1> USE LimitsAssumption
<1>1. /\ lines \in Seq(Kinds) /\ next \in Nat \ {0} /\ current_cat \in Nat
      /\ cat_index \in 0..MAX_CATEGORIES /\ rows \in Seq(Nat)
      /\ cat_table \in [0..MAX_CATEGORIES -> [name : Nat, rows : Seq(Nat)]]
      /\ \A i \in failed : i \in Nat /\ i < next
      /\ \A i \in 0..cat_index - 1 : cat_table[i].name < next
      /\ Len(rows) <= MAX_VALUES_PER_CATEGORY
      BY DEF LoadInv, LoadTypes, WithinLimits
<1>2. \A i \in 0..cat_index - 1 : cat_table[i].name \in Nat /\ cat_table[i].rows \in Seq(Nat)
      BY <1>1
<1> QED BY <1>1, <1>2

\* What stands in the file stays there.
LEMMA SameFile ==
  ASSUME lines' = lines
  PROVE  /\ \A n : EntriesOf(n)' = EntriesOf(n)
         /\ failed' = failed => CategoryLines' = CategoryLines
         /\ \A n : failed' = failed \cup {n} => CategoryLines' \subseteq CategoryLines \ {n}
BY DEF EntriesOf, CategoryLines

\* One lemma for each action.
LEMMA MenuInit == LoadInit => MenuInv
<1> SUFFICES ASSUME LoadInit PROVE MenuInv
    OBVIOUS
<1>1. lines \in Seq(Kinds)
      BY LoadInitInv DEF LoadInv, LoadTypes
<1>2. cat_index = 0 /\ next = 1 /\ current_cat = NULL /\ Reading
      BY DEF LoadInit, Reading
<1>3. RowsComplete /\ NamesInOrder /\ TableComplete
      BY <1>2 DEF RowsComplete, NamesInOrder, TableComplete
<1>4. SoFarComplete
      BY <1>1, <1>2 DEF SoFarComplete, CategoryLines, NULL
<1> QED BY <1>3, <1>4 DEF MenuInv

LEMMA MenuSkip ==
  ASSUME LoadInv, MenuInv, Skip
  PROVE  MenuInv'
<1>1. /\ next' = next + 1 /\ Reading /\ Reading' /\ next \in 1..Len(lines)
      /\ lines[next] # "category" /\ (lines[next] = "entry" => current_cat = NULL)
      /\ UNCHANGED <<lines, current_cat, cat_index, rows, cat_table, num_categories, failed>>
      BY LoadFacts DEF Skip, More, Reading
<1>2. /\ CategoryLines' = CategoryLines /\ \A n : EntriesOf(n)' = EntriesOf(n)
      /\ \A k : InTable(k)' = InTable(k)
      BY <1>1, SameFile DEF InTable
<1>3. RowsComplete' /\ NamesInOrder' /\ TableComplete'
      BY <1>1, <1>2 DEF MenuInv, RowsComplete, NamesInOrder, TableComplete, RowOrFull
<1>4. ASSUME NEW k \in CategoryLines, k < next + 1
      PROVE  k = current_cat \/ InTable(k)
  <2>1. k \in Nat /\ k # next
        BY <1>1, LoadFacts DEF CategoryLines
  <2>2. k < next
        BY <1>4, <2>1, LoadFacts
  <2> QED BY <1>1, <2>2 DEF MenuInv, SoFarComplete
<1>5. ASSUME current_cat # NULL, NEW k \in EntriesOf(current_cat), k < next + 1
      PROVE  RowOrFull(rows, k)
  <2>1. k \in Nat /\ k # next
        BY <1>1, <1>5, LoadFacts DEF EntriesOf
  <2>2. k < next
        BY <1>5, <2>1, LoadFacts
  <2> QED BY <1>1, <1>5, <2>2 DEF MenuInv, SoFarComplete
<1>6. SoFarComplete'
      BY <1>1, <1>2, <1>4, <1>5 DEF MenuInv, SoFarComplete, RowOrFull
<1> QED BY <1>3, <1>6 DEF MenuInv

LEMMA MenuEntry ==
  ASSUME LoadInv, MenuInv, Entry
  PROVE  MenuInv'
<1>1. /\ next' = next + 1 /\ Reading /\ Reading' /\ next \in 1..Len(lines)
      /\ lines[next] = "entry" /\ current_cat # NULL
      /\ rows' = IF Len(rows) < MAX_VALUES_PER_CATEGORY THEN Append(rows, next) ELSE rows
      /\ UNCHANGED <<lines, current_cat, cat_index, cat_table, num_categories, failed>>
      BY LoadFacts DEF Entry, More, Reading
<1>2. /\ CategoryLines' = CategoryLines /\ \A n : EntriesOf(n)' = EntriesOf(n)
      /\ \A k : InTable(k)' = InTable(k)
      BY <1>1, SameFile DEF InTable
<1>3. RowsComplete' /\ NamesInOrder' /\ TableComplete'
      BY <1>1, <1>2 DEF MenuInv, RowsComplete, NamesInOrder, TableComplete, RowOrFull
<1>4. ASSUME NEW k \in CategoryLines, k < next + 1
      PROVE  k = current_cat \/ InTable(k)
  <2>1. k \in Nat /\ k # next
        BY <1>1, LoadFacts DEF CategoryLines
  <2>2. k < next
        BY <1>4, <2>1, LoadFacts
  <2> QED BY <1>1, <2>2 DEF MenuInv, SoFarComplete
<1>5. ASSUME NEW k \in EntriesOf(current_cat), k < next + 1
      PROVE  RowOrFull(rows', k)
  <2>1. k \in Nat /\ rows \in Seq(Nat) /\ Len(rows) \in Nat /\ Len(rows) <= MAX_VALUES_PER_CATEGORY
        /\ next \in Nat
        BY <1>5, LoadFacts DEF EntriesOf
  <2>2. \A i \in 1..Len(rows) : rows[i] < next
        BY <1>1 DEF LoadInv, Filling
  <2>3. CASE Len(rows) < MAX_VALUES_PER_CATEGORY
    <3>1. /\ rows' = Append(rows, next) /\ Len(rows') = Len(rows) + 1
          /\ rows'[Len(rows) + 1] = next /\ \A i \in 1..Len(rows) : rows'[i] = rows[i]
          BY <1>1, <2>1, <2>3
    <3>2. CASE k = next
          BY <2>1, <3>1, <3>2 DEF RowOrFull
    <3>3. CASE k # next
      <4>1. k < next
            BY <1>5, <2>1, <3>3
      <4>2. PICK i \in 1..Len(rows) : rows[i] = k
            BY <1>1, <2>1, <2>3, <4>1 DEF MenuInv, SoFarComplete, RowOrFull
      <4>3. i \in 1..Len(rows') /\ rows'[i] = k
            BY <2>1, <3>1, <4>2
      <4> QED BY <4>3 DEF RowOrFull
    <3> QED BY <3>2, <3>3
  <2>4. CASE ~(Len(rows) < MAX_VALUES_PER_CATEGORY)
    <3>1. rows' = rows /\ Len(rows) = MAX_VALUES_PER_CATEGORY
          BY <1>1, <2>1, <2>4, LimitsAssumption
    <3>2. CASE k = next
          BY <2>2, <3>1, <3>2 DEF RowOrFull
    <3>3. CASE k # next
      <4>1. k < next
            BY <1>5, <2>1, <3>3
      <4> QED BY <1>1, <3>1, <4>1 DEF MenuInv, SoFarComplete
    <3> QED BY <3>2, <3>3
  <2> QED BY <2>3, <2>4
<1>6. SoFarComplete'
      BY <1>1, <1>2, <1>4, <1>5 DEF MenuInv, SoFarComplete, RowOrFull
<1> QED BY <1>3, <1>6 DEF MenuInv

\* The category that was filled is complete once the next one is read, or the file ends.
LEMMA StoredMenu ==
  ASSUME LoadInv, MenuInv, Reading, current_cat # NULL, lines' = lines,
         cat_table' = Stored, cat_index' = cat_index + 1,
         next > Len(lines) \/ lines[next] = "category"
  PROVE  /\ RowsComplete' /\ NamesInOrder'
         /\ \A k \in CategoryLines : k < next => InTable(k)'
         /\ \A i \in 0..cat_index : cat_table'[i].name < next
<1> DEFINE el == [name |-> current_cat, rows |-> rows]
<1>0. /\ cat_index < MAX_CATEGORIES /\ current_cat < next
      /\ \A j \in current_cat + 1..next - 1 : lines[j] # "category"
      BY DEF LoadInv, WithinLimits, Filling
<1>1. /\ cat_index \in Nat /\ next \in Nat /\ current_cat \in Nat /\ Len(lines) \in Nat
      /\ DOMAIN lines = 1..Len(lines) /\ MAX_CATEGORIES \in Nat
      /\ cat_table \in [0..MAX_CATEGORIES -> [name : Nat, rows : Seq(Nat)]]
      BY LoadFacts
<1>2. el.name = current_cat /\ el.rows = rows
      OBVIOUS
<1>3. cat_table' = [cat_table EXCEPT ![cat_index] = el]
      BY DEF Stored
<1> HIDE DEF el
<1>4. /\ cat_table'[cat_index] = el
      /\ \A i \in 0..cat_index - 1 : cat_table'[i] = cat_table[i]
      BY <1>0, <1>1, <1>3
<1>5. \A i \in 0..cat_index : i = cat_index \/ i \in 0..cat_index - 1
      BY <1>1
<1>6. cat_index' - 1 = cat_index /\ \A n : EntriesOf(n)' = EntriesOf(n)
      BY <1>1, SameFile
<1>7. ASSUME NEW k \in EntriesOf(current_cat)
      PROVE  RowOrFull(rows, k)
  <2>1. /\ k \in 1..Len(lines) /\ k > current_cat /\ lines[k] = "entry"
        /\ \A j \in current_cat + 1..k : lines[j] # "category"
        BY <1>1 DEF EntriesOf
  <2>2. k < next
    <3>1. CASE next > Len(lines)
          BY <1>1, <2>1, <3>1
    <3>2. CASE lines[next] = "category"
      <4>1. next \notin current_cat + 1..k
            BY <2>1, <3>2
      <4> QED BY <1>0, <1>1, <2>1, <4>1
    <3> QED BY <3>1, <3>2
  <2> QED BY <2>2 DEF MenuInv, SoFarComplete
<1>8. RowsComplete'
  <2> SUFFICES ASSUME NEW i \in 0..cat_index
               PROVE  /\ Len(cat_table'[i].rows) <= MAX_VALUES_PER_CATEGORY
                      /\ \A k \in EntriesOf(cat_table'[i].name) : RowOrFull(cat_table'[i].rows, k)
      BY <1>6 DEF RowsComplete, RowOrFull
  <2>1. CASE i = cat_index
        BY <1>2, <1>4, <1>7, <2>1, LoadFacts
  <2>2. CASE i \in 0..cat_index - 1
        BY <1>4, <2>2 DEF MenuInv, RowsComplete
  <2> QED BY <1>5, <2>1, <2>2
<1>9. NamesInOrder'
  <2> SUFFICES ASSUME NEW i \in 0..cat_index, NEW j \in 0..cat_index, i < j
               PROVE  cat_table'[i].name < cat_table'[j].name
      BY <1>6 DEF NamesInOrder
  <2>1. i \in 0..cat_index - 1
        BY <1>1
  <2>2. CASE j = cat_index
        BY <1>2, <1>4, <2>1, <2>2 DEF MenuInv, SoFarComplete
  <2>3. CASE j \in 0..cat_index - 1
        BY <1>4, <2>1, <2>3 DEF MenuInv, NamesInOrder
  <2> QED BY <1>5, <2>2, <2>3
<1>10. ASSUME NEW k \in CategoryLines, k < next
       PROVE  InTable(k)'
  <2>1. CASE k = current_cat
    <3>1. cat_index \in 0..cat_index /\ cat_table'[cat_index].name = k
          BY <1>1, <1>2, <1>4, <2>1
    <3> QED BY <1>6, <3>1 DEF InTable
  <2>2. CASE InTable(k)
    <3>1. PICK i \in 0..cat_index - 1 : cat_table[i].name = k
          BY <2>2 DEF InTable
    <3>2. i \in 0..cat_index /\ cat_table'[i].name = k
          BY <1>1, <1>4, <3>1
    <3> QED BY <1>6, <3>2 DEF InTable
  <2> QED BY <1>10, <2>1, <2>2 DEF MenuInv, SoFarComplete
<1>11. \A i \in 0..cat_index : cat_table'[i].name < next
  <2> TAKE i \in 0..cat_index
  <2>1. CASE i = cat_index
        BY <1>0, <1>2, <1>4, <2>1
  <2>2. CASE i \in 0..cat_index - 1
        BY <1>4, <2>2, LoadFacts
  <2> QED BY <1>5, <2>1, <2>2
<1> QED BY <1>8, <1>9, <1>10, <1>11

LEMMA MenuFinish ==
  ASSUME LoadInv, MenuInv, Finish
  PROVE  MenuInv'
<1>1. /\ Reading /\ next > Len(lines) /\ num_categories' = cat_index'
      /\ UNCHANGED <<lines, next, current_cat, rows, failed>>
      BY DEF Finish
<1>2. cat_index' \in Nat /\ ~Reading'
  <2>1. LoadInv'
        BY FinishInv
  <2>2. cat_index' \in Nat
        BY <2>1, LimitsAssumption DEF LoadInv, LoadTypes
  <2> QED BY <1>1, <2>2 DEF Reading
<1>3. \A k \in CategoryLines : k < next
      BY <1>1, LoadFacts DEF CategoryLines
<1>4. CategoryLines' = CategoryLines /\ \A n : EntriesOf(n)' = EntriesOf(n)
      BY <1>1, SameFile
<1>5. /\ RowsComplete' /\ NamesInOrder' /\ \A k \in CategoryLines : InTable(k)'
  <2>1. CASE current_cat # NULL
    <3>1. cat_table' = Stored /\ cat_index' = cat_index + 1
          BY <2>1 DEF Finish
    <3> QED BY <1>1, <1>3, <2>1, <3>1, StoredMenu
  <2>2. CASE current_cat = NULL
    <3>1. cat_table' = cat_table /\ cat_index' = cat_index
          BY <2>2 DEF Finish
    <3>2. RowsComplete' /\ NamesInOrder' /\ \A k : InTable(k)' = InTable(k)
          BY <1>4, <3>1 DEF MenuInv, RowsComplete, NamesInOrder, RowOrFull, InTable
    <3>3. \A k \in CategoryLines : k \in Nat /\ k # NULL
          BY LoadFacts DEF CategoryLines, NULL
    <3> QED BY <1>1, <1>3, <2>2, <3>2, <3>3 DEF MenuInv, SoFarComplete
  <2> QED BY <2>1, <2>2
<1>6. SoFarComplete' /\ TableComplete'
      BY <1>1, <1>2, <1>4, <1>5 DEF SoFarComplete, TableComplete
<1> QED BY <1>5, <1>6 DEF MenuInv

LEMMA MenuCategory ==
  ASSUME LoadInv, MenuInv, Category
  PROVE  MenuInv'
<1> DEFINE stored == current_cat # NULL
           index  == IF stored THEN cat_index + 1 ELSE cat_index
<1>1. /\ Reading /\ next \in 1..Len(lines) /\ lines[next] = "category"
      /\ lines' = lines /\ next' = next + 1
      BY LoadFacts DEF Category, More
<1>2. cat_table' = (IF stored THEN Stored ELSE cat_table) /\ cat_index' = index
      BY DEF Category
<1>3. \/ /\ index >= MAX_CATEGORIES /\ current_cat' = NULL /\ num_categories' = index
         /\ rows' = rows /\ failed' = failed
      \/ /\ index < MAX_CATEGORIES /\ rows' = <<>> /\ num_categories' = num_categories
         /\ \/ current_cat' = next /\ failed' = failed
            \/ current_cat' = NULL /\ failed' = failed \cup {next}
  <2>1. index \in Nat
        BY LoadFacts
  <2> QED BY <2>1, LimitsAssumption DEF Category
<1>4. \A k \in CategoryLines : k \in Nat /\ k # NULL
      BY LoadFacts DEF CategoryLines, NULL
<1>5. /\ RowsComplete' /\ NamesInOrder'
      /\ \A k \in CategoryLines : k < next => InTable(k)'
      /\ \A i \in 0..cat_index' - 1 : cat_table'[i].name < next
  <2>1. CASE stored
    <3>1. cat_table' = Stored /\ cat_index' = cat_index + 1 /\ cat_index' - 1 = cat_index
          BY <1>2, <2>1, LoadFacts
    <3> QED BY <1>1, <2>1, <3>1, StoredMenu
  <2>2. CASE ~stored
    <3>1. cat_table' = cat_table /\ cat_index' = cat_index
          BY <1>2, <2>2
    <3>2. RowsComplete' /\ NamesInOrder' /\ \A k : InTable(k)' = InTable(k)
          BY <1>1, <3>1, SameFile DEF MenuInv, RowsComplete, NamesInOrder, RowOrFull, InTable
    <3> QED BY <1>1, <1>4, <2>2, <3>1, <3>2, LoadFacts DEF MenuInv, SoFarComplete
  <2> QED BY <2>1, <2>2
<1>6. \A i \in 0..cat_index' - 1 : cat_table'[i].name \in Nat
  <2>1. LoadInv'
        BY CategoryInv
  <2>2. /\ cat_index' \in 0..MAX_CATEGORIES
        /\ cat_table' \in [0..MAX_CATEGORIES -> [name : Nat, rows : Seq(Nat)]]
        BY <2>1 DEF LoadInv, LoadTypes
  <2> HIDE DEF index, stored
  <2>3. PICK n \in 0..MAX_CATEGORIES : n = cat_index'
        BY <2>2
  <2>4. \A i \in 0..n - 1 : i \in 0..MAX_CATEGORIES
        BY LimitsAssumption
  <2>5. \A i \in 0..n - 1 : cat_table'[i].name \in Nat
        BY <2>2, <2>4
  <2> QED BY <2>3, <2>5
<1> HIDE DEF index, stored
<1>7. CASE /\ index >= MAX_CATEGORIES /\ current_cat' = NULL /\ num_categories' = index
           /\ rows' = rows /\ failed' = failed
  <2>1. cat_index' = MAX_CATEGORIES /\ cat_index' \in Nat /\ ~Reading'
    <3>1. LoadInv'
          BY CategoryInv
    <3>2. cat_index' \in 0..MAX_CATEGORIES
          BY <3>1 DEF LoadInv, LoadTypes
    <3> QED BY <1>2, <1>7, <3>2, LimitsAssumption DEF Reading
  <2>2. CategoryLines' = CategoryLines
        BY <1>1, <1>7, SameFile
  <2>3. ASSUME NEW k \in CategoryLines
        PROVE  \/ InTable(k)'
               \/ \A i \in 0..cat_index' - 1 : cat_table'[i].name < k
    <3>1. CASE k < next
          BY <1>5, <3>1
    <3>2. CASE ~(k < next)
          BY <1>4, <1>5, <1>6, <3>2, LoadFacts, SMTT(60)
    <3> QED BY <3>1, <3>2
  <2>4. SoFarComplete' /\ TableComplete'
        BY <1>2, <1>7, <2>1, <2>2, <2>3 DEF SoFarComplete, TableComplete
  <2> QED BY <1>5, <2>4 DEF MenuInv
<1>8. CASE /\ index < MAX_CATEGORIES /\ rows' = <<>> /\ num_categories' = num_categories
           /\ \/ current_cat' = next /\ failed' = failed
              \/ current_cat' = NULL /\ failed' = failed \cup {next}
  <2>1. Reading'
        BY <1>1, <1>8 DEF Reading
  <2>2. CategoryLines' \subseteq CategoryLines /\ (next \in CategoryLines' => current_cat' = next)
        BY <1>1, <1>8, SameFile
  <2>3. ASSUME NEW k \in CategoryLines', k < next'
        PROVE  k = current_cat' \/ InTable(k)'
    <3>1. k \in CategoryLines /\ k \in Nat
          BY <1>4, <2>2
    <3>2. CASE k = next
          BY <2>2, <3>2
    <3>3. CASE k # next
      <4>1. k < next
            BY <1>1, <2>3, <3>1, <3>3
      <4> QED BY <1>5, <3>1, <4>1
    <3> QED BY <3>2, <3>3
  <2>4. ASSUME current_cat' # NULL
        PROVE  /\ \A i \in 0..cat_index' - 1 : cat_table'[i].name < current_cat'
               /\ \A k \in EntriesOf(current_cat') : ~(k < next')
    <3>1. current_cat' = next
          BY <1>8, <2>4
    <3>2. \A k \in EntriesOf(next) : ~(k < next + 1)
          BY <1>1, LoadFacts DEF EntriesOf
    <3> QED BY <1>1, <1>5, <3>1, <3>2
  <2>5. EntriesOf(current_cat)' = EntriesOf(current_cat')
        BY <1>1 DEF EntriesOf
  <2>6. SoFarComplete'
        BY <2>3, <2>4, <2>5 DEF SoFarComplete
  <2>7. TableComplete'
        BY <2>1 DEF TableComplete
  <2> QED BY <1>5, <2>6, <2>7 DEF MenuInv
<1> QED BY <1>3, <1>7, <1>8

\* All steps together.
LEMMA MenuStep ==
  ASSUME LoadInv, MenuInv, [LoadNext]_loadVars
  PROVE  MenuInv'
<1>1. CASE LoadNext
      BY <1>1, MenuSkip, MenuCategory, MenuEntry, MenuFinish DEF LoadNext
<1>2. CASE UNCHANGED loadVars
  <2>1. /\ lines' = lines /\ next' = next /\ current_cat' = current_cat
        /\ cat_index' = cat_index /\ rows' = rows /\ cat_table' = cat_table
        /\ num_categories' = num_categories /\ failed' = failed
        BY <1>2 DEF loadVars
  <2>2. CategoryLines' = CategoryLines /\ \A n : EntriesOf(n)' = EntriesOf(n)
        BY <2>1, SameFile
  <2>3. RowsComplete' /\ NamesInOrder' /\ \A k : InTable(k)' = InTable(k)
        BY <2>1, <2>2 DEF MenuInv, RowsComplete, NamesInOrder, RowOrFull, InTable
  <2>4. SoFarComplete'
        BY <2>1, <2>2, <2>3 DEF MenuInv, SoFarComplete, RowOrFull, Reading
  <2>5. TableComplete'
        BY <2>1, <2>2, <2>3 DEF MenuInv, TableComplete, Reading
  <2> QED BY <2>3, <2>4, <2>5 DEF MenuInv
<1> QED BY <1>1, <1>2

\* When the reading is over, the invariant is the menu.
LEMMA MenuOfInv ==
  ASSUME LoadInv, MenuInv, ~Reading
  PROVE  MenuIsFile
<1> DEFINE names == [i \in 1..num_categories |-> cat_table[i - 1].name]
<1>1. num_categories = cat_index
      BY DEF MenuInv, TableComplete
<1>2. /\ cat_index \in Nat /\ cat_index <= MAX_CATEGORIES
      /\ \A i \in 0..cat_index - 1 : cat_table[i].name \in Nat /\ cat_table[i].rows \in Seq(Nat)
      BY LoadFacts
<1>3. /\ \A i \in 1..cat_index : i - 1 \in 0..cat_index - 1
      /\ \A i \in 0..cat_index - 1 : i + 1 \in 1..cat_index /\ (i + 1) - 1 = i
      BY <1>2
<1>4. \A i \in 1..cat_index : names[i] = cat_table[i - 1].name
      BY <1>1
<1>5. names \in Seq(Nat) /\ Len(names) = cat_index
  <2>1. names \in [1..cat_index -> Nat]
        BY <1>1, <1>2, <1>3
  <2> HIDE DEF names
  <2> QED BY <1>2, <2>1
<1> HIDE DEF names
<1>6. ASSUME NEW i \in 0..cat_index - 1
      PROVE  /\ cat_table[i].name \in CategoryLines
             /\ FirstOf(cat_table[i].rows, MAX_VALUES_PER_CATEGORY, EntriesOf(cat_table[i].name))
  <2>1. Belongs(cat_table[i].name, cat_table[i].rows) /\ cat_table[i].name \notin failed
        BY DEF LoadInv, EntriesBelong
  <2>2. DOMAIN lines = 1..Len(lines)
        BY LoadFacts
  <2>3. cat_table[i].name \in CategoryLines
        BY <2>1, <2>2 DEF Belongs, CategoryLines
  <2>4. PICK rws \in Seq(1..Len(lines)) : rws = cat_table[i].rows
        BY <2>1 DEF Belongs
  <2>5. PICK name : name = cat_table[i].name
        OBVIOUS
  <2>6. /\ \A k \in 1..Len(rws) : rws[k] \in EntriesOf(name)
        /\ \A k, l \in 1..Len(rws) : k < l => rws[k] < rws[l]
    <3>1. \A k \in 1..Len(rws) : rws[k] \in 1..Len(lines)
          BY <2>4
    <3>2. Belongs(name, rws) /\ name \in Nat
          BY <1>2, <2>1, <2>4, <2>5
    <3> QED BY <2>2, <3>1, <3>2 DEF Belongs, EntriesOf
  <2>7. /\ Len(rws) <= MAX_VALUES_PER_CATEGORY
        /\ \A k \in EntriesOf(name) : RowOrFull(rws, k)
        BY <2>4, <2>5 DEF MenuInv, RowsComplete
  <2>8. FirstOf(rws, MAX_VALUES_PER_CATEGORY, EntriesOf(name))
        BY <2>6, <2>7 DEF FirstOf, RowOrFull
  <2> QED BY <2>3, <2>4, <2>5, <2>8
<1>7. FirstOf(names, MAX_CATEGORIES, CategoryLines)
  <2>1. \A i \in 1..Len(names) : names[i] \in CategoryLines
        BY <1>3, <1>4, <1>5, <1>6
  <2>2. \A i, j \in 1..Len(names) : i < j => names[i] < names[j]
    <3> SUFFICES ASSUME NEW i \in 1..cat_index, NEW j \in 1..cat_index, i < j
                 PROVE  names[i] < names[j]
        BY <1>5
    <3>1. i - 1 \in 0..cat_index - 1 /\ j - 1 \in 0..cat_index - 1 /\ i - 1 < j - 1
          BY <1>2
    <3>2. cat_table[i - 1].name < cat_table[j - 1].name
          BY <3>1 DEF MenuInv, NamesInOrder
    <3> QED BY <1>4, <3>2
  <2>3. ASSUME NEW x \in CategoryLines
        PROVE  \/ \E i \in 1..Len(names) : names[i] = x
               \/ Len(names) = MAX_CATEGORIES /\ \A i \in 1..Len(names) : names[i] < x
    <3>1. CASE InTable(x)
      <4>1. PICK i \in 0..cat_index - 1 : cat_table[i].name = x
            BY <3>1 DEF InTable
      <4>2. i + 1 \in 1..Len(names) /\ names[i + 1] = x
            BY <1>3, <1>4, <1>5, <4>1
      <4> QED BY <4>2
    <3>2. CASE cat_index = MAX_CATEGORIES /\ \A i \in 0..cat_index - 1 : cat_table[i].name < x
          BY <1>3, <1>4, <1>5, <3>2
    <3> QED BY <3>1, <3>2 DEF MenuInv, TableComplete
  <2> QED BY <1>2, <1>5, <2>1, <2>2, <2>3 DEF FirstOf
<1> QED BY <1>1, <1>6, <1>7 DEF MenuIsFile, names

\* The menu offers the first categories of the file, each with its first entries and no
\* entry of another, whichever lines are too many and whichever allocation fails.
THEOREM MenuIsTheFile == LoadSpec => []MenuIsFile
<1>1. LoadInit => MenuInv
      BY MenuInit
<1>2. LoadInv /\ MenuInv /\ [LoadNext]_loadVars => MenuInv'
      BY MenuStep
<1>3. LoadInv /\ MenuInv => MenuIsFile
      BY MenuOfInv DEF MenuIsFile
<1> QED BY <1>1, <1>2, <1>3, LoaderInvariant, PTL DEF LoadSpec
=============================================================================
