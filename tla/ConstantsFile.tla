--------------------------- MODULE ConstantsFile ----------------------------
(***************************************************************************)
(* The loader of the user's constants, load_entries in                     *)
(* src/src/gui_menu_constants.c: categories with their entries, read line  *)
(* by line into a table of fixed size.                                     *)
(*                                                                         *)
(* The file is the sequence of what fgets returns, each by its kind: a     *)
(* line over 199 characters is several, and each is taken for a line.  A   *)
(* category or an entry is known by its place in the file.                 *)
(***************************************************************************)
EXTENDS Integers, Sequences, FiniteSets, SequencesExt

CONSTANTS
  MAX_CATEGORIES, MAX_VALUES_PER_CATEGORY,
  MaxLines    \* bound: lines of the file

ASSUME LimitsAssumption == MAX_CATEGORIES \in Nat /\ MAX_VALUES_PER_CATEGORY \in Nat

Kinds == {"skipped", "category", "entry", "other"}

NULL  == 0
Empty == [name |-> NULL, rows |-> <<>>]

VARIABLES
  lines,
  next,           \* line that is read next
  current_cat,    \* the category that is filled, its index in cat_table and NULL
  cat_index,
  rows,           \* row_name, row_val of current_cat; row_count is its length
  cat_table,      \* finished categories: name and rows
  num_categories, \* -1 until the end
  failed          \* history: categories for which malloc returned NULL

loadVars == <<lines, next, current_cat, cat_index, rows, cat_table, num_categories, failed>>

Reading == num_categories = -1

More == Reading /\ next <= Len(lines)

Stored == [cat_table EXCEPT ![cat_index] = [name |-> current_cat, rows |-> rows]]

Skip ==
  /\ More
  /\ \/ lines[next] \in {"skipped", "other"}
     \/ lines[next] = "entry" /\ current_cat = NULL
  /\ next' = next + 1
  /\ UNCHANGED <<lines, current_cat, cat_index, rows, cat_table, num_categories, failed>>

\* The end of load_entries, from the end of the file.
Finish ==
  /\ Reading /\ next > Len(lines)
  /\ IF current_cat # NULL
     THEN /\ cat_table' = Stored
          /\ cat_index' = cat_index + 1
     ELSE UNCHANGED <<cat_table, cat_index>>
  /\ num_categories' = cat_index'
  /\ UNCHANGED <<lines, next, current_cat, rows, failed>>

\* Mutant of Category: the row count of the category before is kept.
CategoryKeepsRows ==
  LET stored == current_cat # NULL
      index  == IF stored THEN cat_index + 1 ELSE cat_index
  IN  /\ More /\ lines[next] = "category"
      /\ cat_table' = IF stored THEN Stored ELSE cat_table
      /\ cat_index' = index
      /\ IF index >= MAX_CATEGORIES
         THEN current_cat' = NULL /\ num_categories' = index /\ UNCHANGED failed
         ELSE current_cat' = next /\ UNCHANGED <<num_categories, failed>>
      /\ next' = next + 1
      /\ UNCHANGED <<lines, rows>>

\* A category line: the one before is stored; past the limit the reading stops.
Category ==
  LET stored == current_cat # NULL
      index  == IF stored THEN cat_index + 1 ELSE cat_index
  IN  /\ More /\ lines[next] = "category"
      /\ cat_table' = IF stored THEN Stored ELSE cat_table
      /\ cat_index' = index
      /\ IF index >= MAX_CATEGORIES
         THEN /\ current_cat' = NULL
              /\ num_categories' = index
              /\ UNCHANGED <<rows, failed>>
         ELSE /\ rows' = <<>>
              /\ \/ current_cat' = next /\ UNCHANGED failed
                 \/ current_cat' = NULL /\ failed' = failed \cup {next}
              /\ UNCHANGED num_categories
      /\ next' = next + 1
      /\ UNCHANGED lines

\* Mutant of Entry: the row count is not checked.
EntryUnchecked ==
  /\ More /\ lines[next] = "entry" /\ current_cat # NULL
  /\ rows' = Append(rows, next)
  /\ next' = next + 1
  /\ UNCHANGED <<lines, current_cat, cat_index, cat_table, num_categories, failed>>

Entry ==
  /\ More /\ lines[next] = "entry" /\ current_cat # NULL
  /\ rows' = IF Len(rows) < MAX_VALUES_PER_CATEGORY THEN Append(rows, next) ELSE rows
  /\ next' = next + 1
  /\ UNCHANGED <<lines, current_cat, cat_index, cat_table, num_categories, failed>>

\* cat_table has a place more than the array, so that a write past its end is seen.
LoadInit ==
  /\ lines \in BoundedSeq(Kinds, MaxLines)
  /\ next = 1
  /\ current_cat = NULL /\ cat_index = 0 /\ rows = <<>>
  /\ cat_table = [i \in 0..MAX_CATEGORIES |-> Empty]
  /\ num_categories = -1
  /\ failed = {}

LoadNext == Skip \/ Category \/ Entry \/ Finish

\* One function call, which nothing suspends.
Fairness == WF_loadVars(LoadNext)

LoadSpec == LoadInit /\ [][LoadNext]_loadVars /\ Fairness

-----------------------------------------------------------------------------
(* Properties *)

\* The categories that found memory, and the entries that stand under a line.
CategoryLines == {i \in DOMAIN lines : lines[i] = "category" /\ i \notin failed}

EntriesOf(i) ==
  {k \in DOMAIN lines :
     k > i /\ lines[k] = "entry" /\ \A j \in i + 1..k : lines[j] # "category"}

\* s is the set S in order, or its first n members.
FirstOf(s, n, S) ==
  /\ Len(s) <= n
  /\ \A i \in 1..Len(s) : s[i] \in S
  /\ \A i, j \in 1..Len(s) : i < j => s[i] < s[j]
  /\ \A x \in S : \/ \E i \in 1..Len(s) : s[i] = x
                  \/ Len(s) = n /\ \A i \in 1..Len(s) : s[i] < x

\* Nothing is written past the two arrays (MAX_CATEGORIES, MAX_VALUES_PER_CATEGORY).
WithinLimits ==
  /\ cat_table[MAX_CATEGORIES] = Empty
  /\ Reading /\ current_cat # NULL => cat_index < MAX_CATEGORIES
  /\ Len(rows) <= MAX_VALUES_PER_CATEGORY

\* The menu offers the first categories of the file, each with its first entries and no
\* entry of another, whichever lines are too many and whichever allocation fails.
MenuIsFile ==
  ~Reading =>
    /\ FirstOf([i \in 1..num_categories |-> cat_table[i - 1].name],
               MAX_CATEGORIES, CategoryLines)
    /\ \A i \in 0..num_categories - 1 :
         FirstOf(cat_table[i].rows, MAX_VALUES_PER_CATEGORY, EntriesOf(cat_table[i].name))

=============================================================================
