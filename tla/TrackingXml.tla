----------------------------- MODULE TrackingXml -----------------------------
(***************************************************************************)
(* The parser of tracking.xml (TRACK/ParametersLoad.c): how the loops over *)
(* sections ("modules"), their action lists and their actions fill the     *)
(* array ModuleConfig.  Of a section only its actions are kept, and of an  *)
(* action its name: the other values are copied one by one.                *)
(*                                                                         *)
(* The loops go from one element to the next whatever its name is, so a    *)
(* file here is what they visit: a sequence of sections, each the sequence *)
(* of its lists, each a sequence of action names.                          *)
(***************************************************************************)
EXTENDS Integers, Sequences, SequencesExt

CONSTANTS
  maxTrackingModule,      \* the length of ModuleConfig
  maxActionSingleModule,  \* the length of ActionInstanceConfig in each
  ActionNames,            \* the names the parser knows
  RequestMachineData      \* the action whose number is 0

ASSUME XmlAssumption ==
  /\ maxTrackingModule \in Nat \ {0}
  /\ maxActionSingleModule \in Nat \ {0}
  /\ RequestMachineData \in ActionNames

Sections == 0 .. maxTrackingModule - 1
Actions == 0 .. maxActionSingleModule - 1

\* A section before it is parsed: all zero.
NoSection ==
  [ActionInstanceConfig |-> [j \in Actions |-> RequestMachineData],
   NumberOfActions |-> 0]

\* What the parser keeps: the array, the count of sections, the index of the
\* next action, and whether anything was written past an array.
NoConfig ==
  [ModuleConfig |-> [k \in Sections |-> NoSection], Module_Count |-> 0,
   j_cycle |-> 0, past |-> FALSE]

\* An action is stored if its name is known, and counted in any case.
ParsedAction(c, name) ==
  LET k == c.Module_Count
      j == c.j_cycle
      counted == [c EXCEPT !.ModuleConfig[k].NumberOfActions = @ + 1, !.j_cycle = @ + 1]
  IN IF name \notin ActionNames THEN counted
     ELSE IF j \in Actions
       THEN [counted EXCEPT !.ModuleConfig[k].ActionInstanceConfig[j] = name]
     ELSE [counted EXCEPT !.past = TRUE]

\* Fault: the index goes on from one list, and one section, to the next.
FirstAction_Kept(c) == c.j_cycle

\* The index the next list begins with.
FirstAction(c) == 0

ParsedList(c, list) ==
  LET parsed == FoldLeft(ParsedAction, c, list)
  IN [parsed EXCEPT !.j_cycle = FirstAction(parsed)]

\* Sections beyond the array are skipped, and counted.
ParsedSection(c, section) ==
  LET parsed == IF c.Module_Count \in Sections THEN FoldLeft(ParsedList, c, section) ELSE c
  IN [parsed EXCEPT !.Module_Count = @ + 1]

Parsed(file) == FoldLeft(ParsedSection, NoConfig, file)

-----------------------------------------------------------------------------
(* What the result should be.                                              *)

ActionsOf(section) == FlattenSeq(section)

\* A file that fits the arrays.
Fits(file) ==
  /\ Len(file) <= maxTrackingModule
  /\ \A k \in 1 .. Len(file) : Len(ActionsOf(file[k])) <= maxActionSingleModule

\* No loop over configuration c, by its counts, leaves an array.
StaysInArrays(c) ==
  /\ c.Module_Count <= maxTrackingModule
  /\ \A k \in Sections : c.ModuleConfig[k].NumberOfActions <= maxActionSingleModule
  /\ ~c.past

\* Section k of configuration c has the actions of the file, in their order;
\* an unknown name leaves action 0 in its place.
SectionIs(c, k, section) ==
  LET actions == ActionsOf(section)
      config == c.ModuleConfig[k]
  IN /\ config.NumberOfActions = Len(actions)
     /\ \A j \in 1 .. Len(actions) :
          config.ActionInstanceConfig[j - 1] =
            IF actions[j] \in ActionNames THEN actions[j] ELSE RequestMachineData
=============================================================================
