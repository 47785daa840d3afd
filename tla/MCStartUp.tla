---- MODULE MCStartUp ----
(***************************************************************************)
(* StartUp for TLC: up to one section more than there is room for, with    *)
(* fewer, as many and more actions than there is room for, in one list or  *)
(* in two, and with a name the parser does not know.                       *)
(***************************************************************************)
EXTENDS StartUp

Push == "ActionPushOut"
Set == "ActionSetOutput"
Unknown == "ActionSomething"

MCFiles ==
  {<<>>,
   <<<<>>, <<<<Push>>>>>>,
   <<<<<<Set, Push>>>>, <<<<Push>>>>>>,
   <<<<<<Unknown, Push>>>>, <<<<Push, Set>>>>>>,
   <<<<<<Set>>, <<Push>>>>, <<<<Push>>>>>>,
   <<<<<<Set, Set, Push>>>>, <<<<Push>>>>>>,
   <<<<<<Push>>>>, <<<<Set>>>>, <<<<Push>>>>>>}
====
