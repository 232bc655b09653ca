---------------------------- MODULE MC_Traceback ----------------------------
EXTENDS Traceback

(* Code objects, and frames of a method, a classmethod, a module body     *)
(* and a plain function.                                                   *)
CodeM == [id |-> "cm", file |-> "a.py", name |-> "m"]
CodeC == [id |-> "cc", file |-> "a.py", name |-> "c"]
CodeTop == [id |-> "ct", file |-> "b.py", name |-> "<module>"]

Fr(id, code, line, arg, inl, cls) ==
  [id |-> id, code |-> code, lineno |-> line, argname |-> arg,
   inLocals |-> inl, cls |-> cls]

Method == Fr("f1", CodeM, 10, "self", TRUE, "C")
ClsMethod == Fr("f2", CodeC, 0, "cls", TRUE, None)
ModuleBody == Fr("f3", CodeTop, -1, "", FALSE, None)
Plain == Fr("f4", CodeM, 7, "x", FALSE, None)
OldModule == Fr("f3", CodeTop, None, "", FALSE, None)
(* A method that ran `del self`.                                           *)
DeletedSelf == Fr("f5", CodeC, 3, "self", FALSE, None)

MCChains ==
  [v \in BOOLEAN |->
     IF v THEN {<<Method, ClsMethod, ModuleBody>>, <<Plain, Method>>, <<ModuleBody>>,
                <<Plain, ClsMethod, Method, ModuleBody>>}
     ELSE {<<Method, Plain, OldModule>>, <<ClsMethod>>}]

MCCrashChains ==
  [v \in BOOLEAN |-> {<<DeletedSelf, ModuleBody>>, <<Method>>}]
=============================================================================
