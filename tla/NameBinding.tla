---------------------------- MODULE NameBinding ----------------------------
(***************************************************************************)
(* What the table of named objects promises the author of a document: a     *)
(* name may be referred to before it is defined, its first number is its    *)
(* number for ever, its first definition is its meaning, and what the file  *)
(* holds under that number is that meaning, or null if there never was one. *)
(***************************************************************************)
EXTENDS Naturals

CONSTANTS
  Key,       \* names
  Number,    \* object numbers
  Value,     \* what a name can be defined as
  Null       \* what an undefined name stands for

VARIABLES
  num,       \* the number of a name, 0 before it has one
  def,       \* its meaning, "none" before it has one
  out        \* what the file holds under its number, "none" before it does

Init ==
  /\ num = [k \in Key |-> 0]
  /\ def = [k \in Key |-> "none"]
  /\ out = [k \in Key |-> "none"]

Refer(k) ==
  /\ num[k] = 0
  /\ \E n \in Number : /\ \A j \in Key : num[j] # n
                       /\ num' = [num EXCEPT ![k] = n]
  /\ UNCHANGED << def, out >>

Define(k) ==
  /\ def[k] = "none"
  /\ \E v \in Value : def' = [def EXCEPT ![k] = v]
  /\ UNCHANGED << num, out >>

GiveUp(k) ==
  /\ def[k] = "none" /\ num[k] # 0
  /\ def' = [def EXCEPT ![k] = Null]
  /\ UNCHANGED << num, out >>

Write(k) ==
  /\ num[k] # 0 /\ def[k] # "none" /\ out[k] = "none"
  /\ out' = [out EXCEPT ![k] = def[k]]
  /\ UNCHANGED << num, def >>

Next == \E k \in Key : Refer(k) \/ Define(k) \/ GiveUp(k) \/ Write(k)

Spec == Init /\ [][Next]_<< num, def, out >>
=============================================================================
