---------------------------- MODULE MCConfigStore ----------------------------
(* Three versions of the settings and two forced ports. Beside the saves,    *)
(* what PrepareTasks does to the accounts: the ids of up to three accounts,  *)
(* set ones that clash with generated ones among them; and lists of up to    *)
(* three time ranges, of which two are allowed, in a day of six minutes with *)
(* half hours of two, with every pair of clocks among them.                  *)
EXTENDS ConfigStore
CONSTANTS s0, s1, s2, btc
ThreeSettings == {s0, s1, s2}
FirstSettings == s0
TwoPorts == {8001, 8002}

OneName == {btc}
TwoNumbers == {1, 2}

At(form, m) == [form |-> form, minute |-> m]
Clocks == {At("HH:MM", m) : m \in {0, 2, 3, 4}}
              \cup {At("H:MM", 0), At("H:MM", 2), At("other", 0), At("blank", 0)}
Rows == [start : Clocks, end : Clocks]
Morning == [start |-> At("H:MM", 2), end |-> At("HH:MM", 4)]
NoRow == [start |-> At("blank", 0), end |-> At("blank", 0)]
ShortLists ==
    {<<>>} \cup UNION {{<<r>>, <<Morning, r>>, <<NoRow, r, r>>, <<r, r, r>>} : r \in Rows}
=============================================================================
