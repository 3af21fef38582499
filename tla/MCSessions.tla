----------------------------- MODULE MCSessions -----------------------------
(***************************************************************************)
(* A small instance of Sessions: two phones, two days that meet at wall    *)
(* time 3, silences of more than two ticks cut a session; `app1' is the    *)
(* collector's own app.                                                    *)
(***************************************************************************)
EXTENDS Sessions, TLC

CONSTANTS up1, up2, app1, app2

MCDayOf == [w \in Wall |-> IF w < 3 THEN 0 ELSE 1]

MCOwnScreens == {up1, up2} \X {app1}

Interchangeable == Permutations({up1, up2})
=============================================================================
