------------------------------ MODULE MCDashboard -----------------------------
(* A split pane without and one with room for the menu, a terminal of the
   usual size and a wide one. *)
EXTENDS Dashboard

MCSizes == {[w |-> 20, h |-> 5], [w |-> 45, h |-> 9], [w |-> 80, h |-> 24],
            [w |-> 130, h |-> 30]}

=============================================================================
